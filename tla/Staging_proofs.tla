--------------------------- MODULE Staging_proofs ---------------------------
(***************************************************************************)
(* Lemmas about the ladder, for any rungs: it has a bottom, a top and a    *)
(* bracket for every demand, and what a cap and the frozen devices leave   *)
(* of it; and about what a plan of one dwell or two adds up to.            *)
(***************************************************************************)
EXTENDS Staging, FiniteSetTheorems, WellFoundedInduction, TLAPS

\* A non-empty set of numbers has a least one.
LEMMA LeastNat ==
  ASSUME NEW T, T \subseteq Nat, T # {}
  PROVE  \E n \in T : \A m \in T : n <= m
<1>1. PICK Less : Less = {p \in Nat \X Nat : p[1] < p[2]} /\ IsWellFoundedOn(Less, Nat)
  BY NatLessThanWellFounded DEF OpToRel
<1>2. PICK n \in T : \A m \in T : <<m, n>> \notin Less   BY <1>1, WFMin
<1>3. Less = {p \in Nat \X Nat : p[1] < p[2]}   BY <1>1
<1>4. ASSUME NEW m \in T PROVE n <= m
  <2>1. <<m, n>> \in Nat \X Nat /\ <<m, n>> \notin Less   BY <1>2
  <2>2. ~(m < n)   BY <1>3, <2>1
  <2> QED BY <2>2
<1> QED BY <1>4

\* A finite set under a total order has a first member.
LEMMA FirstOfFinite ==
  ASSUME NEW R, IsFiniteSet(R), R # {}, NEW Less \in SUBSET (R \X R),
         \A r \in R : <<r, r>> \notin Less,
         \A r, s, t \in R : <<r, s>> \in Less /\ <<s, t>> \in Less => <<r, t>> \in Less,
         \A r, s \in R : r = s \/ <<r, s>> \in Less \/ <<s, r>> \in Less
  PROVE  \E r \in R : \A s \in R \ {r} : <<r, s>> \in Less
<1> DEFINE Earlier(r) == {s \in R : <<s, r>> \in Less}
           Counts == {Cardinality(Earlier(r)) : r \in R}
<1>1. \A r \in R : IsFiniteSet(Earlier(r)) /\ Cardinality(Earlier(r)) \in Nat
  BY FS_Subset, FS_CardinalityType
<1>2. Counts \subseteq Nat /\ Counts # {}
  <2> HIDE DEF Earlier
  <2> QED BY <1>1
<1>3. PICK n \in Counts : \A m \in Counts : n <= m   BY <1>2, LeastNat
<1>4. PICK r \in R : n = Cardinality(Earlier(r))   BY <1>3
<1>5. ASSUME NEW s \in R, <<s, r>> \in Less PROVE FALSE
  <2>1. Earlier(s) \subseteq Earlier(r) /\ s \in Earlier(r) /\ s \notin Earlier(s)
    BY <1>5
  <2>2. Cardinality(Earlier(s)) < Cardinality(Earlier(r))
    <3>1. Earlier(s) \in SUBSET Earlier(r) /\ Earlier(s) # Earlier(r)   BY <2>1
    <3> HIDE DEF Earlier
    <3>2. /\ Cardinality(Earlier(s)) <= Cardinality(Earlier(r))
          /\ Cardinality(Earlier(r)) # Cardinality(Earlier(s))
      BY <1>1, <3>1, FS_Subset
    <3> QED BY <1>1, <3>2
  <2>3. Cardinality(Earlier(s)) \in Counts   OBVIOUS
  <2>4. Cardinality(Earlier(s)) \in Nat /\ Cardinality(Earlier(r)) \in Nat   BY <1>1
  <2>5. Cardinality(Earlier(r)) <= Cardinality(Earlier(s))   BY <1>3, <1>4, <2>3
  <2> HIDE DEF Earlier, Counts
  <2> QED BY <2>2, <2>4, <2>5
<1> QED BY <1>5

\* What BuildLadder and the operators that narrow a ladder leave of it.
IsLadder(R) ==
  /\ IsFiniteSet(R)
  /\ \A r \in R : r.level \in Int /\ r.declared \in Nat
  /\ \A r, s \in R : r.declared = s.declared => r = s

\* Some of the rungs of a ladder are a ladder.
LEMMA PartIsLadder ==
  ASSUME NEW R, IsLadder(R), NEW S \in SUBSET R
  PROVE  IsLadder(S)
BY FS_Subset DEF IsLadder

\* The bottom of a ladder is one of its rungs, and no rung is below it.
LEMMA BottomOfLadder ==
  ASSUME NEW R, IsLadder(R), R # {}
  PROVE  Bottom(R) \in R /\ \A s \in R : Bottom(R).level <= s.level
<1> DEFINE Less == {p \in R \X R : Precedes(p[1], p[2])}
<1>1. \A r, s \in R : <<r, s>> \in Less <=> Precedes(r, s)   OBVIOUS
<1>2. \E r \in R : \A s \in R \ {r} : <<r, s>> \in Less
  <2>1. IsFiniteSet(R) /\ Less \in SUBSET (R \X R)   BY DEF IsLadder
  <2>2. \A r \in R : ~Precedes(r, r)   BY DEF IsLadder, Precedes
  <2>3. \A r, s, t \in R : Precedes(r, s) /\ Precedes(s, t) => Precedes(r, t)
    BY DEF IsLadder, Precedes
  <2>4. \A r, s \in R : r = s \/ Precedes(r, s) \/ Precedes(s, r)
    BY DEF IsLadder, Precedes
  <2> HIDE DEF Less
  <2> QED BY <1>1, <2>1, <2>2, <2>3, <2>4, FirstOfFinite
<1>3. \E r \in R : \A s \in R \ {r} : Precedes(r, s)   BY <1>1, <1>2
<1>4. Bottom(R) \in R /\ \A s \in R \ {Bottom(R)} : Precedes(Bottom(R), s)
  BY <1>3 DEF Bottom
<1> QED BY <1>4 DEF Precedes, IsLadder

\* The top of a ladder is one of its rungs, and no rung is above it.
LEMMA TopOfLadder ==
  ASSUME NEW R, IsLadder(R), R # {}
  PROVE  Top(R) \in R /\ \A s \in R : s.level <= Top(R).level
<1> DEFINE Less == {p \in R \X R : Precedes(p[2], p[1])}
<1>1. \A r, s \in R : <<r, s>> \in Less <=> Precedes(s, r)   OBVIOUS
<1>2. \E r \in R : \A s \in R \ {r} : <<r, s>> \in Less
  <2>1. IsFiniteSet(R) /\ Less \in SUBSET (R \X R)   BY DEF IsLadder
  <2>2. \A r \in R : ~Precedes(r, r)   BY DEF IsLadder, Precedes
  <2>3. \A r, s, t \in R : Precedes(s, r) /\ Precedes(t, s) => Precedes(t, r)
    BY DEF IsLadder, Precedes
  <2>4. \A r, s \in R : r = s \/ Precedes(r, s) \/ Precedes(s, r)
    BY DEF IsLadder, Precedes
  <2> HIDE DEF Less
  <2> QED BY <1>1, <2>1, <2>2, <2>3, <2>4, FirstOfFinite
<1>3. \E r \in R : \A s \in R \ {r} : Precedes(s, r)   BY <1>1, <1>2
<1>4. Top(R) \in R /\ \A s \in R \ {Top(R)} : Precedes(s, Top(R))
  BY <1>3 DEF Top
<1> QED BY <1>4 DEF Precedes, IsLadder

\* The ladder built from stages has a rung for each of them.
LEMMA BuiltIsLadder ==
  ASSUME NEW stages, DOMAIN stages \subseteq Nat, IsFiniteSet(DOMAIN stages), DOMAIN stages # {},
         \A i \in DOMAIN stages : stages[i].level \in Int
  PROVE  /\ IsLadder(BuildLadder(stages)) /\ BuildLadder(stages) # {}
         /\ \A r \in BuildLadder(stages) :
              \E i \in DOMAIN stages : r.level = stages[i].level /\ r.states = stages[i].states
<1> DEFINE At(i) == [level |-> stages[i].level, declared |-> i, states |-> stages[i].states]
           L == {At(i) : i \in DOMAIN stages}
<1>1. BuildLadder(stages) = L   BY DEF BuildLadder
<1>2. IsFiniteSet(L)
  <2>1. [i \in DOMAIN stages |-> At(i)] \in Surjection(DOMAIN stages, L)   BY DEF Surjection
  <2> HIDE DEF L, At
  <2> QED BY <2>1, FS_Surjection
<1>3. \A r, s \in L : r.declared = s.declared => r = s   OBVIOUS
<1>4. \A r \in L : r.level \in Int /\ r.declared \in Nat   OBVIOUS
<1>5. L # {}   OBVIOUS
<1>6. \A r \in L : \E i \in DOMAIN stages : r.level = stages[i].level /\ r.states = stages[i].states
  OBVIOUS
<1> HIDE DEF L
<1> QED BY <1>1, <1>2, <1>3, <1>4, <1>5, <1>6 DEF IsLadder

\* A demand is on a rung, or strictly between two, and no rung is nearer to it
\* than both.
LEMMA BracketOfLadder ==
  ASSUME NEW R, IsLadder(R), R # {}, NEW demand \in Int, NEW b, b = Bracket(R, demand)
  PROVE  /\ b[1] \in R /\ b[2] \in R
         /\ b[1] = b[2] \/ (b[1].level < demand /\ demand < b[2].level)
         /\ \A r \in R : \E i \in {1, 2} :
              Magnitude(b[i].level - demand) <= Magnitude(r.level - demand)
<1>0. \A r \in R : r.level \in Int   BY DEF IsLadder
<1> DEFINE at == {r \in R : r.level = demand}
           below == {r \in R : r.level < demand}
           above == {r \in R : r.level > demand}
           nearest == {r \in below : r.level = Top(below).level}
<1>1. CASE demand <= Bottom(R).level
  <2>1. b = <<Bottom(R), Bottom(R)>>   BY <1>1 DEF Bracket
  <2>2. Bottom(R) \in R /\ \A r \in R : Bottom(R).level <= r.level   BY BottomOfLadder
  <2>3. \A r \in R : Magnitude(Bottom(R).level - demand) <= Magnitude(r.level - demand)
    BY <1>0, <1>1, <2>2 DEF Magnitude
  <2> QED BY <2>1, <2>2, <2>3
<1>2. CASE ~(demand <= Bottom(R).level) /\ demand >= Top(R).level
  <2>1. b = <<Top(R), Top(R)>>   BY <1>2 DEF Bracket
  <2>2. Top(R) \in R /\ \A r \in R : r.level <= Top(R).level   BY TopOfLadder
  <2>3. \A r \in R : Magnitude(Top(R).level - demand) <= Magnitude(r.level - demand)
    BY <1>0, <1>2, <2>2 DEF Magnitude
  <2> QED BY <2>1, <2>2, <2>3
<1>3. CASE ~(demand <= Bottom(R).level) /\ ~(demand >= Top(R).level) /\ at # {}
  <2>1. IsLadder(at)   BY PartIsLadder
  <2>2. Bottom(at) \in at   BY <1>3, <2>1, BottomOfLadder
  <2>3. b = <<Bottom(at), Bottom(at)>>   BY <1>3 DEF Bracket
  <2>4. \A r \in R : Magnitude(Bottom(at).level - demand) <= Magnitude(r.level - demand)
    BY <1>0, <2>2 DEF Magnitude
  <2> QED BY <2>2, <2>3, <2>4
<1>4. CASE ~(demand <= Bottom(R).level) /\ ~(demand >= Top(R).level) /\ at = {}
  <2>1. IsLadder(below) /\ IsLadder(above) /\ IsLadder(nearest)   BY PartIsLadder
  <2>2. Bottom(R) \in below /\ Top(R) \in above
    BY <1>4, BottomOfLadder, TopOfLadder DEF IsLadder
  <2>3. Top(below) \in nearest   BY <2>1, <2>2, TopOfLadder
  <2>4. Bottom(nearest) \in nearest /\ Bottom(above) \in above
    BY <2>1, <2>2, <2>3, BottomOfLadder
  <2>5. b = <<Bottom(nearest), Bottom(above)>>   BY <1>4 DEF Bracket
  <2>6. /\ \A r \in below : r.level <= Top(below).level
        /\ \A r \in above : Bottom(above).level <= r.level
    <3> HIDE DEF below, above, nearest
    <3>1. below # {} /\ above # {}   BY <2>2
    <3> QED BY <2>1, <3>1, TopOfLadder, BottomOfLadder
  <2> HIDE DEF below, above, nearest
  <2>7. b[1] \in nearest /\ b[2] \in above /\ b[2] = Bottom(above)   BY <2>4, <2>5
  <2>8. /\ b[1] \in R /\ b[1].level < demand /\ b[1].level = Top(below).level
        /\ b[2] \in R /\ demand < b[2].level
    BY <1>0, <2>7 DEF below, above, nearest
  <2>9. \A r \in R : r.level <= b[1].level \/ b[2].level <= r.level
    <3>1. \A r \in R : r \in below \/ r \in above   BY <1>0, <1>4 DEF below, above
    <3> QED BY <2>6, <2>7, <2>8, <3>1
  <2>10. ASSUME NEW r \in R
         PROVE  \/ Magnitude(b[1].level - demand) <= Magnitude(r.level - demand)
                \/ Magnitude(b[2].level - demand) <= Magnitude(r.level - demand)
    BY <1>0, <2>8, <2>9 DEF Magnitude
  <2> QED BY <2>8, <2>10
<1> QED BY <1>1, <1>2, <1>3, <1>4

\* A cap leaves what is at or below any rung it leaves, the lowest level apart
\* where the cap is below them all.
LEMMA CappedLadder ==
  ASSUME NEW R, IsLadder(R), R # {}, NEW cap \in Int
  PROVE  /\ CapLadder(R, cap) \subseteq R /\ CapLadder(R, cap) # {}
         /\ \A r \in CapLadder(R, cap), s \in R :
              s.level <= r.level =>
                \/ s \in CapLadder(R, cap)
                \/ s.level = r.level /\ \A t \in R : r.level <= t.level
<1> DEFINE allowed == {r \in R : r.level <= cap}
<1>1. CASE allowed # {}
  <2>1. CapLadder(R, cap) = allowed   BY <1>1 DEF CapLadder
  <2> QED BY <1>1, <2>1 DEF IsLadder
<1>2. CASE allowed = {}
  <2>1. CapLadder(R, cap) = {Bottom(R)}   BY <1>2 DEF CapLadder
  <2>2. Bottom(R) \in R /\ \A s \in R : Bottom(R).level <= s.level   BY BottomOfLadder
  <2> QED BY <2>1, <2>2 DEF IsLadder
<1> QED BY <1>1, <1>2

\* What can be reached is the rungs that keep the frozen devices, or all of them
\* where none does.
LEMMA ReachedLadder ==
  ASSUME NEW L, L # {}, NEW frozen, NEW states,
         NEW keeps, keeps = {r \in L : \A d \in frozen \cap DOMAIN states : r.states[d] = states[d]}
  PROVE  /\ ReachableLadder(L, frozen, states) \subseteq L
         /\ ReachableLadder(L, frozen, states) # {}
         /\ \/ ReachableLadder(L, frozen, states) = keeps
            \/ ReachableLadder(L, frozen, states) = L /\ keeps = {}
BY DEF ReachableLadder

\* A part of a window is no longer than the window.
LEMMA PartOfWindow ==
  ASSUME NEW seconds \in Nat, NEW x \in Int, NEW span \in Int, 0 < x, x < span
  PROVE  (seconds * x) \div span \in 0..seconds
<1> DEFINE q == (seconds * x) \div span
<1>1. seconds * x \in Nat /\ seconds * x <= seconds * span   OBVIOUS
<1>2. q \in Int /\ span * q <= seconds * x /\ seconds * x < span * q + span   OBVIOUS
<1>3. q <= seconds   BY <1>1, <1>2
<1>4. q >= 0   BY <1>1, <1>2
<1> QED BY <1>2, <1>3, <1>4

-----------------------------------------------------------------------------
(***************************************************************************)
(* What a plan adds up to.                                                 *)
(***************************************************************************)
\* The greatest of at most two indices.
LEMMA LargestOfTwo == Max({1}) = 1 /\ Max({2}) = 2 /\ Max({1, 2}) = 2
BY DEF Max

\* A step of the fold that Length and DeliveredLevel are, over the indices of
\* some numbers.
Summing(w, f) == [s \in SUBSET DOMAIN w |-> IF s = {} THEN 0 ELSE f[s \ {Max(s)}] + w[Max(s)]]

\* The fold of one number exists and is that number.
LEMMA SumOfOne ==
  ASSUME NEW w, DOMAIN w = {1}, w[1] \in Int
  PROVE  /\ \E f : f = Summing(w, f)
         /\ \A f : f = Summing(w, f) => f[{1}] = w[1]
<1>1. \A s \in SUBSET {1} : s = {} \/ s = {1}   OBVIOUS
<1>2. PICK g : g = [s \in SUBSET {1} |-> IF s = {} THEN 0 ELSE w[1]]   OBVIOUS
<1>3. {1} \ {1} = {} /\ g[{}] = 0   BY <1>2
<1>4. ASSUME NEW s \in SUBSET {1} PROVE g[s] = Summing(w, g)[s]
  <2>1. g[{1}] = w[1]   BY <1>2
  <2>2. Summing(w, g)[{}] = 0 /\ Summing(w, g)[{1}] = g[{}] + w[1]
    BY <1>3, LargestOfTwo DEF Summing
  <2>3. CASE s = {}   BY <1>3, <2>2, <2>3
  <2>4. CASE s = {1}   BY <1>3, <2>1, <2>2, <2>4
  <2> QED BY <1>1, <2>3, <2>4
<1>5. g = Summing(w, g)   BY <1>2, <1>4 DEF Summing
<1>6. ASSUME NEW f, f = Summing(w, f) PROVE f[{1}] = w[1]
  <2>1. f[{}] = 0   BY <1>6 DEF Summing
  <2> QED BY <1>3, <1>6, <2>1, LargestOfTwo DEF Summing
<1> QED BY <1>5, <1>6

\* The same, of two.
LEMMA SumOfTwo ==
  ASSUME NEW w, DOMAIN w = {1, 2}, w[1] \in Int, w[2] \in Int
  PROVE  /\ \E f : f = Summing(w, f)
         /\ \A f : f = Summing(w, f) => f[{1, 2}] = w[1] + w[2]
<1>1. \A s \in SUBSET {1, 2} : s = {} \/ s = {1} \/ s = {2} \/ s = {1, 2}   OBVIOUS
<1>2. {1} \ {1} = {} /\ {2} \ {2} = {} /\ {1, 2} \ {2} = {1}   OBVIOUS
<1>3. PICK g : g = [s \in SUBSET {1, 2} |-> IF s = {} THEN 0 ELSE IF s = {1} THEN w[1]
                                            ELSE IF s = {2} THEN w[2] ELSE w[1] + w[2]]
  OBVIOUS
<1>4. g[{}] = 0 /\ g[{1}] = w[1] /\ g[{2}] = w[2] /\ g[{1, 2}] = w[1] + w[2]   BY <1>3
<1>5. /\ Summing(w, g)[{}] = 0 /\ Summing(w, g)[{1}] = g[{}] + w[1]
      /\ Summing(w, g)[{2}] = g[{}] + w[2] /\ Summing(w, g)[{1, 2}] = g[{1}] + w[2]
  BY <1>2, LargestOfTwo DEF Summing
<1>6. ASSUME NEW s \in SUBSET {1, 2} PROVE g[s] = Summing(w, g)[s]
  <2>1. CASE s = {}   BY <1>4, <1>5, <2>1
  <2>2. CASE s = {1}   BY <1>4, <1>5, <2>2
  <2>3. CASE s = {2}   BY <1>4, <1>5, <2>3
  <2>4. CASE s = {1, 2}   BY <1>4, <1>5, <2>4
  <2> QED BY <1>1, <2>1, <2>2, <2>3, <2>4
<1>7. g = Summing(w, g)   BY <1>3, <1>6 DEF Summing
<1>8. ASSUME NEW f, f = Summing(w, f) PROVE f[{1, 2}] = w[1] + w[2]
  <2>1. f[{}] = 0   BY <1>8 DEF Summing
  <2>2. f[{1}] = w[1]
    <3>1. f[{1}] = f[{1} \ {Max({1})}] + w[Max({1})]   BY <1>8 DEF Summing
    <3>2. Max({1}) = 1 /\ {1} \ {Max({1})} = {}   BY <1>2, LargestOfTwo
    <3>3. f[{1}] = f[{}] + w[1]   BY <3>1, <3>2
    <3> QED BY <2>1, <3>3
  <2> QED BY <1>2, <1>8, <2>2, LargestOfTwo DEF Summing
<1> QED BY <1>7, <1>8

\* A plan of one dwell is as long as that.
LEMMA LengthOfOne ==
  ASSUME NEW plan, DOMAIN plan = {1}, plan[1].seconds \in Int
  PROVE  Length(plan) = plan[1].seconds
<1>1. PICK w : w = [i \in DOMAIN plan |-> plan[i].seconds]   OBVIOUS
<1>2. ASSUME NEW f
      PROVE  Summing(w, f) = [s \in SUBSET DOMAIN plan |->
                                IF s = {} THEN 0 ELSE f[s \ {Max(s)}] + plan[Max(s)].seconds]
  <2>1. \A s \in SUBSET {1} : s # {} => Max(s) \in {1}   BY LargestOfTwo
  <2> QED BY <1>1, <2>1 DEF Summing
<1>3. PICK fold : fold = CHOOSE f : f = [s \in SUBSET DOMAIN plan |->
                                IF s = {} THEN 0 ELSE f[s \ {Max(s)}] + plan[Max(s)].seconds]
  OBVIOUS
<1>4. fold = Summing(w, fold)
  <2>1. \E f : f = Summing(w, f)   BY <1>1, SumOfOne
  <2> QED BY <1>2, <1>3, <2>1
<1>5. Length(plan) = fold[{1}]   BY <1>3 DEF Length, FoldLeft, MapThenFoldSet
<1> QED BY <1>1, <1>4, <1>5, SumOfOne

\* One of two dwells is as long as both together.
LEMMA LengthOfTwo ==
  ASSUME NEW plan, DOMAIN plan = {1, 2}, plan[1].seconds \in Int, plan[2].seconds \in Int
  PROVE  Length(plan) = plan[1].seconds + plan[2].seconds
<1>1. PICK w : w = [i \in DOMAIN plan |-> plan[i].seconds]   OBVIOUS
<1>2. ASSUME NEW f
      PROVE  Summing(w, f) = [s \in SUBSET DOMAIN plan |->
                                IF s = {} THEN 0 ELSE f[s \ {Max(s)}] + plan[Max(s)].seconds]
  <2>1. \A s \in SUBSET {1, 2} : s # {} => Max(s) \in {1, 2}
    <3>1. \A s \in SUBSET {1, 2} : s = {} \/ s = {1} \/ s = {2} \/ s = {1, 2}   OBVIOUS
    <3> QED BY <3>1, LargestOfTwo
  <2> QED BY <1>1, <2>1 DEF Summing
<1>3. PICK fold : fold = CHOOSE f : f = [s \in SUBSET DOMAIN plan |->
                                IF s = {} THEN 0 ELSE f[s \ {Max(s)}] + plan[Max(s)].seconds]
  OBVIOUS
<1>4. fold = Summing(w, fold)
  <2>1. \E f : f = Summing(w, f)   BY <1>1, SumOfTwo
  <2> QED BY <1>2, <1>3, <2>1
<1>5. Length(plan) = fold[{1, 2}]   BY <1>3 DEF Length, FoldLeft, MapThenFoldSet
<1> QED BY <1>1, <1>4, <1>5, SumOfTwo

\* And delivers what they do, each for its time.
LEMMA DeliveredByTwo ==
  ASSUME NEW plan, DOMAIN plan = {1, 2},
         \A i \in {1, 2} : plan[i].level \in Int /\ plan[i].seconds \in Int
  PROVE  DeliveredLevel(plan) = plan[1].level * plan[1].seconds + plan[2].level * plan[2].seconds
<1>1. PICK w : w = [i \in DOMAIN plan |-> plan[i].level * plan[i].seconds]   OBVIOUS
<1>2. ASSUME NEW f
      PROVE  Summing(w, f) = [s \in SUBSET DOMAIN plan |->
               IF s = {} THEN 0
               ELSE f[s \ {Max(s)}] + plan[Max(s)].level * plan[Max(s)].seconds]
  <2>1. \A s \in SUBSET {1, 2} : s # {} => Max(s) \in {1, 2}
    <3>1. \A s \in SUBSET {1, 2} : s = {} \/ s = {1} \/ s = {2} \/ s = {1, 2}   OBVIOUS
    <3> QED BY <3>1, LargestOfTwo
  <2> QED BY <1>1, <2>1 DEF Summing
<1>3. PICK fold : fold = CHOOSE f : f = [s \in SUBSET DOMAIN plan |->
               IF s = {} THEN 0
               ELSE f[s \ {Max(s)}] + plan[Max(s)].level * plan[Max(s)].seconds]
  OBVIOUS
<1>4. DOMAIN w = {1, 2} /\ w[1] \in Int /\ w[2] \in Int   BY <1>1
<1>5. fold = Summing(w, fold)
  <2>1. \E f : f = Summing(w, f)   BY <1>4, SumOfTwo
  <2> QED BY <1>2, <1>3, <2>1
<1>6. DeliveredLevel(plan) = fold[{1, 2}]
  BY <1>3 DEF DeliveredLevel, FoldLeft, MapThenFoldSet
<1>7. fold[{1, 2}] = w[1] + w[2]   BY <1>4, <1>5, SumOfTwo
<1> QED BY <1>1, <1>6, <1>7
=============================================================================
