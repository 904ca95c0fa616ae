---------------------------- MODULE Spool_proofs ----------------------------
(***************************************************************************)
(* What the operators of module Spool preserve, for spools of any size:    *)
(* the lemmas that the proofs about the writer cite for each of its steps. *)
(***************************************************************************)
EXTENDS Spool, TLAPS, FiniteSetTheorems, SequenceTheorems

-----------------------------------------------------------------------------
(* Least and greatest elements *)

(* Every nonempty set of naturals has a least element: the lower bounds of   *)
(* S up to a member s are an initial segment, and the last of them is in S.  *)
LEMMA LeastNatural ==
  ASSUME NEW S \in SUBSET Nat, S # {}
  PROVE  \E m \in S : \A y \in S : m <= y
<1>1. PICK s \in S : TRUE
  OBVIOUS
<1>2. s \in Nat
  BY <1>1
<1> DEFINE U == {x \in 0..s : \A y \in S : x <= y}
<1>3. IsFiniteSet(U)
  <2>1. IsFiniteSet(0..s)
    BY <1>2, FS_Interval
  <2>2. U \in SUBSET (0..s)
    OBVIOUS
  <2> QED
    BY <2>1, <2>2, FS_Subset
<1>4. 0 \in U
  BY <1>2
<1>5. PICK k \in Nat : k = Cardinality(U)
  BY <1>3, FS_CardinalityType
<1>6. k # 0
  BY <1>3, <1>4, <1>5, FS_EmptySet
<1>7. ASSUME NEW x \in U PROVE x <= k - 1
  <2>1. x \in Nat /\ 0..x \in SUBSET U
    BY <1>2
  <2>2. Cardinality(0..x) = x + 1
    BY <2>1, FS_Interval
  <2>3. Cardinality(0..x) <= Cardinality(U)
    BY <2>1, <1>3, FS_Subset
  <2> QED
    BY <2>1, <2>2, <2>3, <1>5
<1>8. U = 0..(k - 1)
  <2>1. U \in SUBSET (0..(k - 1))
    BY <1>7, <1>2, <1>6
  <2>2. k - 1 \in Int /\ ~(0 > k - 1) /\ (k - 1) - 0 + 1 = k
    BY <1>6
  <2>3. IsFiniteSet(0..(k - 1)) /\ Cardinality(0..(k - 1)) = k
    BY <2>2, FS_Interval
  <2> HIDE DEF U
  <2> QED
    BY <2>1, <2>3, <1>5, FS_Subset
<1>9. k - 1 \in U /\ k \notin U
  <2>1. k - 1 \in 0..(k - 1) /\ k \notin 0..(k - 1)
    BY <1>6
  <2> HIDE DEF U
  <2> QED
    BY <2>1, <1>8
<1>10. k - 1 \in Nat /\ \A y \in S : k - 1 <= y
  BY <1>9, <1>5, <1>6
<1>11. PICK y \in S : ~(k <= y)
  <2>1. CASE k \in 0..s
    BY <2>1, <1>9
  <2>2. CASE k \notin 0..s
    BY <2>2, <1>1, <1>2, <1>5
  <2> QED
    BY <2>1, <2>2
<1>12. y = k - 1
  BY <1>10, <1>11, <1>5
<1> QED
  BY <1>10, <1>12

(* Min is a least element. *)
LEMMA MinIsLeast ==
  ASSUME NEW S \in SUBSET Nat, S # {}
  PROVE  Min(S) \in S /\ \A y \in S : Min(S) <= y
BY LeastNatural DEF Min

(* Max is a greatest element, where there is a bound. *)
LEMMA MaxIsGreatest ==
  ASSUME NEW S \in SUBSET Nat, S # {}, NEW n \in Nat, \A y \in S : y <= n
  PROVE  Max(S) \in S /\ \A y \in S : y <= Max(S)
<1> DEFINE D == {x \in Nat : n - x \in S}
<1>1. PICK s \in S : TRUE
  OBVIOUS
<1>2. \A y \in S : y \in Nat /\ n - y \in Nat /\ n - (n - y) = y
  OBVIOUS
<1>3. n - s \in D
  BY <1>1, <1>2
<1>4. PICK d \in D : \A z \in D : d <= z
  BY <1>3, LeastNatural
<1>5. n - d \in S /\ d \in Nat
  OBVIOUS
<1>6. \A y \in S : y <= n - d
  <2> TAKE y \in S
  <2>1. n - y \in D /\ y \in Nat
    BY <1>2
  <2>2. d <= n - y
    BY <2>1, <1>4
  <2> HIDE DEF D
  <2> QED
    BY <2>1, <2>2, <1>5
<1> QED
  BY <1>5, <1>6 DEF Max

-----------------------------------------------------------------------------
(* Lines of a file *)

(* A line appended leaves a sequence of lines, cut off at most at its end;   *)
(* where neither the file nor the line was cut off, nothing is.              *)
LEMMA AppendLineProperties ==
  ASSUME NEW file \in Seq(Lines), NEW line \in Lines,
         \A i \in 1..Len(file) - 1 : file[i] # Torn
  PROVE  /\ AppendLine(file, line) \in Seq(Lines)
         /\ \A i \in 1..Len(AppendLine(file, line)) - 1 : AppendLine(file, line)[i] # Torn
         /\ (line # Torn /\ \A i \in DOMAIN file : file[i] # Torn) =>
               \A i \in DOMAIN AppendLine(file, line) : AppendLine(file, line)[i] # Torn
<1>1. CASE file # <<>> /\ file[Len(file)] = Torn
  <2>1. AppendLine(file, line) = file
    BY <1>1 DEF AppendLine
  <2> QED
    BY <2>1
<1>2. CASE ~(file # <<>> /\ file[Len(file)] = Torn)
  <2>1. AppendLine(file, line) = Append(file, line)
    BY <1>2 DEF AppendLine
  <2>2. \A i \in 1..Len(file) : file[i] # Torn
    BY <1>2
  <2> QED
    BY <2>1, <2>2
<1> QED
  BY <1>1, <1>2

(* What decodes of a file is a sequence of entries, no longer than the file. *)
LEMMA DecodableType ==
  ASSUME NEW file \in Seq(Lines), \A i \in 1..Len(file) - 1 : file[i] # Torn
  PROVE  Decodable(file) \in Seq(Entries) /\ Len(Decodable(file)) <= Len(file)
<1>1. CASE file # <<>> /\ file[Len(file)] = Torn
  <2>1. Decodable(file) = SubSeq(file, 1, Len(file) - 1)
    BY <1>1 DEF Decodable
  <2>2. \A i \in 1..Len(file) - 1 : file[i] \in Entries
    BY DEF Lines
  <2>3. Len(file) \in Nat /\ Len(file) - 1 \in Nat
    BY <1>1
  <2> QED
    BY <2>1, <2>2, <2>3, SubSeqProperties
<1>2. CASE ~(file # <<>> /\ file[Len(file)] = Torn)
  <2>1. Decodable(file) = file
    BY <1>2 DEF Decodable
  <2>2. \A i \in 1..Len(file) : file[i] \in Entries
    BY <1>2 DEF Lines
  <2> QED
    BY <2>1, <2>2
<1> QED
  BY <1>1, <1>2

-----------------------------------------------------------------------------
(* Starting a segment *)

(* A spool of this shape: its type, and what its bookkeeping keeps true. *)
GoodSpool(s) == s \in SpoolType /\ WellFormed(s)

(* The numbers a new segment is chosen above are bounded naturals. *)
LEMMA UsedSegments ==
  ASSUME NEW s \in SpoolType
  PROVE  /\ s.segs \cup {s.ptr[1], s.stale} \in SUBSET Nat
         /\ \A g \in s.segs \cup {s.ptr[1], s.stale} : g <= MaxSegments + 1
BY SpoolAssumption DEF SpoolType, Pointers, SegIds

(* A new segment's number is above every one in use. *)
LEMMA NextSegmentIsNew ==
  ASSUME NEW s \in SpoolType, CanStart(s)
  PROVE  /\ NextSegment(s) \in SegIds
         /\ \A g \in s.segs : g < NextSegment(s)
<1> DEFINE used == s.segs \cup {s.ptr[1], s.stale}
<1>1. used \in SUBSET Nat /\ used # {} /\ \A g \in used : g <= MaxSegments + 1
  BY UsedSegments
<1>2. MaxSegments + 1 \in Nat
  BY SpoolAssumption
<1>3. Max(used) \in used /\ \A g \in used : g <= Max(used)
  <2> HIDE DEF used
  <2> QED
    BY <1>1, <1>2, MaxIsGreatest
<1>4. NextSegment(s) = 1 + Max(used)
  BY DEF NextSegment
<1>5. s.segs \subseteq used
  OBVIOUS
<1> HIDE DEF used
<1>6. Max(used) \in Nat
  BY <1>1, <1>3
<1>7. NextSegment(s) \in Nat /\ NextSegment(s) >= 1 /\ \A g \in used : g < NextSegment(s)
  BY <1>1, <1>3, <1>4, <1>6
<1>8. NextSegment(s) <= MaxSegments /\ MaxSegments \in Nat
  BY SpoolAssumption DEF CanStart
<1>9. NextSegment(s) \in SegIds
  BY <1>7, <1>8 DEF SegIds
<1> QED
  BY <1>5, <1>7, <1>9

(* A new segment is the newest file, empty and counted.                      *)
LEMMA StartedGood ==
  ASSUME NEW s, GoodSpool(s), CanStart(s), s.onDisk \subseteq s.segs
  PROVE  /\ GoodSpool(Started(s))
         /\ Started(s).open /\ Started(s).cur \in Started(s).segs
         /\ Started(s).onDisk \subseteq Started(s).segs
<1>1. s \in SpoolType /\ WellFormed(s)
  BY DEF GoodSpool
<1>2. PICK n : n = NextSegment(s)
  OBVIOUS
<1>3. n \in SegIds /\ n \in Nat /\ n \in 0..MaxSegments /\ \A g \in s.segs : g < n
  BY <1>1, <1>2, NextSegmentIsNew DEF SegIds
<1>4. s.segs \in SUBSET SegIds /\ SegIds \in SUBSET Nat
  BY <1>1 DEF SpoolType, SegIds
<1>5. PICK p : p = <<Min(s.segs \cup {n}), 0>>
  OBVIOUS
<1>6. p \in Pointers
  <2>1. Min(s.segs \cup {n}) \in s.segs \cup {n}
    BY <1>3, <1>4, MinIsLeast
  <2> QED
    BY <2>1, <1>3, <1>4, <1>5, SpoolAssumption DEF Pointers, SegIds
<1>7. PICK t : t = Started(s)
  OBVIOUS
<1>8. t = [s EXCEPT !.onDisk = @ \cup {n}, !.segs = @ \cup {n}, !.size[n] = 0, !.cur = n,
                    !.open = TRUE, !.ptr = IF @[1] \in s.segs THEN @ ELSE p]
  BY <1>2, <1>5, <1>7 DEF Started
<1>9. t \in SpoolType
  BY <1>1, <1>3, <1>6, <1>8 DEF SpoolType
<1>10. /\ t.onDisk = s.onDisk \cup {n} /\ t.segs = s.segs \cup {n}
       /\ t.cur = n /\ t.open = TRUE /\ t.files = s.files
  BY <1>1, <1>8 DEF SpoolType
<1>11. WellFormed(t)
  <2>1. s.files[n] = <<>>
    BY <1>1, <1>3 DEF WellFormed
  <2>2. t.cur \in t.onDisk \cap t.segs /\ \A g \in t.segs : g <= t.cur
    <3>1. \A g \in s.segs : g \in Nat
      BY <1>4
    <3>2. \A g \in s.segs \cup {n} : g <= n
      BY <3>1, <1>3
    <3> QED
      BY <3>2, <1>10
  <2>3. \A i \in DOMAIN t.files[t.cur] : t.files[t.cur][i] # Torn
    BY <2>1, <1>10
  <2>4. \A g \in SegIds : t.files[g] # <<>> => g \in t.onDisk
    BY <1>1, <1>10 DEF WellFormed
  <2>5. \A g \in SegIds : \A i \in 1..Len(t.files[g]) - 1 : t.files[g][i] # Torn
    BY <1>1, <1>10 DEF WellFormed
  <2> QED
    BY <2>2, <2>3, <2>4, <2>5 DEF WellFormed
<1> QED
  BY <1>7, <1>9, <1>10, <1>11 DEF GoodSpool

-----------------------------------------------------------------------------
(* Changes that touch no file *)

(* Closing the segment, moving the pointer, and forgetting a stale number    *)
(* leave a good spool, with the same files and segments.                     *)
LEMMA ClosedGood ==
  ASSUME NEW s, GoodSpool(s)
  PROVE  /\ GoodSpool([s EXCEPT !.open = FALSE])
         /\ [s EXCEPT !.open = FALSE].onDisk = s.onDisk
         /\ [s EXCEPT !.open = FALSE].segs = s.segs
         /\ ~[s EXCEPT !.open = FALSE].open
BY DEF GoodSpool, SpoolType, WellFormed

(* Moving the pointer touches no file.                                       *)
LEMMA MovedGood ==
  ASSUME NEW s, GoodSpool(s), NEW p \in Pointers
  PROVE  /\ GoodSpool([s EXCEPT !.ptr = p])
         /\ [s EXCEPT !.ptr = p].onDisk = s.onDisk
         /\ [s EXCEPT !.ptr = p].segs = s.segs
BY DEF GoodSpool, SpoolType, WellFormed

(* Cutting the torn end of the current file leaves the rest.                 *)
LEMMA SkipTornGood ==
  ASSUME NEW s, GoodSpool(s)
  PROVE  /\ GoodSpool(SkipTorn(s))
         /\ SkipTorn(s).onDisk = s.onDisk /\ SkipTorn(s).segs = s.segs
<1>1. CASE PtrInSpool(s) /\ s.ptr[2] < s.size[PtrSeg(s)]
  <2>1. PICK p : p = <<s.ptr[1], Len(s.files[s.ptr[1]])>>
    OBVIOUS
  <2>2. s.ptr[1] \in SegIds /\ s.ptr[1] \in 0..MaxSegments + 1 /\ s.files \in [SegIds -> Seq(Lines)]
    BY <1>1 DEF GoodSpool, SpoolType, Pointers, PtrInSpool
  <2>3. p \in Pointers
    BY <2>1, <2>2 DEF Pointers
  <2>4. SkipTorn(s) = [s EXCEPT !.ptr = p]
    BY <1>1, <2>1 DEF SkipTorn
  <2> QED
    BY <2>3, <2>4, MovedGood
<1>2. CASE ~(PtrInSpool(s) /\ s.ptr[2] < s.size[PtrSeg(s)])
  BY <1>2 DEF SkipTorn
<1> QED
  BY <1>1, <1>2

(* A spool given up on keeps its files.                                      *)
LEMMA AbandonGood ==
  ASSUME NEW s, GoodSpool(s)
  PROVE  GoodSpool(AbandonSpool(s))
<1>1. NoPtr \in Pointers
  BY SpoolAssumption DEF NoPtr, Pointers
<1>2. [g \in SegIds |-> 0] \in [SegIds -> Nat] /\ 0 \in 0..MaxSegments
  BY SpoolAssumption
<1>3. PICK z \in [SegIds -> Nat] : z = [g \in SegIds |-> 0]
  BY <1>2
<1>4. AbandonSpool(s) = [s EXCEPT !.segs = {}, !.size = z, !.cur = 0, !.open = FALSE, !.ptr = NoPtr]
  BY <1>3 DEF AbandonSpool
<1> QED
  BY <1>1, <1>2, <1>4 DEF GoodSpool, SpoolType, WellFormed

-----------------------------------------------------------------------------
(* Segments that go *)

(* Deleting files other than the one appended to leaves the others whole.    *)
LEMMA WithoutPointerGood ==
  ASSUME NEW s, GoodSpool(s), NEW gone, s.open => s.cur \notin gone
  PROVE  /\ GoodSpool(WithoutPointer(s, gone))
         /\ WithoutPointer(s, gone).onDisk = s.onDisk \ gone
         /\ WithoutPointer(s, gone).segs = s.segs \ gone
         /\ WithoutPointer(s, gone).cur = s.cur
         /\ WithoutPointer(s, gone).ptr = s.ptr
         /\ WithoutPointer(s, gone).open = s.open
<1>1. s \in SpoolType /\ WellFormed(s)
  BY DEF GoodSpool
<1>2. PICK f : f = [g \in SegIds |-> IF g \in gone THEN <<>> ELSE s.files[g]]
  OBVIOUS
<1>3. PICK z : z = [g \in SegIds |-> IF g \in gone THEN 0 ELSE s.size[g]]
  OBVIOUS
<1>4. f \in [SegIds -> Seq(Lines)]
  BY <1>1, <1>2 DEF SpoolType
<1>5. z \in [SegIds -> Nat]
  BY <1>1, <1>3 DEF SpoolType
<1>6. PICK t : t = WithoutPointer(s, gone)
  OBVIOUS
<1>7. t = [s EXCEPT !.onDisk = @ \ gone, !.files = f, !.segs = @ \ gone, !.size = z]
  BY <1>2, <1>3, <1>6 DEF WithoutPointer
<1>8. t \in SpoolType
  BY <1>1, <1>4, <1>5, <1>7 DEF SpoolType
<1>9. /\ t.onDisk = s.onDisk \ gone /\ t.segs = s.segs \ gone /\ t.files = f
      /\ t.cur = s.cur /\ t.open = s.open /\ t.ptr = s.ptr
  BY <1>1, <1>7 DEF SpoolType
<1>10. WellFormed(t)
  <2>1. t.open => t.cur \in t.onDisk \cap t.segs /\ \A g \in t.segs : g <= t.cur
    BY <1>1, <1>9 DEF WellFormed
  <2>2. t.open => \A i \in DOMAIN t.files[t.cur] : t.files[t.cur][i] # Torn
    <3>1. s.open => s.cur \in SegIds
      BY <1>1 DEF WellFormed, SpoolType
    <3>2. s.open => f[s.cur] = s.files[s.cur]
      BY <3>1, <1>2
    <3> QED
      BY <1>1, <1>9, <3>2 DEF WellFormed
  <2>3. \A g \in SegIds : t.files[g] # <<>> => g \in t.onDisk
    BY <1>1, <1>2, <1>9 DEF WellFormed
  <2>4. \A g \in SegIds : \A i \in 1..Len(t.files[g]) - 1 : t.files[g][i] # Torn
    BY <1>1, <1>2, <1>9 DEF WellFormed
  <2> QED
    BY <2>1, <2>2, <2>3, <2>4 DEF WellFormed
<1> QED
  BY <1>6, <1>8, <1>9, <1>10 DEF GoodSpool

(* Retiring a segment: the pointer goes to the oldest left, or just past it. *)
LEMMA RetiredPtr ==
  ASSUME NEW s, s \in SpoolType, NEW g \in SegIds
  PROVE  Retired(s, g).ptr \in Pointers
<1>1. PICK left : left = s.segs \ {g}
  OBVIOUS
<1>2. left \in SUBSET SegIds /\ left \in SUBSET Nat
  BY <1>1 DEF SpoolType, SegIds
<1>3. PICK p : p = (IF left # {} THEN <<Min(left), 0>> ELSE <<g + 1, 0>>)
  OBVIOUS
<1>4. p \in Pointers
  <2>1. CASE left # {}
    <3>1. Min(left) \in SegIds
      BY <1>2, <2>1, MinIsLeast
    <3> QED
      BY <3>1, <2>1, <1>3, SpoolAssumption DEF SegIds, Pointers
  <2>2. CASE left = {}
    BY <2>2, <1>3, SpoolAssumption DEF SegIds, Pointers
  <2> QED
    BY <2>1, <2>2
<1>5. Retired(s, g).ptr = p
  BY <1>1, <1>3 DEF Retired, WithoutPointer, SpoolType
<1> QED
  BY <1>4, <1>5

(* Retiring a segment deletes that one and moves the pointer to the next.    *)
LEMMA RetiredGood ==
  ASSUME NEW s, GoodSpool(s), NEW g \in SegIds, s.open => s.cur # g
  PROVE  /\ GoodSpool(Retired(s, g))
         /\ Retired(s, g).onDisk = s.onDisk \ {g}
         /\ Retired(s, g).segs = s.segs \ {g}
         /\ Retired(s, g).ptr \in Pointers
<1>1. PICK w : w = WithoutPointer(s, {g})
  OBVIOUS
<1>2. /\ GoodSpool(w) /\ w.onDisk = s.onDisk \ {g} /\ w.segs = s.segs \ {g}
  BY <1>1, WithoutPointerGood
<1>3. PICK p : p = (IF s.segs \ {g} # {} THEN <<Min(s.segs \ {g}), 0>> ELSE <<g + 1, 0>>)
  OBVIOUS
<1>4. Retired(s, g) = [w EXCEPT !.ptr = p]
  BY <1>1, <1>3 DEF Retired
<1>5. [w EXCEPT !.ptr = p].ptr = p
  BY <1>2 DEF GoodSpool, SpoolType
<1>6. p \in Pointers
  <2>1. Retired(s, g).ptr \in Pointers
    BY RetiredPtr DEF GoodSpool
  <2> QED
    BY <2>1, <1>4, <1>5
<1>7. /\ GoodSpool([w EXCEPT !.ptr = p])
      /\ [w EXCEPT !.ptr = p].onDisk = w.onDisk /\ [w EXCEPT !.ptr = p].segs = w.segs
  BY <1>2, <1>6, MovedGood
<1> QED
  BY <1>2, <1>4, <1>5, <1>6, <1>7

(* Dropping segments over the limit: never the newest, so that something is  *)
(* left to point at.                                                         *)
LEMMA OverLimitSparesNewest ==
  ASSUME NEW s, GoodSpool(s), NEW c \in s.segs, \A g \in s.segs : g <= c
  PROVE  OverLimit(s) \subseteq s.segs /\ c \notin OverLimit(s)
<1> DEFINE keeps == {g \in s.segs : \/ TotalSize(s, {h \in s.segs : h >= g}) <= LimitLines
                                   \/ g = Max(s.segs)}
<1>1. s.segs \in SUBSET Nat /\ s.segs # {} /\ c \in Nat
  BY DEF GoodSpool, SpoolType, SegIds
<1>2. Max(s.segs) \in s.segs
  BY <1>1, MaxIsGreatest
<1>3. keeps \in SUBSET Nat /\ keeps # {}
  BY <1>1, <1>2
<1>4. PICK k : k = Min(keeps)
  OBVIOUS
<1>5. k \in keeps
  <2> HIDE DEF keeps
  <2> QED
    BY <1>3, <1>4, MinIsLeast
<1>6. k \in s.segs /\ k \in Nat /\ k <= c
  BY <1>1, <1>5
<1>7. OverLimit(s) = {g \in s.segs : g < k}
  BY <1>4 DEF OverLimit
<1> QED
  BY <1>1, <1>6, <1>7

(* Making room deletes the oldest files, never the one appended to.          *)
LEMMA LimitedGood ==
  ASSUME NEW s, GoodSpool(s), s.open, s.onDisk \subseteq s.segs
  PROVE  /\ GoodSpool(Limited(s)) /\ Limited(s).onDisk \subseteq Limited(s).segs
<1>1. s.cur \in s.segs /\ \A g \in s.segs : g <= s.cur
  BY DEF GoodSpool, WellFormed
<1>2. PICK gone : gone = OverLimit(s)
  OBVIOUS
<1>3. s.cur \notin gone
  BY <1>1, <1>2, OverLimitSparesNewest
<1>4. PICK w : w = WithoutPointer(s, gone)
  OBVIOUS
<1>5. /\ GoodSpool(w) /\ w.onDisk = s.onDisk \ gone /\ w.segs = s.segs \ gone /\ w.ptr = s.ptr
  BY <1>3, <1>4, WithoutPointerGood
<1>6. s.segs \ gone \in SUBSET SegIds /\ s.segs \ gone # {} /\ s.segs \ gone \in SUBSET Nat
  BY <1>1, <1>3 DEF GoodSpool, SpoolType, SegIds
<1>7. PICK p : p = (IF w.ptr[1] \in gone THEN <<Min(s.segs \ gone), 0>> ELSE w.ptr)
  OBVIOUS
<1>8. p \in Pointers
  <2>1. Min(s.segs \ gone) \in SegIds
    BY <1>6, MinIsLeast
  <2>2. <<Min(s.segs \ gone), 0>> \in Pointers
    BY <2>1, SpoolAssumption DEF SegIds, Pointers
  <2>3. w.ptr \in Pointers
    BY <1>5 DEF GoodSpool, SpoolType
  <2> QED
    BY <2>2, <2>3, <1>7
<1>9. Limited(s) = [w EXCEPT !.ptr = p]
  BY <1>2, <1>4, <1>7 DEF Limited
<1>10. /\ GoodSpool([w EXCEPT !.ptr = p])
       /\ [w EXCEPT !.ptr = p].onDisk = w.onDisk /\ [w EXCEPT !.ptr = p].segs = w.segs
  BY <1>5, <1>8, MovedGood
<1> QED
  BY <1>5, <1>9, <1>10

-----------------------------------------------------------------------------
(* Writing an entry *)

(* Before an append there is an open current segment, rolled if it was full. *)
LEMMA ReadyGood ==
  ASSUME NEW s, GoodSpool(s), CanStart(s), s.onDisk \subseteq s.segs
  PROVE  /\ GoodSpool(ReadyToWrite(s)) /\ ReadyToWrite(s).open
         /\ ReadyToWrite(s).onDisk \subseteq ReadyToWrite(s).segs
<1>1. CASE NeedsSegment(s)
  BY <1>1, StartedGood DEF ReadyToWrite
<1>2. CASE ~NeedsSegment(s)
  BY <1>2 DEF ReadyToWrite, NeedsSegment, GoodSpool, SpoolType
<1> QED
  BY <1>1, <1>2

(* The segment appended to, with another content and size. *)
FileSet(t, file, n) == [t EXCEPT !.files[t.cur] = file, !.size[t.cur] = n]

(* What writing one file changes, and what it leaves alone.                  *)
LEMMA FileSetType ==
  ASSUME NEW t \in SpoolType, t.cur \in SegIds, NEW file \in Seq(Lines), NEW n \in Nat
  PROVE  /\ FileSet(t, file, n) \in SpoolType
         /\ FileSet(t, file, n).onDisk = t.onDisk
         /\ FileSet(t, file, n).segs = t.segs
         /\ FileSet(t, file, n).cur = t.cur
         /\ FileSet(t, file, n).open = t.open
         /\ FileSet(t, file, n).files = [t.files EXCEPT ![t.cur] = file]
<1>1. t.files \in [SegIds -> Seq(Lines)] /\ t.size \in [SegIds -> Nat]
  BY DEF SpoolType
<1>2. PICK fs \in [SegIds -> Seq(Lines)] : fs = [t.files EXCEPT ![t.cur] = file]
  BY <1>1
<1>3. PICK z \in [SegIds -> Nat] : z = [t.size EXCEPT ![t.cur] = n]
  BY <1>1
<1>4. FileSet(t, file, n) = [t EXCEPT !.files = fs, !.size = z]
  BY <1>2, <1>3 DEF FileSet
<1> QED
  BY <1>2, <1>4 DEF SpoolType

(* A change of the current file that tears it nowhere but at its end.        *)
LEMMA FileChangedGood ==
  ASSUME NEW t, GoodSpool(t), t.open, NEW file \in Seq(Lines), NEW u \in SpoolType,
         \A i \in 1..Len(file) - 1 : file[i] # Torn,
         u.onDisk = t.onDisk, u.segs = t.segs, u.cur = t.cur,
         u.files = [t.files EXCEPT ![t.cur] = file],
         u.open => \A i \in DOMAIN file : file[i] # Torn
  PROVE  GoodSpool(u)
<1>1. t \in SpoolType /\ WellFormed(t)
  BY DEF GoodSpool
<1>2. t.cur \in SegIds /\ t.cur \in t.onDisk \cap t.segs /\ \A g \in t.segs : g <= t.cur
  BY <1>1 DEF WellFormed, SpoolType
<1>3. \A g \in SegIds : u.files[g] = IF g = t.cur THEN file ELSE t.files[g]
  BY <1>1 DEF SpoolType
<1>4. u.cur \in u.onDisk \cap u.segs /\ \A g \in u.segs : g <= u.cur
  BY <1>2
<1>5. u.open => \A i \in DOMAIN u.files[u.cur] : u.files[u.cur][i] # Torn
  BY <1>2, <1>3
<1>6. \A g \in SegIds : u.files[g] # <<>> => g \in u.onDisk
  BY <1>1, <1>2, <1>3 DEF WellFormed
<1>7. \A g \in SegIds : \A i \in 1..Len(u.files[g]) - 1 : u.files[g][i] # Torn
  BY <1>1, <1>3 DEF WellFormed
<1> QED
  BY <1>4, <1>5, <1>6, <1>7 DEF WellFormed, GoodSpool

(* A line appended whole leaves a good spool that is open.                   *)
LEMMA AppendedGood ==
  ASSUME NEW s, GoodSpool(s), CanStart(s), s.onDisk \subseteq s.segs, NEW e \in Entries
  PROVE  /\ GoodSpool(Appended(s, e)) /\ Appended(s, e).open
         /\ Appended(s, e).onDisk \subseteq Appended(s, e).segs
<1>1. PICK t : t = ReadyToWrite(s)
  OBVIOUS
<1>2. GoodSpool(t) /\ t.open /\ t.onDisk \subseteq t.segs
  BY <1>1, ReadyGood
<1>3. t \in SpoolType /\ WellFormed(t) /\ t.cur \in SegIds
  BY <1>2 DEF GoodSpool, WellFormed, SpoolType
<1>4. PICK file : file = AppendLine(t.files[t.cur], e)
  OBVIOUS
<1>5. e \in Lines /\ e # Torn
  BY SpoolAssumption DEF Lines
<1>6. /\ t.files[t.cur] \in Seq(Lines)
      /\ \A i \in DOMAIN t.files[t.cur] : t.files[t.cur][i] # Torn
      /\ \A i \in 1..Len(t.files[t.cur]) - 1 : t.files[t.cur][i] # Torn
  BY <1>2, <1>3 DEF WellFormed, SpoolType
<1>7. /\ file \in Seq(Lines)
      /\ \A i \in 1..Len(file) - 1 : file[i] # Torn
      /\ \A i \in DOMAIN file : file[i] # Torn
  BY <1>4, <1>5, <1>6, AppendLineProperties
<1>8. PICK n \in Nat : n = t.size[t.cur] + 1
  BY <1>3 DEF SpoolType
<1>9. PICK u : u = Appended(s, e)
  OBVIOUS
<1>10. u = FileSet(t, file, n)
  BY <1>1, <1>4, <1>8, <1>9 DEF Appended, FileSet
<1>11. GoodSpool(u) /\ u.open /\ u.onDisk \subseteq u.segs
  <2>1. /\ u \in SpoolType /\ u.onDisk = t.onDisk /\ u.segs = t.segs /\ u.cur = t.cur
        /\ u.files = [t.files EXCEPT ![t.cur] = file] /\ u.open = t.open
    BY <1>3, <1>7, <1>10, FileSetType
  <2>2. u.open
    BY <1>2, <2>1
  <2> QED
    BY <2>1, <2>2, <1>2, <1>7, FileChangedGood
<1> QED
  BY <1>9, <1>11

(* The whole of a write: append, then make room.                             *)
LEMMA WroteGood ==
  ASSUME NEW s, GoodSpool(s), CanStart(s), s.onDisk \subseteq s.segs, NEW e \in Entries
  PROVE  GoodSpool(Wrote(s, e)) /\ Wrote(s, e).onDisk \subseteq Wrote(s, e).segs
BY AppendedGood, LimitedGood DEF Wrote

(* A write that fails, wherever it fails, leaves a good spool.               *)
LEMMA FailedWritesGood ==
  ASSUME NEW s, GoodSpool(s), CanStart(s), s.onDisk \subseteq s.segs, NEW e \in Entries,
         NEW f \in FailedWrites(s, e)
  PROVE  GoodSpool(f) /\ f.onDisk \subseteq f.segs
<1>1. CASE f = StartFailed(s)
  BY <1>1, ClosedGood DEF StartFailed
<1>2. ASSUME NEW left \in {<<>>, <<Torn>>, <<e>>}, NEW counted \in BOOLEAN,
             f = Abandoned(ReadyToWrite(s), left, counted)
      PROVE  GoodSpool(f) /\ f.onDisk \subseteq f.segs
  <2>1. PICK t : t = ReadyToWrite(s)
    OBVIOUS
  <2>2. GoodSpool(t) /\ t.open /\ t.onDisk \subseteq t.segs
    BY <2>1, ReadyGood
  <2>3. t \in SpoolType /\ WellFormed(t) /\ t.cur \in SegIds
    BY <2>2 DEF GoodSpool, WellFormed, SpoolType
  <2>4. PICK old : old = t.files[t.cur]
    OBVIOUS
  <2>5. /\ old \in Seq(Lines) /\ \A i \in DOMAIN old : old[i] # Torn
    BY <2>2, <2>3, <2>4 DEF WellFormed, SpoolType
  <2>6. left \in Seq(Lines) /\ Len(left) \in 0..1
    <3>1. e \in Lines /\ Torn \in Lines
      BY DEF Lines
    <3>2. CASE left = <<>>
      BY <3>2
    <3>3. CASE left = <<Torn>>
      BY <3>1, <3>3
    <3>4. CASE left = <<e>>
      BY <3>1, <3>4
    <3> QED
      BY <3>2, <3>3, <3>4
  <2>7. PICK file : file = old \o left
    OBVIOUS
  <2>8. /\ file \in Seq(Lines) /\ Len(file) \in Nat
        /\ \A i \in 1..Len(file) - 1 : file[i] # Torn
    <3>1. /\ file \in Seq(Lines) /\ Len(file) = Len(old) + Len(left)
          /\ \A i \in 1..Len(old) + Len(left) :
               file[i] = IF i <= Len(old) THEN old[i] ELSE left[i - Len(old)]
      BY <2>5, <2>6, <2>7, ConcatProperties
    <3>2. Len(old) \in Nat /\ DOMAIN old = 1..Len(old)
      BY <2>5
    <3> QED
      BY <3>1, <3>2, <2>5, <2>6
  <2>9. PICK n \in Nat : n = (IF counted THEN Len(file) ELSE t.size[t.cur])
    BY <2>3, <2>8 DEF SpoolType
  <2>10. PICK u : u = FileSet(t, file, n)
    OBVIOUS
  <2>11. /\ u \in SpoolType /\ u.onDisk = t.onDisk /\ u.segs = t.segs /\ u.cur = t.cur
         /\ u.files = [t.files EXCEPT ![t.cur] = file]
    BY <2>3, <2>8, <2>10, FileSetType
  <2>12. f = [u EXCEPT !.open = FALSE]
    BY <1>2, <2>1, <2>4, <2>7, <2>9, <2>10 DEF Abandoned, FileSet
  <2>13. /\ f \in SpoolType /\ f.onDisk = t.onDisk /\ f.segs = t.segs /\ f.cur = t.cur
         /\ f.files = [t.files EXCEPT ![t.cur] = file] /\ ~f.open
    BY <2>11, <2>12 DEF SpoolType
  <2> QED
    BY <2>2, <2>8, <2>13, FileChangedGood
<1> QED
  BY <1>1, <1>2 DEF FailedWrites

-----------------------------------------------------------------------------
(* Restarting and reading *)

(* What a start finds in the directory is a good spool, and all of it counted. *)
LEMMA LoadedGood ==
  ASSUME NEW s, GoodSpool(s), NEW stored \in Pointers
  PROVE  GoodSpool(Loaded(s, stored)) /\ Loaded(s, stored).onDisk \subseteq Loaded(s, stored).segs
<1>1. s \in SpoolType /\ WellFormed(s)
  BY DEF GoodSpool
<1>2. PICK ne : ne = NonEmpty(s)
  OBVIOUS
<1>3. ne \in SUBSET SegIds /\ ne \in SUBSET Nat
  BY <1>1, <1>2 DEF NonEmpty, SpoolType, SegIds
<1>4. PICK z : z = [g \in SegIds |-> IF g \in ne THEN Len(s.files[g]) ELSE 0]
  OBVIOUS
<1>5. z \in [SegIds -> Nat]
  BY <1>1, <1>4 DEF SpoolType
<1>6. PICK p : p = ResumeAt(s, stored)
  OBVIOUS
<1>7. NoPtr \in Pointers /\ stored[1] \in 0..MaxSegments + 1
  BY SpoolAssumption DEF NoPtr, Pointers
<1>8. Oldest(s) \in Pointers
  <2>1. CASE ne = {}
    BY <2>1, <1>2, <1>7 DEF Oldest
  <2>2. CASE ne # {}
    <3>1. Min(ne) \in SegIds
      BY <2>2, <1>3, MinIsLeast
    <3> QED
      BY <3>1, <2>2, <1>2, SpoolAssumption DEF Oldest, Pointers, SegIds
  <2> QED
    BY <2>1, <2>2
<1>9. p \in Pointers
  <2>1. <<stored[1], 0>> \in Pointers
    BY <1>7 DEF Pointers
  <2> QED
    BY <2>1, <1>6, <1>8 DEF ResumeAt
<1>10. PICK t : t = Loaded(s, stored)
  OBVIOUS
<1>11. t = [onDisk |-> ne, files |-> s.files, segs |-> ne, size |-> z,
            cur |-> 0, open |-> FALSE, ptr |-> p, stale |-> stored[1]]
  BY <1>2, <1>4, <1>6, <1>10 DEF Loaded
<1>12. 0 \in 0..MaxSegments /\ s.files \in [SegIds -> Seq(Lines)]
  BY <1>1, SpoolAssumption DEF SpoolType
<1>13. t \in SpoolType
  BY <1>3, <1>5, <1>7, <1>9, <1>11, <1>12 DEF SpoolType
<1>14. \A g \in SegIds : s.files[g] # <<>> => g \in ne
  BY <1>1, <1>2 DEF NonEmpty, WellFormed
<1>15. WellFormed(t)
  BY <1>1, <1>11, <1>14 DEF WellFormed
<1> QED
  BY <1>10, <1>11, <1>13, <1>15 DEF GoodSpool

(* A chunk read from the spool holds entries, each with where it ends. *)
LEMMA SpoolChunkType ==
  ASSUME NEW s, GoodSpool(s), PtrInSpool(s)
  PROVE  /\ SpoolChunk(s) \in Seq([e : Entries, end : Pointers])
         /\ Readable(s) => DOMAIN SpoolChunk(s) # {}
<1>1. s \in SpoolType /\ WellFormed(s)
  BY DEF GoodSpool
<1>2. PtrSeg(s) \in SegIds /\ PtrSeg(s) \in 0..MaxSegments + 1 /\ s.ptr[2] \in Nat
  BY <1>1 DEF SpoolType, PtrInSpool, PtrSeg, Pointers
<1>3. PICK f : f = Decodable(s.files[PtrSeg(s)])
  OBVIOUS
<1>4. f \in Seq(Entries)
  <2>1. /\ s.files[PtrSeg(s)] \in Seq(Lines)
        /\ \A i \in 1..Len(s.files[PtrSeg(s)]) - 1 : s.files[PtrSeg(s)][i] # Torn
    BY <1>1, <1>2 DEF SpoolType, WellFormed
  <2> QED
    BY <2>1, <1>3, DecodableType
<1>5. PICK rest : rest = SubSeq(f, s.ptr[2] + 1, Len(f))
  OBVIOUS
<1>6. rest \in Seq(Entries)
  <2>1. \A i \in s.ptr[2] + 1 .. Len(f) : f[i] \in Entries
    BY <1>2, <1>4
  <2>2. s.ptr[2] + 1 \in Int /\ Len(f) \in Int
    BY <1>2, <1>4
  <2> QED
    BY <2>1, <2>2, <1>5, SubSeqProperties
<1>7. rest = From(s, PtrSeg(s), s.ptr[2])
  BY <1>3, <1>5 DEF From
<1>8. PICK n \in 0..Len(rest) : n = (IF Len(rest) < ChunkPoints THEN Len(rest) ELSE ChunkPoints)
  BY <1>6, SpoolAssumption
<1>9. SpoolChunk(s) = [i \in 1..n |-> [e |-> rest[i], end |-> <<PtrSeg(s), s.ptr[2] + i>>]]
  BY <1>7, <1>8 DEF SpoolChunk
<1>10. \A i \in 1..n : [e |-> rest[i], end |-> <<PtrSeg(s), s.ptr[2] + i>>] \in [e : Entries, end : Pointers]
  BY <1>2, <1>6, <1>8 DEF Pointers
<1>11. PICK X : X = [e : Entries, end : Pointers]
  OBVIOUS
<1>12. SpoolChunk(s) \in [1..n -> X]
  BY <1>9, <1>10, <1>11
<1>13. n \in Nat
  BY <1>8
<1>14. ASSUME Readable(s) PROVE 1 \in 1..n
  <2>1. s.ptr[2] < Len(f) /\ Len(f) \in Nat /\ s.ptr[2] \in Nat
    BY <1>2, <1>3, <1>4, <1>14 DEF Readable
  <2>2. Len(rest) = Len(f) - s.ptr[2]
    <3>1. \A i \in s.ptr[2] + 1 .. Len(f) : f[i] \in Entries
      BY <1>4, <2>1
    <3> QED
      BY <1>5, <2>1, <3>1, SubSeqProperties
  <2> QED
    BY <1>8, <2>1, <2>2, SpoolAssumption
<1>15. DOMAIN SpoolChunk(s) = 1..n
  BY <1>9
<1>16. SpoolChunk(s) \in Seq([e : Entries, end : Pointers])
  BY <1>11, <1>12, <1>13, SeqDef
<1> QED
  BY <1>14, <1>15, <1>16

-----------------------------------------------------------------------------
(* The points of lines *)

(* The points of a queue of entries are points.                              *)
LEMMA PointsInType ==
  ASSUME NEW q \in Seq(Entries)
  PROVE  PointsIn(q) \subseteq Points
<1>1. \A i \in DOMAIN q : q[i] \in Entries
  OBVIOUS
<1> QED
  BY <1>1 DEF PointsIn, Entries

(* What is read from a position on is a sequence of entries.                 *)
LEMMA FromType ==
  ASSUME NEW s, GoodSpool(s), NEW g \in SegIds, NEW off \in Nat
  PROVE  From(s, g, off) \in Seq(Entries)
<1>1. PICK f : f = Decodable(s.files[g])
  OBVIOUS
<1>2. f \in Seq(Entries)
  <2>1. /\ s.files[g] \in Seq(Lines)
        /\ \A i \in 1..Len(s.files[g]) - 1 : s.files[g][i] # Torn
    BY DEF GoodSpool, SpoolType, WellFormed
  <2> QED
    BY <2>1, <1>1, DecodableType
<1>3. \A i \in off + 1 .. Len(f) : f[i] \in Entries
  BY <1>2
<1>4. off + 1 \in Int /\ Len(f) \in Int
  BY <1>2
<1>5. SubSeq(f, off + 1, Len(f)) \in Seq(Entries)
  BY <1>3, <1>4, SubSeqProperties
<1> QED
  BY <1>1, <1>5 DEF From

(* What the bound makes the spool drop are points. *)
LEMMA EvictedPointsType ==
  ASSUME NEW s, GoodSpool(s)
  PROVE  EvictedPoints(s) \subseteq Points
<1>1. ASSUME NEW g \in OverLimit(s)
      PROVE  PointsIn(From(s, g, IF g = s.ptr[1] THEN s.ptr[2] ELSE 0)) \subseteq Points
  <2>1. g \in SegIds
    BY <1>1 DEF OverLimit, GoodSpool, SpoolType
  <2>2. PICK off \in Nat : off = IF g = s.ptr[1] THEN s.ptr[2] ELSE 0
    BY DEF GoodSpool, SpoolType, Pointers
  <2> QED
    BY <2>1, <2>2, FromType, PointsInType
<1> QED
  BY <1>1 DEF EvictedPoints

-----------------------------------------------------------------------------
(* The pointer is in the spool *)

(* A new segment leaves the pointer in the spool, or brings it there. *)
LEMMA StartedPointer ==
  ASSUME NEW s \in SpoolType, CanStart(s)
  PROVE  Started(s).ptr[1] \in Started(s).segs
<1>1. PICK n : n = NextSegment(s)
  OBVIOUS
<1>2. n \in SegIds
  BY <1>1, NextSegmentIsNew
<1>3. PICK all : all = s.segs \cup {n}
  OBVIOUS
<1>4. all \in SUBSET Nat /\ all # {}
  BY <1>2, <1>3 DEF SpoolType, SegIds
<1>5. Min(all) \in all
  BY <1>4, MinIsLeast
<1>6. PICK p : p = (IF s.ptr[1] \in s.segs THEN s.ptr ELSE <<Min(all), 0>>)
  OBVIOUS
<1>7. p[1] \in all
  BY <1>3, <1>5, <1>6
<1>8. Started(s) = [s EXCEPT !.onDisk = @ \cup {n}, !.segs = all, !.size[n] = 0, !.cur = n,
                             !.open = TRUE, !.ptr = p]
  BY <1>1, <1>3, <1>6 DEF Started
<1>9. Started(s).ptr = p /\ Started(s).segs = all
  BY <1>8 DEF SpoolType
<1> QED
  BY <1>7, <1>9

(* So does taking one away, while any is left. *)
LEMMA RetiredPointer ==
  ASSUME NEW s \in SpoolType, NEW g, Retired(s, g).segs # {}
  PROVE  Retired(s, g).ptr[1] \in Retired(s, g).segs
<1>1. PICK left : left = s.segs \ {g}
  OBVIOUS
<1>2. PICK p : p = (IF left # {} THEN <<Min(left), 0>> ELSE <<g + 1, 0>>)
  OBVIOUS
<1>3. Retired(s, g) = [WithoutPointer(s, {g}) EXCEPT !.ptr = p]
  BY <1>1, <1>2 DEF Retired
<1>4. Retired(s, g).ptr = p /\ Retired(s, g).segs = left
  BY <1>1, <1>3 DEF WithoutPointer, SpoolType
<1>5. left \in SUBSET Nat /\ left # {}
  BY <1>1, <1>4 DEF SpoolType, SegIds
<1>6. Min(left) \in left
  BY <1>5, MinIsLeast
<1> QED
  BY <1>2, <1>4, <1>5, <1>6

(* And dropping the oldest for the bound. *)
LEMMA LimitedPointer ==
  ASSUME NEW s, GoodSpool(s), s.open, PtrInSpool(s)
  PROVE  PtrInSpool(Limited(s))
<1>1. s \in SpoolType /\ s.cur \in s.segs /\ \A g \in s.segs : g <= s.cur
  BY DEF GoodSpool, WellFormed
<1>2. PICK gone : gone = OverLimit(s)
  OBVIOUS
<1>3. s.cur \notin gone
  BY <1>1, <1>2, OverLimitSparesNewest
<1>4. PICK left : left = s.segs \ gone
  OBVIOUS
<1>5. left \in SUBSET Nat /\ left # {}
  BY <1>1, <1>3, <1>4 DEF SpoolType, SegIds
<1>6. Min(left) \in left
  BY <1>5, MinIsLeast
<1>7. PICK p : p = (IF s.ptr[1] \in gone THEN <<Min(left), 0>> ELSE s.ptr)
  OBVIOUS
<1>8. p[1] \in left
  BY <1>4, <1>6, <1>7 DEF PtrInSpool
<1>9. Limited(s) = [WithoutPointer(s, gone) EXCEPT !.ptr = p]
  BY <1>1, <1>2, <1>4, <1>7 DEF Limited, WithoutPointer, SpoolType
<1>10. Limited(s).ptr = p /\ Limited(s).segs = left
  BY <1>1, <1>4, <1>9 DEF WithoutPointer, SpoolType
<1> QED
  BY <1>8, <1>10 DEF PtrInSpool

(* A write, done or failed, leaves the pointer in the spool. *)
LEMMA ReadyPointer ==
  ASSUME NEW s \in SpoolType, CanStart(s), s.segs # {} => PtrInSpool(s), s.open => s.cur \in s.segs
  PROVE  PtrInSpool(ReadyToWrite(s))
<1>1. CASE NeedsSegment(s)
  BY <1>1, StartedPointer DEF ReadyToWrite, PtrInSpool
<1>2. CASE ~NeedsSegment(s)
  BY <1>2 DEF ReadyToWrite, NeedsSegment
<1> QED
  BY <1>1, <1>2

(* A write, making room included, keeps the pointer in the spool.            *)
LEMMA WrotePointer ==
  ASSUME NEW s, GoodSpool(s), CanStart(s), s.onDisk \subseteq s.segs, NEW e \in Entries,
         s.segs # {} => PtrInSpool(s)
  PROVE  PtrInSpool(Wrote(s, e))
<1>1. PICK t : t = ReadyToWrite(s)
  OBVIOUS
<1>2. s \in SpoolType /\ (s.open => s.cur \in s.segs)
  BY DEF GoodSpool, WellFormed
<1>3. PtrInSpool(t) /\ t \in SpoolType
  BY <1>1, <1>2, ReadyPointer, ReadyGood DEF GoodSpool
<1>4. PICK u : u = Appended(s, e)
  OBVIOUS
<1>5. u.ptr = t.ptr /\ u.segs = t.segs
  BY <1>1, <1>3, <1>4 DEF Appended, SpoolType
<1>6. GoodSpool(u) /\ u.open /\ PtrInSpool(u)
  BY <1>3, <1>4, <1>5, AppendedGood DEF PtrInSpool
<1> QED
  BY <1>4, <1>6, LimitedPointer DEF Wrote

(* So does a write that fails.                                               *)
LEMMA FailedWritesPointer ==
  ASSUME NEW s, GoodSpool(s), CanStart(s), s.onDisk \subseteq s.segs, NEW e, NEW f \in FailedWrites(s, e),
         s.segs # {} => PtrInSpool(s)
  PROVE  f.segs # {} => PtrInSpool(f)
<1>1. s \in SpoolType /\ (s.open => s.cur \in s.segs)
  BY DEF GoodSpool, WellFormed
<1>2. CASE f = StartFailed(s)
  BY <1>1, <1>2 DEF StartFailed, SpoolType, PtrInSpool
<1>3. ASSUME NEW left, NEW counted, f = Abandoned(ReadyToWrite(s), left, counted)
      PROVE  PtrInSpool(f)
  <2>1. PICK t : t = ReadyToWrite(s)
    OBVIOUS
  <2>2. PtrInSpool(t) /\ t \in SpoolType
    BY <1>1, <2>1, ReadyPointer, ReadyGood DEF GoodSpool
  <2>3. f.ptr = t.ptr /\ f.segs = t.segs
    BY <1>3, <2>1, <2>2 DEF Abandoned, SpoolType
  <2> QED
    BY <2>2, <2>3 DEF PtrInSpool
<1> QED
  BY <1>2, <1>3 DEF FailedWrites

(* What a start finds: a stored pointer is believed only where it names a    *)
(* segment that is there.                                                    *)
LEMMA LoadedPointer ==
  ASSUME NEW s \in SpoolType, NEW stored, Loaded(s, stored).segs # {}
  PROVE  PtrInSpool(Loaded(s, stored))
<1>1. PICK ne : ne = NonEmpty(s)
  OBVIOUS
<1>2. Loaded(s, stored).segs = ne /\ Loaded(s, stored).ptr = ResumeAt(s, stored)
  BY <1>1 DEF Loaded
<1>3. ne \in SUBSET Nat /\ ne # {}
  BY <1>1, <1>2 DEF NonEmpty, SpoolType, SegIds
<1>4. Min(ne) \in ne
  BY <1>3, MinIsLeast
<1>5. ResumeAt(s, stored)[1] \in ne
  BY <1>1, <1>3, <1>4 DEF ResumeAt, Oldest
<1> QED
  BY <1>2, <1>5 DEF PtrInSpool

-----------------------------------------------------------------------------
(* The points a spool still has to send *)

(* A whole, counted line of p in front of the pointer: in segment g, in any. *)
LiesIn(s, g, p) ==
  \E i \in 1..Len(s.files[g]) :
    /\ i <= s.size[g] /\ s.files[g][i] # Torn /\ s.files[g][i].p = p
    /\ g = s.ptr[1] => i > s.ptr[2]

Lies(s, p) == \E g \in s.segs : LiesIn(s, g, p)

(* The pointer is in the oldest segment and not past its end, and the stored *)
(* one, `at', neither ahead of it nor a number to be given out again.        *)
Aimed(s, at) ==
  /\ s.segs # {} => /\ s.ptr[1] \in s.segs /\ \A g \in s.segs : s.ptr[1] <= g
                    /\ s.ptr[2] <= Len(s.files[s.ptr[1]])
  /\ at[1] \in s.segs => at[1] = s.ptr[1] /\ at[2] <= s.ptr[2]
  /\ at[1] <= s.stale \/ at[1] <= s.ptr[1] \/ \E g \in s.segs : at[1] <= g

(* The segment appended to is the newest, all of it counted while it is open. *)
Newest(s) ==
  /\ s.segs # {} => s.cur \in s.segs /\ \A g \in s.segs : g <= s.cur
  /\ s.open => s.size[s.cur] = Len(s.files[s.cur])

(* The stored pointer a process left behind is inside the oldest file.       *)
Rested(s, at) ==
  at[1] \in NonEmpty(s) => at[2] <= Len(s.files[at[1]]) /\ \A g \in NonEmpty(s) : at[1] <= g

(* The lines that decode are those that are whole, at the places they had.   *)
LEMMA DecodablePlaces ==
  ASSUME NEW file \in Seq(Lines), \A i \in 1..Len(file) - 1 : file[i] # Torn
  PROVE  /\ \A i \in 1..Len(Decodable(file)) : i \in 1..Len(file) /\ Decodable(file)[i] = file[i]
                                               /\ file[i] # Torn
         /\ \A i \in 1..Len(file) : file[i] # Torn => i \in 1..Len(Decodable(file))
<1>1. CASE file # <<>> /\ file[Len(file)] = Torn
  <2>1. Decodable(file) = SubSeq(file, 1, Len(file) - 1)
    BY <1>1 DEF Decodable
  <2>2. \A i \in 1..Len(file) - 1 : file[i] \in Lines
    OBVIOUS
  <2>3. Len(file) \in Nat /\ Len(file) >= 1
    BY <1>1
  <2>4. PICK m \in Nat : m = Len(file) - 1
    BY <2>3
  <2>5. /\ Len(SubSeq(file, 1, m)) = IF 1 <= m THEN m - 1 + 1 ELSE 0
        /\ \A i \in 1..m - 1 + 1 : SubSeq(file, 1, m)[i] = file[1 + i - 1]
    BY <2>2, <2>4, SubSeqProperties
  <2>6. /\ Len(Decodable(file)) = m
        /\ \A i \in 1..m : Decodable(file)[i] = file[i]
    BY <2>1, <2>4, <2>5
  <2> QED
    BY <1>1, <2>3, <2>4, <2>6
<1>2. CASE ~(file # <<>> /\ file[Len(file)] = Torn)
  <2>1. Decodable(file) = file
    BY <1>2 DEF Decodable
  <2> QED
    BY <1>2, <2>1
<1> QED
  BY <1>1, <1>2

(* What is read of a segment from an offset on: its whole lines behind it.   *)
LEMMA FromPlaces ==
  ASSUME NEW s, GoodSpool(s), NEW g \in SegIds, NEW off \in Nat
  PROVE  /\ \A i \in 1..Len(s.files[g]) :
              s.files[g][i] # Torn /\ i > off => s.files[g][i].p \in PointsIn(From(s, g, off))
         /\ \A p \in PointsIn(From(s, g, off)) :
              \E i \in 1..Len(s.files[g]) : i > off /\ s.files[g][i] # Torn /\ s.files[g][i].p = p
<1>1. PICK file : file = s.files[g]
  OBVIOUS
<1>2. file \in Seq(Lines) /\ \A i \in 1..Len(file) - 1 : file[i] # Torn
  BY <1>1 DEF GoodSpool, SpoolType, WellFormed
<1>3. PICK f : f = Decodable(file)
  OBVIOUS
<1>4. /\ \A i \in 1..Len(f) : i \in 1..Len(file) /\ f[i] = file[i] /\ file[i] # Torn
      /\ \A i \in 1..Len(file) : file[i] # Torn => i \in 1..Len(f)
  BY <1>2, <1>3, DecodablePlaces
<1>5. f \in Seq(Entries)
  BY <1>2, <1>3, DecodableType
<1>6. PICK q : q = SubSeq(f, off + 1, Len(f))
  OBVIOUS
<1>7. From(s, g, off) = q
  BY <1>1, <1>3, <1>6 DEF From
<1>8. Len(f) \in Nat /\ \A i \in off + 1 .. Len(f) : f[i] \in Entries
  BY <1>5
<1>9. /\ Len(q) = IF off + 1 <= Len(f) THEN Len(f) - off ELSE 0
      /\ q \in Seq(Entries)
      /\ \A i \in 1..Len(f) - off : q[i] = f[off + i]
  <2>1. off + 1 \in Int /\ Len(f) \in Int
    BY <1>8
  <2>2. /\ q \in Seq(Entries)
        /\ Len(q) = IF off + 1 <= Len(f) THEN Len(f) - (off + 1) + 1 ELSE 0
        /\ \A i \in 1..Len(f) - (off + 1) + 1 : q[i] = f[(off + 1) + i - 1]
    BY <2>1, <1>6, <1>8, SubSeqProperties
  <2>3. \A i \in 1..Len(f) - off : q[i] = f[off + i]
    BY <2>2, <1>8
  <2> QED
    BY <2>2, <2>3, <1>8
<1>10. ASSUME NEW i \in 1..Len(file), file[i] # Torn, i > off
       PROVE  file[i].p \in PointsIn(q)
  <2>1. i \in 1..Len(f) /\ f[i] = file[i]
    BY <1>4, <1>10
  <2>2. i - off \in 1..Len(f) - off /\ Len(q) = Len(f) - off /\ off + (i - off) = i
    BY <2>1, <1>8, <1>9, <1>10
  <2>3. i - off \in DOMAIN q /\ q[i - off] = file[i]
    BY <2>1, <2>2, <1>9
  <2> QED
    BY <2>3 DEF PointsIn
<1>11. ASSUME NEW p \in PointsIn(q)
       PROVE  \E i \in 1..Len(file) : i > off /\ file[i] # Torn /\ file[i].p = p
  <2>1. PICK k \in DOMAIN q : q[k].p = p
    BY <1>11 DEF PointsIn
  <2>2. k \in 1..Len(f) - off
    BY <2>1, <1>8, <1>9
  <2>3. q[k] = f[off + k] /\ off + k \in 1..Len(f) /\ off + k > off
    BY <2>2, <1>8, <1>9
  <2>4. f[off + k] = file[off + k] /\ off + k \in 1..Len(file) /\ file[off + k] # Torn
    BY <2>3, <1>4
  <2> QED
    BY <2>1, <2>3, <2>4
<1> QED
  BY <1>1, <1>7, <1>10, <1>11

(* Every such line is ahead of the reader.                                   *)
LEMMA LiesAhead ==
  ASSUME NEW s, GoodSpool(s), NEW at, Aimed(s, at), NEW p, Lies(s, p)
  PROVE  p \in Ahead(s)
<1>0. PICK g \in s.segs : \E i \in 1..Len(s.files[g]) :
        /\ s.files[g][i] # Torn /\ s.files[g][i].p = p
        /\ g = s.ptr[1] => i > s.ptr[2]
  BY DEF Lies, LiesIn
<1>1. PICK i \in 1..Len(s.files[g]) :
        /\ s.files[g][i] # Torn /\ s.files[g][i].p = p
        /\ g = s.ptr[1] => i > s.ptr[2]
  BY <1>0
<1>2. g \in SegIds /\ s.ptr[2] \in Nat /\ s.ptr[1] <= g /\ g \in Nat /\ s.ptr[1] \in Nat
  BY <1>0 DEF Aimed, GoodSpool, SpoolType, Pointers, SegIds
<1>3. PICK off \in Nat : off = IF g = s.ptr[1] THEN s.ptr[2] ELSE 0
  BY <1>2
<1>4. p \in PointsIn(From(s, g, off))
  BY <1>1, <1>2, <1>3, FromPlaces
<1>5. g >= s.ptr[1]
  BY <1>2
<1> QED
  BY <1>0, <1>3, <1>4, <1>5 DEF Ahead

(* What a start finds depends on the files alone.                            *)
LEMMA SameFiles ==
  ASSUME NEW s, NEW t, NonEmpty(t) = NonEmpty(s), t.files = s.files, NEW at
  PROVE  Recoverable(t, at) = Recoverable(s, at) /\ Rested(t, at) = Rested(s, at)
<1>1. NonEmpty(t) = NonEmpty(s)
  OBVIOUS
<1>2. Oldest(t) = Oldest(s)
  BY <1>1 DEF Oldest
<1>3. ResumeAt(t, at) = ResumeAt(s, at)
  BY <1>1, <1>2 DEF ResumeAt
<1>4. Loaded(t, at) = Loaded(s, at)
  BY <1>1, <1>3 DEF Loaded
<1> QED
  BY <1>1, <1>4 DEF Recoverable, Rested

(* A process that ends leaves a pointer that rests in its files.             *)
LEMMA AimedRests ==
  ASSUME NEW s, GoodSpool(s), s.onDisk \subseteq s.segs, NEW at \in Pointers, Aimed(s, at)
  PROVE  Rested(s, at)
<1>1. SUFFICES ASSUME at[1] \in NonEmpty(s)
               PROVE  at[2] <= Len(s.files[at[1]]) /\ \A g \in NonEmpty(s) : at[1] <= g
  BY DEF Rested
<1>2. NonEmpty(s) \subseteq s.segs
  BY DEF NonEmpty
<1>3. at[1] = s.ptr[1] /\ at[2] <= s.ptr[2] /\ s.ptr[2] <= Len(s.files[s.ptr[1]]) /\ \A g \in s.segs : s.ptr[1] <= g
  BY <1>1, <1>2 DEF Aimed
<1>4. at[2] \in Nat /\ s.ptr[2] \in Nat /\ Len(s.files[s.ptr[1]]) \in Nat
  <2>1. s.ptr[1] \in SegIds
    BY <1>1, <1>2, <1>3 DEF GoodSpool, SpoolType
  <2> QED
    BY <2>1 DEF Pointers, GoodSpool, SpoolType
<1> QED
  BY <1>2, <1>3, <1>4
(* A file of the spool is empty unless it is there.                          *)
LEMMA NewFileEmpty ==
  ASSUME NEW s, GoodSpool(s), s.onDisk \subseteq s.segs, NEW n \in SegIds, n \notin s.segs
  PROVE  s.files[n] = <<>> /\ Len(s.files[n]) = 0
BY DEF GoodSpool, WellFormed

(* What starting a segment makes of each field.                              *)
LEMMA StartedFields ==
  ASSUME NEW s, s \in SpoolType, CanStart(s), NEW n, n = NextSegment(s)
  PROVE  /\ n \in SegIds /\ n > s.ptr[1] /\ n > s.stale /\ \A g \in s.segs : n > g
         /\ Started(s).segs = s.segs \cup {n} /\ Started(s).cur = n /\ Started(s).open
         /\ Started(s).files = s.files /\ Started(s).stale = s.stale
         /\ Started(s).size = [s.size EXCEPT ![n] = 0]
         /\ s.ptr[1] \in s.segs => Started(s).ptr = s.ptr
         /\ s.segs = {} => Started(s).ptr = <<n, 0>>
<1> DEFINE used == s.segs \cup {s.ptr[1], s.stale}
<1>1. used \in SUBSET Nat /\ used # {} /\ \A g \in used : g <= MaxSegments + 1
  BY UsedSegments
<1>2. MaxSegments + 1 \in Nat
  BY SpoolAssumption
<1>3. \A g \in used : g <= Max(used)
  <2> HIDE DEF used
  <2> QED
    BY <1>1, <1>2, MaxIsGreatest
<1>4. n = 1 + Max(used) /\ n \in SegIds
  BY NextSegmentIsNew DEF NextSegment
<1>5. Max(used) \in used
  <2> HIDE DEF used
  <2> QED
    BY <1>1, <1>2, MaxIsGreatest
<1>6. \A g \in used : n > g
  <2> HIDE DEF used
  <2>1. Max(used) \in Nat /\ \A g \in used : g \in Nat
    BY <1>1, <1>5
  <2> QED
    BY <1>3, <1>4, <2>1
<1>7. PICK p : p = <<Min(s.segs \cup {n}), 0>>
  OBVIOUS
<1>8. PICK q : q = IF s.ptr[1] \in s.segs THEN s.ptr ELSE p
  OBVIOUS
<1>9. Started(s) = [s EXCEPT !.onDisk = @ \cup {n}, !.segs = @ \cup {n}, !.size[n] = 0, !.cur = n,
                             !.open = TRUE, !.ptr = q]
  BY <1>7, <1>8 DEF Started
<1>10. /\ Started(s).segs = s.segs \cup {n} /\ Started(s).cur = n /\ Started(s).open
       /\ Started(s).files = s.files /\ Started(s).stale = s.stale
       /\ Started(s).size = [s.size EXCEPT ![n] = 0] /\ Started(s).ptr = q
  BY <1>9 DEF SpoolType
<1>11. s.segs = {} => q = <<n, 0>>
  <2>1. {n} \in SUBSET Nat /\ {n} # {}
    BY <1>4 DEF SegIds
  <2>2. Min({n}) = n
    BY <2>1, MinIsLeast
  <2> QED
    BY <2>2, <1>7, <1>8
<1> QED
  BY <1>4, <1>6, <1>8, <1>10, <1>11

(* A new segment leaves the pointers aimed, is the newest, and hides nothing. *)
LEMMA StartedAimed ==
  ASSUME NEW s, GoodSpool(s), CanStart(s), s.onDisk \subseteq s.segs, NEW at \in Pointers, Aimed(s, at)
  PROVE  /\ Aimed(Started(s), at) /\ Newest(Started(s))
         /\ \A p : Lies(s, p) => Lies(Started(s), p)
<1>1. s \in SpoolType
  BY DEF GoodSpool
<1>2. PICK n : n = NextSegment(s)
  OBVIOUS
<1>3. PICK t : t = Started(s)
  OBVIOUS
<1>4. /\ n \in SegIds /\ n > s.ptr[1] /\ n > s.stale /\ \A g \in s.segs : n > g
      /\ t.segs = s.segs \cup {n} /\ t.cur = n /\ t.open /\ t.files = s.files /\ t.stale = s.stale
      /\ t.size = [s.size EXCEPT ![n] = 0]
      /\ s.ptr[1] \in s.segs => t.ptr = s.ptr
      /\ s.segs = {} => t.ptr = <<n, 0>>
  BY <1>1, <1>2, <1>3, StartedFields
<1>5. /\ s.segs \subseteq SegIds /\ SegIds \subseteq Nat /\ s.ptr \in Pointers /\ s.ptr[1] \in Nat /\ s.ptr[2] \in Nat
      /\ s.stale \in Nat /\ at[1] \in Nat /\ at[2] \in Nat /\ s.size \in [SegIds -> Nat]
      /\ \A g \in SegIds : g \in Nat /\ Len(s.files[g]) \in Nat
  BY <1>1 DEF SpoolType, Pointers, SegIds
<1>6. n \notin s.segs /\ n \in Nat /\ \A g \in s.segs : g \in Nat /\ g < n /\ g <= n
  <2>1. n \in Nat /\ \A g \in s.segs : g \in Nat
    BY <1>4, <1>5
  <2>2. \A g \in s.segs : g < n /\ g <= n
    BY <2>1, <1>4
  <2> QED
    BY <2>1, <2>2
<1>7. Len(s.files[n]) = 0
  BY <1>4, <1>6, NewFileEmpty
<1>8. at[1] < n
  <2>1. CASE at[1] <= s.stale \/ at[1] <= s.ptr[1]
    BY <2>1, <1>4, <1>5, <1>6
  <2>2. CASE \E g \in s.segs : at[1] <= g
    BY <2>2, <1>5, <1>6
  <2> QED
    BY <2>1, <2>2 DEF Aimed
<1>9. Aimed(t, at)
  <2>1. t.ptr[1] \in t.segs /\ t.ptr[2] <= Len(t.files[t.ptr[1]]) /\ \A g \in t.segs : t.ptr[1] <= g
    <3>1. CASE s.segs = {}
      BY <3>1, <1>4, <1>6, <1>7
    <3>2. CASE s.segs # {}
      <4>1. /\ s.ptr[1] \in s.segs /\ s.ptr[2] <= Len(s.files[s.ptr[1]])
            /\ \A g \in s.segs : s.ptr[1] <= g
        BY <3>2 DEF Aimed
      <4>2. t.ptr = s.ptr /\ s.ptr[1] <= n
        BY <4>1, <1>4, <1>6
      <4> QED
        BY <4>1, <4>2, <1>4
    <3> QED
      BY <3>1, <3>2
  <2>2. at[1] \in t.segs => at[1] = t.ptr[1] /\ at[2] <= t.ptr[2]
    <3> SUFFICES ASSUME at[1] \in t.segs PROVE at[1] = t.ptr[1] /\ at[2] <= t.ptr[2]
      OBVIOUS
    <3>1. at[1] \in s.segs
      BY <1>4, <1>5, <1>6, <1>8
    <3>2. at[1] = s.ptr[1] /\ at[2] <= s.ptr[2] /\ s.ptr[1] \in s.segs
      BY <3>1 DEF Aimed
    <3> QED
      BY <3>2, <1>4
  <2>3. n \in t.segs /\ at[1] <= n
    BY <1>4, <1>5, <1>6, <1>8
  <2> QED
    BY <2>1, <2>2, <2>3 DEF Aimed
<1>10. Newest(t)
  <2>1. \A g \in t.segs : g <= t.cur
    BY <1>4, <1>5, <1>6
  <2>2. t.size[t.cur] = Len(t.files[t.cur])
    BY <1>4, <1>5, <1>7
  <2> QED
    BY <2>1, <2>2, <1>4 DEF Newest
<1>11. ASSUME NEW p, Lies(s, p) PROVE Lies(t, p)
  <2>1. PICK g \in s.segs : \E i \in 1..Len(s.files[g]) :
            /\ i <= s.size[g] /\ s.files[g][i] # Torn /\ s.files[g][i].p = p
            /\ g = s.ptr[1] => i > s.ptr[2]
    BY <1>11 DEF Lies, LiesIn
  <2>2. g \in t.segs /\ g # n /\ t.size[g] = s.size[g] /\ t.files[g] = s.files[g] /\ t.ptr = s.ptr
    BY <2>1, <1>4, <1>5, <1>6 DEF Aimed
  <2> QED
    BY <2>1, <2>2 DEF Lies, LiesIn
<1> QED
  BY <1>3, <1>9, <1>10, <1>11

(* Files that only grow at their ends leave the pointers aimed, and every    *)
(* counted line where it was.                                                *)
LEMMA GrownAimed ==
  ASSUME NEW t, GoodSpool(t), NEW at \in Pointers, Aimed(t, at), NEW u,
         u.segs = t.segs, u.ptr = t.ptr, u.stale = t.stale,
         \A g \in SegIds : /\ Len(u.files[g]) \in Nat /\ Len(t.files[g]) <= Len(u.files[g])
                           /\ \A i \in 1..Len(t.files[g]) : u.files[g][i] = t.files[g][i],
         \A g \in SegIds : /\ u.size[g] \in Nat
                           /\ u.size[g] >= t.size[g] \/ u.size[g] >= Len(t.files[g])
  PROVE  Aimed(u, at) /\ \A p : Lies(t, p) => Lies(u, p)
<1>1. /\ t.segs \subseteq SegIds /\ t.size \in [SegIds -> Nat]
      /\ \A g \in SegIds : Len(t.files[g]) \in Nat
      /\ t.ptr[2] \in Nat /\ SegIds \subseteq Nat
  BY DEF GoodSpool, SpoolType, Pointers, SegIds
<1>2. Aimed(u, at)
  <2>1. ASSUME t.segs # {} PROVE t.ptr[2] <= Len(u.files[t.ptr[1]])
    <3>1. t.ptr[1] \in SegIds /\ t.ptr[2] <= Len(t.files[t.ptr[1]])
      BY <2>1, <1>1 DEF Aimed
    <3>2. PICK off \in Nat : off = t.ptr[2]
      BY <1>1
    <3>3. ASSUME NEW g \in SegIds, off <= Len(t.files[g]) PROVE off <= Len(u.files[g])
      BY <1>1, <3>3
    <3> QED
      BY <3>1, <3>2, <3>3
  <2> QED
    BY <2>1 DEF Aimed
<1>3. ASSUME NEW p, Lies(t, p) PROVE Lies(u, p)
  <2>1. PICK g \in t.segs : \E i \in 1..Len(t.files[g]) :
            /\ i <= t.size[g] /\ t.files[g][i] # Torn /\ t.files[g][i].p = p
            /\ g = t.ptr[1] => i > t.ptr[2]
    BY <1>3 DEF Lies, LiesIn
  <2>2. PICK i \in 1..Len(t.files[g]) :
            /\ i <= t.size[g] /\ t.files[g][i] # Torn /\ t.files[g][i].p = p
            /\ g = t.ptr[1] => i > t.ptr[2]
    BY <2>1
  <2>3. g \in SegIds /\ Len(t.files[g]) \in Nat /\ t.size[g] \in Nat
    BY <2>1, <1>1
  <2>4. i \in 1..Len(u.files[g]) /\ u.files[g][i] = t.files[g][i] /\ i <= u.size[g]
    BY <2>2, <2>3
  <2> QED
    BY <2>1, <2>2, <2>4 DEF Lies, LiesIn
<1> QED
  BY <1>2, <1>3

(* Before an append there is an open segment, and nothing is hidden.         *)
LEMMA ReadyAimed ==
  ASSUME NEW s, GoodSpool(s), CanStart(s), s.onDisk \subseteq s.segs, NEW at \in Pointers, Aimed(s, at), Newest(s)
  PROVE  /\ Aimed(ReadyToWrite(s), at) /\ Newest(ReadyToWrite(s))
         /\ \A p : Lies(s, p) => Lies(ReadyToWrite(s), p)
BY StartedAimed DEF ReadyToWrite

(* What writing into the segment appended to makes of each field.            *)
LEMMA FileSetFields ==
  ASSUME NEW t \in SpoolType, t.cur \in SegIds, NEW file, NEW n
  PROVE  /\ FileSet(t, file, n).ptr = t.ptr /\ FileSet(t, file, n).stale = t.stale
         /\ FileSet(t, file, n).size = [t.size EXCEPT ![t.cur] = n]
         /\ FileSet(t, file, n).files = [t.files EXCEPT ![t.cur] = file]
         /\ FileSet(t, file, n).segs = t.segs /\ FileSet(t, file, n).cur = t.cur
         /\ FileSet(t, file, n).open = t.open /\ FileSet(t, file, n).onDisk = t.onDisk
BY DEF FileSet, SpoolType

(* An entry appended lies in the spool, with all that lay there.             *)
LEMMA AppendedAimed ==
  ASSUME NEW s, GoodSpool(s), CanStart(s), s.onDisk \subseteq s.segs, NEW at \in Pointers,
         Aimed(s, at), Newest(s), NEW e \in Entries
  PROVE  /\ Aimed(Appended(s, e), at) /\ Newest(Appended(s, e))
         /\ \A p : Lies(s, p) \/ p = e.p => Lies(Appended(s, e), p)
<1>1. PICK t : t = ReadyToWrite(s)
  OBVIOUS
<1>2. /\ GoodSpool(t) /\ t.open /\ Aimed(t, at) /\ Newest(t)
      /\ \A p : Lies(s, p) => Lies(t, p)
  BY <1>1, ReadyGood, ReadyAimed
<1>3. t \in SpoolType /\ t.cur \in SegIds /\ t.cur \in t.segs
  BY <1>2 DEF GoodSpool, WellFormed, SpoolType
<1>4. PICK old : old = t.files[t.cur]
  OBVIOUS
<1>5. /\ old \in Seq(Lines) /\ Len(old) \in Nat /\ \A i \in 1..Len(old) : old[i] # Torn
  BY <1>2, <1>3, <1>4 DEF GoodSpool, WellFormed, SpoolType
<1>6. PICK file : file = AppendLine(old, e)
  OBVIOUS
<1>7. file = Append(old, e)
  BY <1>5, <1>6 DEF AppendLine
<1>8. /\ file \in Seq(Lines) /\ Len(file) = Len(old) + 1 /\ file[Len(old) + 1] = e
      /\ \A i \in 1..Len(old) : file[i] = old[i]
  BY <1>5, <1>7 DEF Lines
<1>9. t.size[t.cur] = Len(old)
  BY <1>2, <1>4 DEF Newest
<1>10. PICK u : u = Appended(s, e)
  OBVIOUS
<1>11. u = FileSet(t, file, Len(old) + 1)
  BY <1>1, <1>4, <1>6, <1>9, <1>10 DEF Appended, FileSet
<1>12. /\ u.ptr = t.ptr /\ u.stale = t.stale /\ u.segs = t.segs /\ u.cur = t.cur /\ u.open = t.open
       /\ u.size = [t.size EXCEPT ![t.cur] = Len(old) + 1]
       /\ u.files = [t.files EXCEPT ![t.cur] = file]
  BY <1>3, <1>11, FileSetFields
<1>13. Aimed(u, at) /\ \A p : Lies(t, p) => Lies(u, p)
  <2>1. t.files \in [SegIds -> Seq(Lines)] /\ t.size \in [SegIds -> Nat]
    BY <1>3 DEF SpoolType
  <2>2. \A g \in SegIds : /\ Len(u.files[g]) \in Nat /\ Len(t.files[g]) <= Len(u.files[g])
                          /\ \A i \in 1..Len(t.files[g]) : u.files[g][i] = t.files[g][i]
    BY <2>1, <1>3, <1>4, <1>5, <1>8, <1>12
  <2>3. \A g \in SegIds : /\ u.size[g] \in Nat
                          /\ u.size[g] >= t.size[g] \/ u.size[g] >= Len(t.files[g])
    BY <2>1, <1>3, <1>4, <1>5, <1>12
  <2> QED
    BY <2>2, <2>3, <1>2, <1>12, GrownAimed
<1>14. u.files[t.cur] = file /\ u.size[t.cur] = Len(old) + 1
  BY <1>3, <1>12 DEF SpoolType
<1>15. Newest(u)
  BY <1>2, <1>8, <1>12, <1>14 DEF Newest
<1>16. Lies(u, e.p)
  <2>1. t.cur \in u.segs /\ Len(old) + 1 \in 1..Len(u.files[t.cur]) /\ Len(old) + 1 <= u.size[t.cur]
    BY <1>3, <1>5, <1>8, <1>12, <1>14
  <2>2. u.files[t.cur][Len(old) + 1] = e /\ e # Torn
    BY <1>8, <1>14, SpoolAssumption
  <2>3. t.cur = u.ptr[1] => Len(old) + 1 > u.ptr[2]
    <3>1. t.cur = t.ptr[1] => t.ptr[2] <= Len(old)
      BY <1>2, <1>3, <1>4 DEF Aimed
    <3>2. t.ptr[2] \in Nat
      BY <1>3 DEF SpoolType, Pointers
    <3> QED
      BY <3>1, <3>2, <1>5, <1>12
  <2> QED
    BY <2>1, <2>2, <2>3 DEF Lies, LiesIn
<1> QED
  BY <1>2, <1>10, <1>13, <1>15, <1>16
(* Dropping segments, the pointer's with it: what is left stays where it was, *)
(* and both the former stored pointer and the new one are aimed.             *)
LEMMA GoneAimed ==
  ASSUME NEW s, GoodSpool(s), s.segs # {}, NEW at \in Pointers, Aimed(s, at), NEW gone, NEW u,
         u.segs = s.segs \ gone, u.stale = s.stale, u.ptr \in Pointers,
         \A g \in SegIds : g \notin gone => u.files[g] = s.files[g] /\ u.size[g] = s.size[g],
         \/ s.ptr[1] \notin gone /\ u.ptr = s.ptr
         \/ /\ s.ptr[1] \in gone /\ u.ptr[1] > s.ptr[1] /\ u.ptr[2] = 0
            /\ u.segs # {} => u.ptr[1] \in u.segs /\ \A g \in u.segs : u.ptr[1] <= g,
         \A g \in gone : g \in SegIds /\ (g <= u.ptr[1] \/ \E h \in u.segs : g <= h)
  PROVE  /\ Aimed(u, at) /\ Aimed(u, u.ptr)
         /\ \A p : Lies(s, p) => Lies(u, p) \/ \E g \in gone \cap s.segs : LiesIn(s, g, p)
<1>1. /\ s.segs \subseteq SegIds /\ SegIds \subseteq Nat /\ s.ptr[1] \in Nat /\ s.ptr[2] \in Nat /\ s.stale \in Nat
      /\ at[1] \in Nat /\ at[2] \in Nat /\ u.ptr[1] \in Nat /\ u.ptr[2] \in Nat
      /\ \A g \in SegIds : g \in Nat /\ Len(s.files[g]) \in Nat
  BY DEF GoodSpool, SpoolType, Pointers, SegIds
<1>2. /\ s.ptr[1] \in s.segs /\ s.ptr[2] <= Len(s.files[s.ptr[1]])
      /\ \A g \in s.segs : s.ptr[1] <= g
  BY DEF Aimed
<1>3. ASSUME u.segs # {}
      PROVE  u.ptr[1] \in u.segs /\ u.ptr[2] <= Len(u.files[u.ptr[1]]) /\ \A g \in u.segs : u.ptr[1] <= g
  <2>1. CASE s.ptr[1] \notin gone /\ u.ptr = s.ptr
    BY <2>1, <1>1, <1>2
  <2>2. CASE s.ptr[1] \in gone /\ u.ptr[2] = 0 /\ u.ptr[1] \in u.segs /\ \A g \in u.segs : u.ptr[1] <= g
    <3>1. u.ptr[1] \in SegIds /\ u.ptr[1] \notin gone
      BY <2>2, <1>1
    <3>2. Len(u.files[u.ptr[1]]) \in Nat
      BY <3>1, <1>1
    <3> QED
      BY <2>2, <3>2
  <2> QED
    BY <1>3, <2>1, <2>2
<1>4. ASSUME at[1] \in u.segs PROVE at[1] = u.ptr[1] /\ at[2] <= u.ptr[2]
  <2>1. at[1] = s.ptr[1] /\ at[2] <= s.ptr[2] /\ at[1] \notin gone
    BY <1>4 DEF Aimed
  <2> QED
    BY <2>1
<1>5. s.ptr[1] <= u.ptr[1]
  BY <1>1
<1>6. at[1] <= u.stale \/ at[1] <= u.ptr[1] \/ \E g \in u.segs : at[1] <= g
  <2>1. CASE at[1] <= s.stale
    BY <2>1
  <2>2. CASE at[1] <= s.ptr[1]
    BY <2>2, <1>1, <1>5
  <2>3. ASSUME NEW g \in s.segs, at[1] <= g PROVE at[1] <= u.ptr[1] \/ \E h \in u.segs : at[1] <= h
    <3>1. CASE g \notin gone
      BY <2>3, <3>1
    <3>2. CASE g \in gone /\ g <= u.ptr[1]
      <4>1. g \in Nat
        BY <2>3, <1>1
      <4> QED
        BY <2>3, <3>2, <4>1, <1>1
    <3>3. ASSUME NEW h \in u.segs, g \in gone, g <= h PROVE at[1] <= h
      <4>1. g \in Nat /\ h \in Nat
        BY <2>3, <3>3, <1>1
      <4> QED
        BY <2>3, <3>3, <4>1, <1>1
    <3> QED
      BY <3>1, <3>2, <3>3
  <2> QED
    BY <2>1, <2>2, <2>3 DEF Aimed
<1>7. Aimed(u, at) /\ Aimed(u, u.ptr)
  BY <1>1, <1>3, <1>4, <1>6 DEF Aimed
<1>8. ASSUME NEW p, NEW g \in s.segs, LiesIn(s, g, p), g \notin gone PROVE Lies(u, p)
  <2>1. g \in u.segs /\ u.files[g] = s.files[g] /\ u.size[g] = s.size[g]
    BY <1>1, <1>8
  <2>2. u.ptr = s.ptr \/ u.ptr[2] = 0
    OBVIOUS
  <2> QED
    BY <2>1, <2>2, <1>8 DEF Lies, LiesIn
<1> QED
  BY <1>7, <1>8 DEF Lies

(* The spool without some segments, and with its pointer somewhere. *)
Without(s, gone, p) == [WithoutPointer(s, gone) EXCEPT !.ptr = p]

(* u is s without those segments, field by field. *)
LeftOf(s, gone, p, u) ==
  /\ u.segs = s.segs \ gone /\ u.stale = s.stale /\ u.ptr = p /\ u.cur = s.cur /\ u.open = s.open
  /\ \A g \in SegIds : g \notin gone => u.files[g] = s.files[g] /\ u.size[g] = s.size[g]

(* What dropping segments makes of each field.                               *)
LEMMA WithoutFields ==
  ASSUME NEW s \in SpoolType, NEW gone, NEW p
  PROVE  LeftOf(s, gone, p, Without(s, gone, p))
<1>1. PICK f : f = [g \in SegIds |-> IF g \in gone THEN <<>> ELSE s.files[g]]
  OBVIOUS
<1>2. PICK z : z = [g \in SegIds |-> IF g \in gone THEN 0 ELSE s.size[g]]
  OBVIOUS
<1>0. PICK u : u = Without(s, gone, p)
  OBVIOUS
<1>3. u = [s EXCEPT !.onDisk = @ \ gone, !.files = f, !.segs = @ \ gone, !.size = z, !.ptr = p]
  BY <1>0, <1>1, <1>2 DEF Without, WithoutPointer, SpoolType
<1>4. /\ u.segs = s.segs \ gone /\ u.stale = s.stale /\ u.ptr = p /\ u.cur = s.cur /\ u.open = s.open
      /\ u.files = f /\ u.size = z
  BY <1>3 DEF SpoolType
<1> QED
  BY <1>0, <1>1, <1>2, <1>4 DEF LeftOf

(* Making room for the bound hides only what it counts as given up.          *)
LEMMA LimitedAimed ==
  ASSUME NEW s, GoodSpool(s), s.open, NEW at \in Pointers, Aimed(s, at), Newest(s)
  PROVE  /\ Aimed(Limited(s), at) /\ Newest(Limited(s))
         /\ \A p : Lies(s, p) => Lies(Limited(s), p) \/ p \in EvictedPoints(s)
<1>1. s \in SpoolType /\ s.cur \in s.segs /\ \A g \in s.segs : g <= s.cur
  BY DEF GoodSpool, WellFormed
<1>2. PICK gone : gone = OverLimit(s)
  OBVIOUS
<1>3. s.cur \notin gone /\ gone \subseteq s.segs
  BY <1>1, <1>2, OverLimitSparesNewest
<1>4. PICK left : left = s.segs \ gone
  OBVIOUS
<1>5. left \in SUBSET Nat /\ left # {} /\ s.segs \subseteq SegIds /\ SegIds \subseteq Nat /\ s.ptr[1] \in Nat
      /\ s.ptr \in Pointers
  BY <1>1, <1>3, <1>4 DEF SpoolType, SegIds, Pointers
<1>6. Min(left) \in left /\ \A g \in left : Min(left) <= g
  BY <1>5, MinIsLeast
<1>7. PICK m : m = Min(left)
  OBVIOUS
<1>8. PICK p : p = (IF s.ptr[1] \in gone THEN <<m, 0>> ELSE s.ptr)
  OBVIOUS
<1>9. PICK u : u = Limited(s)
  OBVIOUS
<1>10. u = Without(s, gone, p)
  BY <1>1, <1>2, <1>4, <1>7, <1>8, <1>9 DEF Limited, Without, WithoutPointer, SpoolType
<1>11. /\ u.segs = left /\ u.stale = s.stale /\ u.ptr = p /\ u.cur = s.cur /\ u.open = s.open
       /\ \A g \in SegIds : g \notin gone => u.files[g] = s.files[g] /\ u.size[g] = s.size[g]
  <2>1. /\ u.segs = s.segs \ gone /\ u.stale = s.stale /\ u.ptr = p /\ u.cur = s.cur /\ u.open = s.open
        /\ \A g \in SegIds : g \notin gone => u.files[g] = s.files[g] /\ u.size[g] = s.size[g]
    <3>1. s \in SpoolType
      BY <1>1
    <3>2. LeftOf(s, gone, p, Without(s, gone, p))
      BY <3>1, WithoutFields
    <3> QED
      BY <3>2, <1>10 DEF LeftOf
  <2> QED
    BY <2>1, <1>4
<1>12. m \in SegIds /\ <<m, 0>> \in Pointers
  BY <1>4, <1>5, <1>6, <1>7, SpoolAssumption DEF Pointers, SegIds
<1>13. ASSUME s.ptr[1] \in gone PROVE m > s.ptr[1]
  <2>1. s.ptr[1] <= m /\ s.ptr[1] # m
    BY <1>4, <1>6, <1>7, <1>13 DEF Aimed
  <2> QED
    BY <2>1, <1>5, <1>6, <1>7
<1>14. /\ Aimed(u, at)
       /\ \A q : Lies(s, q) => Lies(u, q) \/ \E g \in gone \cap s.segs : LiesIn(s, g, q)
  <2>1. u.segs = s.segs \ gone /\ u.ptr \in Pointers /\ s.segs # {}
    BY <1>1, <1>4, <1>5, <1>8, <1>11, <1>12
  <2>2. \/ s.ptr[1] \notin gone /\ u.ptr = s.ptr
        \/ /\ s.ptr[1] \in gone /\ u.ptr[1] > s.ptr[1] /\ u.ptr[2] = 0
           /\ u.segs # {} => u.ptr[1] \in u.segs /\ \A g \in u.segs : u.ptr[1] <= g
    BY <1>6, <1>7, <1>8, <1>11, <1>13
  <2>3. \A g \in gone : g \in SegIds /\ (g <= u.ptr[1] \/ \E h \in u.segs : g <= h)
    BY <1>1, <1>3, <1>4, <1>5, <1>11
  <2> QED
    BY <2>1, <2>2, <2>3, <1>11, GoneAimed
<1>15. Newest(u)
  BY <1>1, <1>3, <1>4, <1>5, <1>11 DEF Newest
<1>16. ASSUME NEW q, NEW g \in gone, LiesIn(s, g, q) PROVE q \in EvictedPoints(s)
  <2>1. g \in SegIds /\ s.ptr[2] \in Nat
    BY <1>3, <1>5 DEF Pointers
  <2>2. PICK off \in Nat : off = IF g = s.ptr[1] THEN s.ptr[2] ELSE 0
    BY <2>1
  <2>3. PICK i \in 1..Len(s.files[g]) :
          /\ s.files[g][i] # Torn /\ s.files[g][i].p = q
          /\ g = s.ptr[1] => i > s.ptr[2]
    BY <1>16 DEF LiesIn
  <2>4. q \in PointsIn(From(s, g, off))
    BY <2>1, <2>2, <2>3, FromPlaces
  <2> QED
    BY <2>2, <2>4, <1>2 DEF EvictedPoints
<1> QED
  BY <1>9, <1>14, <1>15, <1>16

(* A write done: the entry and what lay there lie there, or were given up.   *)
LEMMA WroteAimed ==
  ASSUME NEW s, GoodSpool(s), CanStart(s), s.onDisk \subseteq s.segs, NEW at \in Pointers,
         Aimed(s, at), Newest(s), NEW e \in Entries
  PROVE  /\ Aimed(Wrote(s, e), at) /\ Newest(Wrote(s, e))
         /\ \A p : Lies(s, p) \/ p = e.p =>
              Lies(Wrote(s, e), p) \/ p \in EvictedPoints(Appended(s, e))
<1>1. PICK u : u = Appended(s, e)
  OBVIOUS
<1>2. /\ GoodSpool(u) /\ u.open /\ Aimed(u, at) /\ Newest(u)
      /\ \A p : Lies(s, p) \/ p = e.p => Lies(u, p)
  BY <1>1, AppendedGood, AppendedAimed
<1>3. /\ Aimed(Limited(u), at) /\ Newest(Limited(u))
      /\ \A p : Lies(u, p) => Lies(Limited(u), p) \/ p \in EvictedPoints(u)
  BY <1>2, LimitedAimed
<1> QED
  BY <1>1, <1>2, <1>3 DEF Wrote

(* Retiring the segment the pointer is in hides only what lies there.        *)
LEMMA RetiredAimed ==
  ASSUME NEW s, GoodSpool(s), s.ptr[1] \in s.segs, NEW at \in Pointers, Aimed(s, at),
         NEW g, g = s.ptr[1]
  PROVE  /\ Aimed(Retired(s, g), at) /\ Aimed(Retired(s, g), Retired(s, g).ptr)
         /\ Newest(s) /\ g # s.cur => Newest(Retired(s, g))
         /\ \A p : Lies(s, p) => Lies(Retired(s, g), p) \/ LiesIn(s, g, p)
<1>1. s \in SpoolType /\ g \in SegIds /\ g \in Nat /\ g \in s.segs
  BY DEF GoodSpool, SpoolType, SegIds
<1>2. PICK left : left = s.segs \ {g}
  OBVIOUS
<1>3. left \in SUBSET SegIds /\ left \in SUBSET Nat
  BY <1>1, <1>2 DEF SpoolType, SegIds
<1>4. PICK p : p = (IF left # {} THEN <<Min(left), 0>> ELSE <<g + 1, 0>>)
  OBVIOUS
<1>5. PICK u : u = Retired(s, g)
  OBVIOUS
<1>6. u = Without(s, {g}, p)
  BY <1>2, <1>4, <1>5 DEF Retired, Without
<1>7. LeftOf(s, {g}, p, u)
  <2>1. LeftOf(s, {g}, p, Without(s, {g}, p))
    BY <1>1, WithoutFields
  <2> QED
    BY <2>1, <1>6
<1>8. u.segs = left /\ u.ptr = p /\ u.cur = s.cur /\ u.open = s.open
  BY <1>2, <1>7 DEF LeftOf
<1>9. u.ptr \in Pointers
  BY <1>1, <1>5, RetiredPtr
<1>10. left # {} => Min(left) \in left /\ \A h \in left : Min(left) <= h
  BY <1>3, MinIsLeast
<1>11. p[2] = 0 /\ p[1] > g
  <2>1. CASE left = {}
    BY <2>1, <1>1, <1>4
  <2>2. CASE left # {}
    <3>1. PICK m \in left : m = Min(left)
      BY <2>2, <1>10
    <3>2. m \in s.segs /\ m # g /\ m \in Nat
      BY <1>2, <1>3
    <3>3. g <= m
      BY <3>2 DEF Aimed
    <3>4. p = <<m, 0>>
      BY <2>2, <3>1, <1>4
    <3>5. m > g
      BY <3>2, <3>3, <1>1
    <3> QED
      BY <3>4, <3>5
  <2> QED
    BY <2>1, <2>2
<1>12. u.segs # {} => u.ptr[1] \in u.segs /\ \A h \in u.segs : u.ptr[1] <= h
  BY <1>4, <1>8, <1>10
<1>13. /\ Aimed(u, at) /\ Aimed(u, u.ptr)
       /\ \A q : Lies(s, q) => Lies(u, q) \/ \E h \in {g} \cap s.segs : LiesIn(s, h, q)
  <2>1. s.segs # {} /\ u.segs = s.segs \ {g} /\ u.stale = s.stale
    BY <1>1, <1>7 DEF LeftOf
  <2>2. \A h \in SegIds : h \notin {g} => u.files[h] = s.files[h] /\ u.size[h] = s.size[h]
    BY <1>7 DEF LeftOf
  <2>3. s.ptr[1] \in {g} /\ u.ptr[1] > s.ptr[1] /\ u.ptr[2] = 0
    BY <1>8, <1>11
  <2>4. p[1] \in Nat
    BY <1>8, <1>9 DEF Pointers
  <2>5. \A h \in {g} : h \in SegIds /\ (h <= u.ptr[1] \/ \E k \in u.segs : h <= k)
    BY <2>4, <1>1, <1>8, <1>11
  <2> QED
    BY <2>1, <2>2, <2>3, <2>5, <1>9, <1>12, GoneAimed
<1>14. ASSUME Newest(s), g # s.cur PROVE Newest(u)
  BY <1>1, <1>2, <1>7, <1>8, <1>14 DEF Newest, LeftOf, SpoolType
<1> QED
  BY <1>5, <1>13, <1>14

(* Where there is nothing to read at the pointer, nothing lies in its segment. *)
LEMMA NothingLies ==
  ASSUME NEW s, GoodSpool(s), PtrInSpool(s), ~Readable(s), NEW p
  PROVE  ~LiesIn(s, s.ptr[1], p)
<1>1. PICK g \in SegIds : g = s.ptr[1]
  BY DEF GoodSpool, SpoolType, PtrInSpool
<1>2. PICK file : file = s.files[g]
  OBVIOUS
<1>3. file \in Seq(Lines) /\ \A i \in 1..Len(file) - 1 : file[i] # Torn
  BY <1>2 DEF GoodSpool, SpoolType, WellFormed
<1>4. /\ Decodable(file) \in Seq(Entries)
      /\ \A i \in 1..Len(file) : file[i] # Torn => i \in 1..Len(Decodable(file))
  BY <1>3, DecodableType, DecodablePlaces
<1>5. PICK off \in Nat, z \in Nat : off = s.ptr[2] /\ z = s.size[g]
  BY DEF GoodSpool, SpoolType, Pointers
<1>6. ~(off < z /\ off < Len(Decodable(file)))
  BY <1>1, <1>2, <1>5 DEF Readable, PtrSeg
<1>7. SUFFICES ASSUME NEW i \in 1..Len(file), i <= z, file[i] # Torn, i > off PROVE FALSE
  BY <1>1, <1>2, <1>5 DEF LiesIn
<1>8. i <= Len(Decodable(file)) /\ Len(Decodable(file)) \in Nat /\ i \in Nat
  BY <1>3, <1>4, <1>7
<1> QED
  BY <1>5, <1>6, <1>7, <1>8

(* The segment that is finished goes, and hides nothing.                     *)
LEMMA FinishedAimed ==
  ASSUME NEW s, GoodSpool(s), Finished(s), NEW at \in Pointers, Aimed(s, at), Newest(s)
  PROVE  /\ Aimed(Retired(s, PtrSeg(s)), at) /\ Newest(Retired(s, PtrSeg(s)))
         /\ Aimed(Retired(s, PtrSeg(s)), Retired(s, PtrSeg(s)).ptr)
         /\ \A p : Lies(s, p) => Lies(Retired(s, PtrSeg(s)), p)
<1>1. PICK g : g = s.ptr[1]
  OBVIOUS
<1>2. PtrInSpool(s) /\ ~Readable(s) /\ g # s.cur /\ PtrSeg(s) = g
  BY <1>1 DEF Finished, PtrSeg
<1>3. \A p : ~LiesIn(s, g, p)
  BY <1>1, <1>2, NothingLies
<1>4. g \in s.segs
  BY <1>1, <1>2 DEF PtrInSpool
<1> QED
  BY <1>1, <1>2, <1>3, <1>4, RetiredAimed

(* The pointer moved on in its segment, or past the end of it.               *)
Past(s, end) ==
  IF end[2] >= s.size[end[1]] /\ end[1] # s.cur THEN Retired(s, end[1]) ELSE [s EXCEPT !.ptr = end]

(* That hides the lines stepped over, and no other.                          *)
LEMMA PastAimed ==
  ASSUME NEW s, GoodSpool(s), s.ptr[1] \in s.segs, NEW at \in Pointers, Aimed(s, at), Newest(s),
         NEW end \in Pointers, end[1] = s.ptr[1], s.ptr[2] <= end[2], end[2] <= Len(s.files[end[1]])
  PROVE  /\ Aimed(Past(s, end), at) /\ Aimed(Past(s, end), Past(s, end).ptr) /\ Newest(Past(s, end))
         /\ \A p : Lies(s, p) =>
              \/ Lies(Past(s, end), p)
              \/ \E i \in s.ptr[2] + 1 .. end[2] :
                   s.files[end[1]][i] # Torn /\ s.files[end[1]][i].p = p
<1>1. PICK g : g = s.ptr[1]
  OBVIOUS
<1>2. /\ s \in SpoolType /\ g \in SegIds /\ g \in s.segs /\ s.ptr[2] \in Nat /\ end[2] \in Nat
      /\ s.size[g] \in Nat /\ Len(s.files[g]) \in Nat /\ at[2] \in Nat /\ at[1] \in Nat
  <2>1. s \in SpoolType /\ g \in s.segs
    BY <1>1 DEF GoodSpool
  <2>2. g \in SegIds /\ s.ptr \in Pointers /\ s.size \in [SegIds -> Nat] /\ s.files \in [SegIds -> Seq(Lines)]
    BY <2>1 DEF SpoolType
  <2>3. s.size[g] \in Nat /\ s.files[g] \in Seq(Lines)
    BY <2>2
  <2>4. s.ptr[2] \in Nat /\ end[2] \in Nat /\ at[2] \in Nat /\ at[1] \in Nat
    BY <2>2 DEF Pointers
  <2> QED
    BY <2>1, <2>2, <2>3, <2>4
<1>3. ASSUME NEW p, NEW i \in 1..Len(s.files[g]), s.files[g][i] # Torn, s.files[g][i].p = p,
             i > s.ptr[2], i <= end[2]
      PROVE  \E j \in s.ptr[2] + 1 .. end[2] :
               s.files[end[1]][j] # Torn /\ s.files[end[1]][j].p = p
  <2>1. i \in s.ptr[2] + 1 .. end[2]
    BY <1>2, <1>3
  <2> QED
    BY <2>1, <1>1, <1>3
<1>4. CASE end[2] >= s.size[g] /\ g # s.cur
  <2>1. Past(s, end) = Retired(s, g)
    BY <1>1, <1>4 DEF Past
  <2>2. /\ Aimed(Retired(s, g), at) /\ Aimed(Retired(s, g), Retired(s, g).ptr)
        /\ Newest(Retired(s, g))
        /\ \A p : Lies(s, p) => Lies(Retired(s, g), p) \/ LiesIn(s, g, p)
    BY <1>1, <1>4, RetiredAimed
  <2>3. ASSUME NEW p, LiesIn(s, g, p)
        PROVE  \E i \in s.ptr[2] + 1 .. end[2] :
                 s.files[end[1]][i] # Torn /\ s.files[end[1]][i].p = p
    <3>1. PICK i \in 1..Len(s.files[g]) : /\ i <= s.size[g] /\ i > s.ptr[2]
                                          /\ s.files[g][i] # Torn /\ s.files[g][i].p = p
      BY <1>1, <2>3 DEF LiesIn
    <3>2. i <= end[2]
      BY <3>1, <1>2, <1>4
    <3> QED
      BY <3>1, <3>2, <1>3
  <2> QED
    BY <2>1, <2>2, <2>3
<1>5. CASE ~(end[2] >= s.size[g] /\ g # s.cur)
  <2>1. PICK u : u = [s EXCEPT !.ptr = end]
    OBVIOUS
  <2>2. Past(s, end) = u
    BY <2>1, <1>1, <1>5 DEF Past
  <2>3. /\ u.ptr = end /\ u.segs = s.segs /\ u.files = s.files /\ u.size = s.size /\ u.cur = s.cur
        /\ u.open = s.open /\ u.stale = s.stale
    BY <2>1, <1>2 DEF SpoolType
  <2>4. Aimed(u, at) /\ Aimed(u, end)
    <3>1. at[1] \in s.segs => at[1] = g /\ at[2] <= end[2]
      BY <1>1, <1>2 DEF Aimed
    <3>2. end[1] <= end[1] /\ end[2] <= end[2]
      BY <1>1, <1>2 DEF SegIds
    <3> QED
      BY <1>1, <1>2, <2>3, <3>1, <3>2 DEF Aimed
  <2>5. Newest(u)
    BY <2>3 DEF Newest
  <2>6. ASSUME NEW p, Lies(s, p)
        PROVE  \/ Lies(u, p)
               \/ \E i \in s.ptr[2] + 1 .. end[2] :
                    s.files[end[1]][i] # Torn /\ s.files[end[1]][i].p = p
    <3>1. PICK h \in s.segs : LiesIn(s, h, p)
      BY <2>6 DEF Lies
    <3>2. PICK i \in 1..Len(s.files[h]) : /\ i <= s.size[h] /\ s.files[h][i] # Torn /\ s.files[h][i].p = p
                                          /\ h = g => i > s.ptr[2]
      BY <1>1, <3>1 DEF LiesIn
    <3>3. CASE h = g /\ i <= end[2]
      BY <3>2, <3>3, <1>3
    <3>4. CASE ~(h = g /\ i <= end[2])
      <4>1. h = u.ptr[1] => i > u.ptr[2]
        BY <3>4, <1>1, <1>2, <2>3
      <4> QED
        BY <4>1, <3>1, <3>2, <2>3 DEF Lies, LiesIn
    <3> QED
      BY <3>3, <3>4
  <2> QED
    BY <2>2, <2>3, <2>4, <2>5, <2>6
<1> QED
  BY <1>4, <1>5

(* The entries of a chunk stand in the file one after another behind the pointer. *)
LEMMA ChunkPlaces ==
  ASSUME NEW s, GoodSpool(s), PtrInSpool(s), NEW i \in DOMAIN SpoolChunk(s)
  PROVE  /\ SpoolChunk(s)[i].end = <<s.ptr[1], s.ptr[2] + i>> /\ i \in Nat
         /\ s.ptr[2] + i <= Len(s.files[s.ptr[1]])
         /\ s.files[s.ptr[1]][s.ptr[2] + i] = SpoolChunk(s)[i].e
<1>1. PICK g \in SegIds : g = s.ptr[1]
  BY DEF GoodSpool, SpoolType, PtrInSpool
<1>2. PICK file : file = s.files[g]
  OBVIOUS
<1>3. PICK off \in Nat : off = s.ptr[2]
  BY DEF GoodSpool, SpoolType, Pointers
<1>4. file \in Seq(Lines) /\ \A j \in 1..Len(file) - 1 : file[j] # Torn
  BY <1>2 DEF GoodSpool, SpoolType, WellFormed
<1>5. PICK f : f = Decodable(file)
  OBVIOUS
<1>6. /\ f \in Seq(Entries) /\ Len(f) <= Len(file)
      /\ \A j \in 1..Len(f) : j \in 1..Len(file) /\ f[j] = file[j]
  BY <1>4, <1>5, DecodableType, DecodablePlaces
<1>7. PICK rest : rest = SubSeq(f, off + 1, Len(f))
  OBVIOUS
<1>8. \A j \in off + 1 .. Len(f) : f[j] \in Entries
  BY <1>6
<1>9. /\ rest \in Seq(Entries) /\ Len(rest) = IF off + 1 <= Len(f) THEN Len(f) - (off + 1) + 1 ELSE 0
      /\ \A j \in 1..Len(f) - (off + 1) + 1 : rest[j] = f[(off + 1) + j - 1]
  <2>1. off + 1 \in Int /\ Len(f) \in Int
    BY <1>6
  <2> QED
    BY <2>1, <1>7, <1>8, SubSeqProperties
<1>10. rest = From(s, PtrSeg(s), s.ptr[2])
  BY <1>1, <1>2, <1>3, <1>5, <1>7 DEF From, PtrSeg
<1>11. PICK n \in 0..Len(rest) : n = (IF Len(rest) < ChunkPoints THEN Len(rest) ELSE ChunkPoints)
  <2>1. Len(rest) \in Nat
    BY <1>9
  <2> QED
    BY <2>1, SpoolAssumption
<1>12. SpoolChunk(s) = [j \in 1..n |-> [e |-> rest[j], end |-> <<PtrSeg(s), s.ptr[2] + j>>]]
  BY <1>10, <1>11 DEF SpoolChunk
<1>13. i \in 1..n /\ SpoolChunk(s)[i] = [e |-> rest[i], end |-> <<PtrSeg(s), s.ptr[2] + i>>]
  BY <1>12
<1>14. i \in Nat /\ i <= Len(rest) /\ i >= 1 /\ Len(rest) \in Nat /\ Len(f) \in Nat /\ Len(file) \in Nat
  BY <1>4, <1>6, <1>9, <1>11, <1>13
<1>15. off + i \in 1..Len(f) /\ rest[i] = f[off + i]
  <2>1. i \in 1..Len(f) - (off + 1) + 1 /\ (off + 1) + i - 1 = off + i /\ off + i \in 1..Len(f)
    BY <1>9, <1>14
  <2> QED
    BY <2>1, <1>9
<1>16. off + i <= Len(file) /\ f[off + i] = file[off + i]
  BY <1>6, <1>14, <1>15
<1> QED
  BY <1>1, <1>2, <1>3, <1>13, <1>14, <1>15, <1>16 DEF PtrSeg

(* A write that failed hides nothing.                                        *)
LEMMA FailedWritesAimed ==
  ASSUME NEW s, GoodSpool(s), CanStart(s), s.onDisk \subseteq s.segs, NEW at \in Pointers,
         Aimed(s, at), Newest(s), NEW e \in Entries, NEW f \in FailedWrites(s, e)
  PROVE  Aimed(f, at) /\ Newest(f) /\ \A p : Lies(s, p) => Lies(f, p)
<1>1. CASE f = StartFailed(s)
  <2>1. /\ f.segs = s.segs /\ f.ptr = s.ptr /\ f.files = s.files /\ f.size = s.size /\ f.cur = s.cur
        /\ f.stale = s.stale /\ ~f.open
    BY <1>1 DEF StartFailed, GoodSpool, SpoolType
  <2> QED
    BY <2>1 DEF Aimed, Newest, Lies, LiesIn
<1>2. ASSUME NEW left \in {<<>>, <<Torn>>, <<e>>}, NEW counted \in BOOLEAN,
             f = Abandoned(ReadyToWrite(s), left, counted)
      PROVE  Aimed(f, at) /\ Newest(f) /\ \A p : Lies(s, p) => Lies(f, p)
  <2>1. PICK t : t = ReadyToWrite(s)
    OBVIOUS
  <2>2. /\ GoodSpool(t) /\ t.open /\ Aimed(t, at) /\ Newest(t)
        /\ \A p : Lies(s, p) => Lies(t, p)
    BY <2>1, ReadyGood, ReadyAimed
  <2>3. t \in SpoolType /\ t.cur \in SegIds
    BY <2>2 DEF GoodSpool, WellFormed, SpoolType
  <2>4. PICK old : old = t.files[t.cur]
    OBVIOUS
  <2>5. old \in Seq(Lines) /\ Len(old) \in Nat
    BY <2>3, <2>4 DEF SpoolType
  <2>6. left \in Seq(Lines) /\ Len(left) \in Nat
    <3>1. e \in Lines /\ Torn \in Lines
      BY DEF Lines
    <3>2. CASE left = <<>>
      BY <3>2
    <3>3. CASE left = <<Torn>>
      BY <3>1, <3>3
    <3>4. CASE left = <<e>>
      BY <3>1, <3>4
    <3> QED
      BY <3>2, <3>3, <3>4
  <2>7. PICK file : file = old \o left
    OBVIOUS
  <2>8. /\ Len(file) \in Nat /\ Len(old) <= Len(file) /\ \A i \in 1..Len(old) : file[i] = old[i]
    <3>1. /\ file \in Seq(Lines) /\ Len(file) = Len(old) + Len(left)
          /\ \A i \in 1..Len(old) + Len(left) :
               file[i] = IF i <= Len(old) THEN old[i] ELSE left[i - Len(old)]
      BY <2>5, <2>6, <2>7, ConcatProperties
    <3> QED
      BY <3>1, <2>5, <2>6
  <2>9. PICK n \in Nat : n = (IF counted THEN Len(file) ELSE t.size[t.cur])
    BY <2>3, <2>8 DEF SpoolType
  <2>10. PICK u : u = FileSet(t, file, n)
    OBVIOUS
  <2>11. /\ u.ptr = t.ptr /\ u.stale = t.stale /\ u.segs = t.segs /\ u.cur = t.cur
         /\ u.size = [t.size EXCEPT ![t.cur] = n]
         /\ u.files = [t.files EXCEPT ![t.cur] = file]
    BY <2>3, <2>10, FileSetFields
  <2>12. f = [u EXCEPT !.open = FALSE]
    BY <1>2, <2>1, <2>4, <2>7, <2>9, <2>10 DEF Abandoned, FileSet
  <2>13. /\ f.ptr = t.ptr /\ f.stale = t.stale /\ f.segs = t.segs /\ f.cur = t.cur /\ ~f.open
         /\ f.size = [t.size EXCEPT ![t.cur] = n]
         /\ f.files = [t.files EXCEPT ![t.cur] = file]
    BY <2>3, <2>10, <2>11, <2>12 DEF FileSet, SpoolType
  <2>14. t.files \in [SegIds -> Seq(Lines)] /\ t.size \in [SegIds -> Nat]
    BY <2>3 DEF SpoolType
  <2>15. \A g \in SegIds : /\ Len(f.files[g]) \in Nat /\ Len(t.files[g]) <= Len(f.files[g])
                           /\ \A i \in 1..Len(t.files[g]) : f.files[g][i] = t.files[g][i]
    <3> TAKE g \in SegIds
    <3>1. CASE g = t.cur
      <4>1. f.files[g] = file /\ t.files[g] = old
        BY <3>1, <2>4, <2>13, <2>14
      <4> QED
        BY <4>1, <2>8
    <3>2. CASE g # t.cur
      <4>1. f.files[g] = t.files[g] /\ Len(t.files[g]) \in Nat
        BY <3>2, <2>13, <2>14
      <4> QED
        BY <4>1
    <3> QED
      BY <3>1, <3>2
  <2>16. \A g \in SegIds : /\ f.size[g] \in Nat
                           /\ f.size[g] >= t.size[g] \/ f.size[g] >= Len(t.files[g])
    <3> TAKE g \in SegIds
    <3>1. CASE g = t.cur
      <4>1. f.size[g] = n /\ t.files[g] = old /\ t.size[g] \in Nat
        BY <3>1, <2>4, <2>13, <2>14
      <4>2. n = t.size[g] \/ n = Len(file)
        BY <3>1, <2>9
      <4> QED
        BY <4>1, <4>2, <2>5, <2>8
    <3>2. CASE g # t.cur
      <4>1. f.size[g] = t.size[g] /\ t.size[g] \in Nat
        BY <3>2, <2>13, <2>14
      <4> QED
        BY <4>1
    <3> QED
      BY <3>1, <3>2
  <2>17. Aimed(f, at) /\ \A p : Lies(t, p) => Lies(f, p)
    BY <2>2, <2>13, <2>15, <2>16, GrownAimed
  <2>18. Newest(f)
    BY <2>2, <2>13 DEF Newest
  <2> QED
    BY <2>2, <2>17, <2>18
<1> QED
  BY <1>1, <1>2 DEF FailedWrites

(* A kill in the middle of a write. *)
TornEnd(s) == [s EXCEPT !.files[s.cur] = AppendLine(@, Torn), !.open = FALSE]

(* A line cut off at the end of the open segment hides nothing.              *)
LEMMA TornAimed ==
  ASSUME NEW s, GoodSpool(s), s.open, NEW at \in Pointers, Aimed(s, at)
  PROVE  /\ Aimed(TornEnd(s), at) /\ TornEnd(s).onDisk = s.onDisk /\ TornEnd(s).segs = s.segs
         /\ \A p : Lies(s, p) => Lies(TornEnd(s), p)
<1>1. s \in SpoolType /\ s.cur \in SegIds
  BY DEF GoodSpool, WellFormed, SpoolType
<1>2. PICK old : old = s.files[s.cur]
  OBVIOUS
<1>3. old \in Seq(Lines) /\ Len(old) \in Nat
  BY <1>1, <1>2 DEF SpoolType
<1>4. PICK file : file = AppendLine(old, Torn)
  OBVIOUS
<1>5. Len(file) \in Nat /\ Len(old) <= Len(file) /\ \A i \in 1..Len(old) : file[i] = old[i]
  <2>1. CASE file = old
    BY <2>1, <1>3
  <2>2. CASE file = Append(old, Torn)
    BY <2>2, <1>3
  <2> QED
    BY <2>1, <2>2, <1>4 DEF AppendLine
<1>6. PICK fs : fs = [s.files EXCEPT ![s.cur] = file]
  OBVIOUS
<1>0. PICK t : t = TornEnd(s)
  OBVIOUS
<1>7. t = [s EXCEPT !.files = fs, !.open = FALSE]
  BY <1>0, <1>2, <1>4, <1>6 DEF TornEnd
<1>8. /\ t.files = fs /\ t.ptr = s.ptr /\ t.stale = s.stale /\ t.segs = s.segs /\ t.size = s.size
      /\ t.onDisk = s.onDisk
  BY <1>1, <1>7 DEF SpoolType
<1>9. s.files \in [SegIds -> Seq(Lines)] /\ s.size \in [SegIds -> Nat]
  BY <1>1 DEF SpoolType
<1>10. \A g \in SegIds : /\ Len(t.files[g]) \in Nat /\ Len(s.files[g]) <= Len(t.files[g])
                         /\ \A i \in 1..Len(s.files[g]) : t.files[g][i] = s.files[g][i]
  <2> TAKE g \in SegIds
  <2>1. CASE g = s.cur
    <3>1. t.files[g] = file /\ s.files[g] = old
      BY <2>1, <1>2, <1>6, <1>8, <1>9
    <3> QED
      BY <3>1, <1>5
  <2>2. CASE g # s.cur
    <3>1. t.files[g] = s.files[g] /\ Len(s.files[g]) \in Nat
      BY <2>2, <1>6, <1>8, <1>9
    <3> QED
      BY <3>1
  <2> QED
    BY <2>1, <2>2
<1>11. \A g \in SegIds : t.size[g] \in Nat /\ (t.size[g] >= s.size[g] \/ t.size[g] >= Len(s.files[g]))
  BY <1>8, <1>9
<1>12. Aimed(t, at) /\ \A p : Lies(s, p) => Lies(t, p)
  BY <1>8, <1>10, <1>11, GrownAimed
<1> QED
  BY <1>0, <1>8, <1>12

(* Where there is nothing more to read, stepping over a torn end hides nothing. *)
LEMMA SkipTornAimed ==
  ASSUME NEW s, GoodSpool(s), Exhausted(s), NEW at \in Pointers, Aimed(s, at), Newest(s)
  PROVE  /\ Aimed(SkipTorn(s), at) /\ Newest(SkipTorn(s))
         /\ \A p : Lies(s, p) => Lies(SkipTorn(s), p)
<1>1. CASE ~(PtrInSpool(s) /\ s.ptr[2] < s.size[PtrSeg(s)])
  BY <1>1 DEF SkipTorn
<1>2. CASE PtrInSpool(s) /\ s.ptr[2] < s.size[PtrSeg(s)]
  <2>1. PICK g : g = s.ptr[1]
    OBVIOUS
  <2>2. ~Readable(s) /\ g = s.cur /\ g \in s.segs
    BY <1>2, <2>1 DEF Exhausted, PtrInSpool, PtrSeg
  <2>3. s \in SpoolType /\ g \in SegIds /\ s.ptr[2] \in Nat /\ Len(s.files[g]) \in Nat /\ at[2] \in Nat
    <3>1. s \in SpoolType /\ g \in SegIds /\ s.ptr \in Pointers /\ s.files \in [SegIds -> Seq(Lines)]
      BY <2>2 DEF GoodSpool, SpoolType
    <3> QED
      BY <3>1 DEF Pointers
  <2>4. s.ptr[2] <= Len(s.files[g])
    BY <2>1, <2>2 DEF Aimed
  <2>5. PICK n : n = Len(s.files[g])
    OBVIOUS
  <2>6. PICK u : u = [s EXCEPT !.ptr = <<g, n>>]
    OBVIOUS
  <2>7. SkipTorn(s) = u
    BY <1>2, <2>1, <2>5, <2>6 DEF SkipTorn
  <2>8. /\ u.ptr = <<g, n>> /\ u.segs = s.segs /\ u.files = s.files /\ u.size = s.size /\ u.cur = s.cur
        /\ u.open = s.open /\ u.stale = s.stale
    BY <2>3, <2>6 DEF SpoolType
  <2>9. Aimed(u, at)
    <3>1. at[1] \in s.segs => at[1] = g /\ at[2] <= n
      BY <2>1, <2>3, <2>4, <2>5 DEF Aimed
    <3>2. n <= Len(s.files[g])
      BY <2>3, <2>5
    <3> QED
      BY <2>1, <2>2, <2>8, <3>1, <3>2 DEF Aimed
  <2>10. Newest(u)
    BY <2>8 DEF Newest
  <2>11. ASSUME NEW p, NEW h \in s.segs, LiesIn(s, h, p) PROVE LiesIn(u, h, p)
    <3>1. h # g
      BY <1>2, <2>1, <2>2, <2>11, NothingLies
    <3> QED
      BY <3>1, <2>8, <2>11 DEF LiesIn
  <2> QED
    BY <2>7, <2>8, <2>9, <2>10, <2>11 DEF Lies
<1> QED
  BY <1>1, <1>2

-----------------------------------------------------------------------------
(* Found again after a restart *)

(* What a start finds is aimed, and every point to recover lies in it.       *)
LEMMA LoadedAimed ==
  ASSUME NEW s, GoodSpool(s), NEW at \in Pointers, Rested(s, at)
  PROVE  /\ Aimed(Loaded(s, at), at)
         /\ \A p \in Recoverable(s, at) : Lies(Loaded(s, at), p)
<1>1. PICK t : t = Loaded(s, at)
  OBVIOUS
<1>2. GoodSpool(t) /\ t.onDisk \subseteq t.segs
  BY <1>1, LoadedGood
<1>3. PICK ne : ne = NonEmpty(s)
  OBVIOUS
<1>4. ne \in SUBSET SegIds /\ ne \in SUBSET Nat
  BY <1>3 DEF NonEmpty, GoodSpool, SpoolType, SegIds
<1>5. /\ t.segs = ne /\ t.files = s.files /\ t.ptr = ResumeAt(s, at) /\ t.stale = at[1]
      /\ t.size = [g \in SegIds |-> IF g \in ne THEN Len(s.files[g]) ELSE 0]
  BY <1>1, <1>3 DEF Loaded
<1>6. at[1] \in Nat /\ at[2] \in Nat
  BY DEF Pointers
<1>7. ASSUME ne # {}
      PROVE  t.ptr[1] \in ne /\ (\A g \in ne : t.ptr[1] <= g) /\ t.ptr[2] <= Len(s.files[t.ptr[1]])
  <2>1. CASE at = NoPtr \/ at[1] \notin ne
    <3>1. PICK m \in ne : m = Min(ne) /\ \A g \in ne : m <= g
      BY <1>4, <1>7, MinIsLeast
    <3>2. t.ptr = <<m, 0>>
      BY <1>3, <1>5, <1>7, <2>1, <3>1 DEF ResumeAt, Oldest
    <3>3. Len(s.files[m]) \in Nat
      BY <1>4 DEF GoodSpool, SpoolType
    <3> QED
      BY <3>1, <3>2, <3>3
  <2>2. CASE ~(at = NoPtr \/ at[1] \notin ne)
    <3>1. at[2] <= Len(s.files[at[1]]) /\ \A g \in ne : at[1] <= g
      BY <1>3, <2>2 DEF Rested
    <3>2. Len(s.files[at[1]]) \in Nat
      BY <1>4, <2>2 DEF GoodSpool, SpoolType
    <3>3. ~(at[2] > Len(s.files[at[1]]))
      BY <3>1, <3>2, <1>6
    <3>4. t.ptr = at
      BY <1>3, <1>5, <2>2, <3>3 DEF ResumeAt
    <3> QED
      BY <2>2, <3>1, <3>4
  <2> QED
    BY <2>1, <2>2
<1>8. ASSUME at[1] \in ne PROVE at = t.ptr
  <2>1. at # NoPtr
    BY <1>4, <1>8, SpoolAssumption DEF NoPtr, SegIds
  <2>2. at[2] <= Len(s.files[at[1]])
    BY <1>3, <1>8 DEF Rested
  <2>3. Len(s.files[at[1]]) \in Nat
    BY <1>4, <1>8 DEF GoodSpool, SpoolType
  <2>4. ~(at[2] > Len(s.files[at[1]]))
    BY <2>2, <2>3, <1>6
  <2> QED
    BY <1>3, <1>5, <1>8, <2>1, <2>4 DEF ResumeAt
<1>9. Aimed(t, at)
  <2>1. at[2] <= at[2] /\ at[1] <= t.stale
    BY <1>5, <1>6
  <2> QED
    BY <2>1, <1>5, <1>7, <1>8 DEF Aimed
<1>10. ASSUME NEW p \in Recoverable(s, at) PROVE Lies(t, p)
  <2>1. p \in Ahead(t)
    BY <1>1 DEF Recoverable
  <2>2. PICK g \in ne : g >= t.ptr[1] /\ p \in PointsIn(From(t, g, IF g = t.ptr[1] THEN t.ptr[2] ELSE 0))
    BY <2>1, <1>5 DEF Ahead
  <2>3. g \in SegIds /\ t.ptr[2] \in Nat
    BY <1>2, <1>4 DEF GoodSpool, SpoolType, Pointers
  <2>4. PICK off \in Nat : off = IF g = t.ptr[1] THEN t.ptr[2] ELSE 0
    BY <2>3
  <2>5. p \in PointsIn(From(t, g, off))
    BY <2>2, <2>4
  <2>6. PICK i \in 1..Len(t.files[g]) : i > off /\ t.files[g][i] # Torn /\ t.files[g][i].p = p
    BY <2>3, <2>5, <1>2, FromPlaces
  <2>7. t.size[g] = Len(t.files[g]) /\ Len(t.files[g]) \in Nat
    BY <2>3, <1>2, <1>5 DEF GoodSpool, SpoolType
  <2>8. i <= t.size[g] /\ (g = t.ptr[1] => i > t.ptr[2])
    BY <2>4, <2>6, <2>7
  <2> QED
    BY <2>6, <2>8, <1>5 DEF Lies, LiesIn
<1> QED
  BY <1>1, <1>9, <1>10

(* Every point lying in the spool can be found again from its files and from *)
(* whichever pointer is stored.                                              *)
LEMMA LiesRecoverable ==
  ASSUME NEW s, GoodSpool(s), s.onDisk \subseteq s.segs, NEW at \in Pointers, Aimed(s, at),
         NEW p, Lies(s, p)
  PROVE  p \in Recoverable(s, at)
<1>1. PICK t : t = Loaded(s, at)
  OBVIOUS
<1>2. GoodSpool(t)
  BY <1>1, LoadedGood
<1>3. Aimed(t, at)
  BY <1>1, AimedRests, LoadedAimed
<1>4. PICK ne : ne = NonEmpty(s)
  OBVIOUS
<1>5. /\ t.segs = ne /\ t.files = s.files /\ t.ptr = ResumeAt(s, at)
      /\ t.size = [g \in SegIds |-> IF g \in ne THEN Len(s.files[g]) ELSE 0]
  BY <1>1, <1>4 DEF Loaded
<1>6. PICK g \in s.segs : LiesIn(s, g, p)
  BY DEF Lies
<1>7. PICK i \in 1..Len(s.files[g]) : /\ s.files[g][i] # Torn /\ s.files[g][i].p = p
                                      /\ g = s.ptr[1] => i > s.ptr[2]
  BY <1>6 DEF LiesIn
<1>8. g \in SegIds /\ s.files[g] \in Seq(Lines) /\ s.ptr[2] \in Nat /\ at[2] \in Nat
  <2>1. g \in SegIds /\ s.ptr \in Pointers /\ s.files \in [SegIds -> Seq(Lines)]
    BY <1>6 DEF GoodSpool, SpoolType
  <2> QED
    BY <2>1 DEF Pointers
<1>9. g \in ne
  <2>1. s.files[g] # <<>>
    BY <1>7, <1>8
  <2> QED
    BY <2>1, <1>4, <1>8 DEF NonEmpty, GoodSpool, WellFormed
<1>10. ASSUME g = t.ptr[1] PROVE i > t.ptr[2]
  <2>1. i \in Nat /\ i > 0
    BY <1>7, <1>8
  <2>2. CASE t.ptr[2] = 0
    BY <2>1, <2>2
  <2>3. CASE t.ptr = at
    <3>1. at[1] = s.ptr[1] /\ at[2] <= s.ptr[2]
      BY <1>6, <1>10, <2>3 DEF Aimed
    <3> QED
      BY <3>1, <1>7, <1>8, <1>10, <2>1, <2>3
  <2>4. t.ptr = at \/ t.ptr[2] = 0
    BY <1>4, <1>5, <1>9 DEF ResumeAt, Oldest
  <2> QED
    BY <2>2, <2>3, <2>4
<1>11. i <= t.size[g]
  BY <1>5, <1>7, <1>8, <1>9
<1>12. Lies(t, p)
  BY <1>5, <1>7, <1>9, <1>10, <1>11 DEF Lies, LiesIn
<1>13. p \in Ahead(t)
  BY <1>2, <1>3, <1>12, LiesAhead
<1> QED
  BY <1>1, <1>13 DEF Recoverable

-----------------------------------------------------------------------------
(* A chunk read from the spool and what is appended meanwhile *)

(* u comes of s by appends: its pointer is where it was, in a file that has  *)
(* only grown, or past it, and no older segment has come.                    *)
Follows(s, u) ==
  /\ s.ptr[1] <= u.ptr[1] /\ \A g \in u.segs : s.ptr[1] <= g
  /\ s.ptr[1] \in u.segs =>
       /\ u.ptr = s.ptr /\ Len(s.files[s.ptr[1]]) <= Len(u.files[s.ptr[1]])
       /\ \A i \in 1..Len(s.files[s.ptr[1]]) : u.files[s.ptr[1]][i] = s.files[s.ptr[1]][i]

(* The entries of a chunk, while their segment is there, stand behind the pointer. *)
Placed(s, c) ==
  \E g \in Nat :
    /\ g <= s.ptr[1] /\ \A i \in DOMAIN c : c[i].end[1] = g
    /\ g \in s.segs =>
         \A i \in DOMAIN c : /\ c[i].end = <<s.ptr[1], s.ptr[2] + i>>
                             /\ s.ptr[2] + i <= Len(s.files[s.ptr[1]])
                             /\ s.files[s.ptr[1]][s.ptr[2] + i] = c[i].e

(* A chunk keeps its place while entries are appended.                       *)
LEMMA FollowsPlaced ==
  ASSUME NEW s \in SpoolType, NEW u \in SpoolType, s.ptr[1] \in s.segs, Follows(s, u),
         NEW c, DOMAIN c \subseteq Nat \ {0}, Placed(s, c)
  PROVE  Placed(u, c)
<1>1. PICK g \in Nat :
        /\ g <= s.ptr[1] /\ \A i \in DOMAIN c : c[i].end[1] = g
        /\ g \in s.segs =>
             \A i \in DOMAIN c : /\ c[i].end = <<s.ptr[1], s.ptr[2] + i>>
                                 /\ s.ptr[2] + i <= Len(s.files[s.ptr[1]])
                                 /\ s.files[s.ptr[1]][s.ptr[2] + i] = c[i].e
  BY DEF Placed
<1>2. s.ptr[1] \in Nat /\ u.ptr[1] \in Nat /\ s.ptr[2] \in Nat
  BY DEF SpoolType, Pointers
<1>3. g <= u.ptr[1]
  BY <1>1, <1>2 DEF Follows
<1>4. ASSUME g \in u.segs, NEW i \in DOMAIN c
      PROVE  /\ c[i].end = <<u.ptr[1], u.ptr[2] + i>>
             /\ u.ptr[2] + i <= Len(u.files[u.ptr[1]])
             /\ u.files[u.ptr[1]][u.ptr[2] + i] = c[i].e
  <2>1. s.ptr[1] <= g
    BY <1>4 DEF Follows
  <2>2. g = s.ptr[1]
    BY <2>1, <1>1, <1>2
  <2>3. /\ u.ptr = s.ptr /\ Len(s.files[g]) <= Len(u.files[g])
        /\ \A j \in 1..Len(s.files[g]) : u.files[g][j] = s.files[g][j]
    BY <1>4, <2>2 DEF Follows
  <2>4. /\ c[i].end = <<s.ptr[1], s.ptr[2] + i>>
        /\ s.ptr[2] + i <= Len(s.files[g])
        /\ s.files[g][s.ptr[2] + i] = c[i].e
    BY <1>1, <2>2
  <2>5. g \in SegIds
    BY <2>2 DEF SpoolType
  <2>6. Len(s.files[g]) \in Nat /\ Len(u.files[g]) \in Nat
    BY <2>5 DEF SpoolType
  <2>7. PICK k \in Nat : k = s.ptr[2] + i /\ k >= 1
    BY <1>2
  <2>8. k \in 1..Len(s.files[g]) /\ k <= Len(u.files[g])
    BY <2>3, <2>4, <2>6, <2>7
  <2> QED
    BY <2>2, <2>3, <2>4, <2>7, <2>8
<1> QED
  BY <1>1, <1>3, <1>4 DEF Placed

(* Appends follow one another.                                               *)
LEMMA FollowsOn ==
  ASSUME NEW s \in SpoolType, NEW t \in SpoolType, NEW u \in SpoolType, t.ptr[1] \in t.segs,
         Follows(s, t), Follows(t, u)
  PROVE  Follows(s, u)
<1>0. ASSUME NEW r \in SpoolType
      PROVE  r.ptr[1] \in Nat /\ r.segs \subseteq Nat /\ \A g \in SegIds : Len(r.files[g]) \in Nat
  <2>1. r.ptr \in Pointers /\ r.segs \subseteq SegIds /\ r.files \in [SegIds -> Seq(Lines)]
    BY DEF SpoolType
  <2>2. \A g \in SegIds : r.files[g] \in Seq(Lines)
    BY <2>1
  <2>3. r.ptr[1] \in Nat /\ SegIds \subseteq Nat
    BY <2>1 DEF Pointers, SegIds
  <2>4. \A g \in SegIds : Len(r.files[g]) \in Nat
    BY <2>2
  <2>5. r.segs \subseteq Nat
    BY <2>1, <2>3
  <2> QED
    BY <2>3, <2>4, <2>5
<1>1. s.ptr[1] \in Nat /\ t.ptr[1] \in Nat /\ u.ptr[1] \in Nat /\ u.segs \subseteq Nat
  BY <1>0
<1>2. s.ptr[1] <= t.ptr[1] /\ t.ptr[1] <= u.ptr[1] /\ \A g \in u.segs : t.ptr[1] <= g
  BY DEF Follows
<1>3. s.ptr[1] <= u.ptr[1] /\ \A g \in u.segs : s.ptr[1] <= g
  BY <1>1, <1>2
<1>4. ASSUME s.ptr[1] \in u.segs
      PROVE  /\ u.ptr = s.ptr /\ Len(s.files[s.ptr[1]]) <= Len(u.files[s.ptr[1]])
             /\ \A i \in 1..Len(s.files[s.ptr[1]]) : u.files[s.ptr[1]][i] = s.files[s.ptr[1]][i]
  <2>1. t.ptr[1] = s.ptr[1]
    BY <1>1, <1>2, <1>4
  <2>2. PICK g \in SegIds : g = s.ptr[1]
    BY <1>4 DEF SpoolType
  <2>3. /\ t.ptr = s.ptr /\ Len(s.files[g]) <= Len(t.files[g])
        /\ \A i \in 1..Len(s.files[g]) : t.files[g][i] = s.files[g][i]
    BY <2>1, <2>2 DEF Follows
  <2>4. /\ u.ptr = t.ptr /\ Len(t.files[g]) <= Len(u.files[g])
        /\ \A i \in 1..Len(t.files[g]) : u.files[g][i] = t.files[g][i]
    BY <1>4, <2>1, <2>2 DEF Follows
  <2>5. Len(s.files[g]) \in Nat /\ Len(t.files[g]) \in Nat /\ Len(u.files[g]) \in Nat
    BY <1>0
  <2>6. u.ptr = s.ptr /\ Len(s.files[g]) <= Len(u.files[g])
    BY <2>3, <2>4, <2>5
  <2>7. ASSUME NEW i \in 1..Len(s.files[g]) PROVE u.files[g][i] = s.files[g][i]
    <3>1. i \in 1..Len(t.files[g])
      BY <2>3, <2>5, <2>7
    <3> QED
      BY <2>3, <2>4, <3>1
  <2> QED
    BY <2>2, <2>6, <2>7
<1> QED
  BY <1>3, <1>4 DEF Follows

(* Before an append there is an open segment, behind the pointer.            *)
LEMMA ReadyFollows ==
  ASSUME NEW s, GoodSpool(s), CanStart(s), s.onDisk \subseteq s.segs, NEW at, Aimed(s, at), s.segs # {}
  PROVE  Follows(s, ReadyToWrite(s))
<1>1. PICK n : n = NextSegment(s)
  OBVIOUS
<1>2. s \in SpoolType /\ s.ptr[1] \in s.segs /\ \A g \in s.segs : s.ptr[1] <= g
  BY DEF GoodSpool, Aimed
<1>3. s.ptr[1] \in SegIds /\ s.ptr[1] \in Nat /\ Len(s.files[s.ptr[1]]) \in Nat
  BY <1>2 DEF SpoolType, SegIds
<1>4. CASE NeedsSegment(s)
  <2>1. PICK t : t = Started(s)
    OBVIOUS
  <2>2. t.segs = s.segs \cup {n} /\ t.files = s.files /\ t.ptr = s.ptr /\ n > s.ptr[1] /\ n \in SegIds
    BY <1>1, <1>2, <2>1, StartedFields
  <2>3. s.ptr[1] <= n
    BY <1>3, <2>2 DEF SegIds
  <2>4. ReadyToWrite(s) = t
    BY <1>4, <2>1 DEF ReadyToWrite
  <2> QED
    BY <1>2, <1>3, <2>2, <2>3, <2>4 DEF Follows
<1>5. CASE ~NeedsSegment(s)
  BY <1>2, <1>3, <1>5 DEF ReadyToWrite, Follows
<1> QED
  BY <1>4, <1>5

(* The file appended to grows at its end.                                    *)
LEMMA GrownFollows ==
  ASSUME NEW t, GoodSpool(t), NEW at, Aimed(t, at), t.open, NEW u,
         u.segs = t.segs, u.ptr = t.ptr, NEW file,
         u.files = [t.files EXCEPT ![t.cur] = file], Len(file) \in Nat, Len(t.files[t.cur]) <= Len(file),
         \A i \in 1..Len(t.files[t.cur]) : file[i] = t.files[t.cur][i]
  PROVE  Follows(t, u)
<1>1. t \in SpoolType /\ t.segs # {}
  BY DEF GoodSpool, WellFormed
<1>2. t.ptr[1] \in t.segs /\ \A g \in t.segs : t.ptr[1] <= g
  BY <1>1 DEF Aimed
<1>3. t.ptr[1] \in SegIds /\ t.ptr[1] \in Nat /\ t.files \in [SegIds -> Seq(Lines)]
  BY <1>1, <1>2 DEF SpoolType, SegIds
<1>4. PICK g : g = t.ptr[1]
  OBVIOUS
<1>5. CASE g = t.cur
  <2>1. u.files[g] = file
    BY <1>3, <1>4, <1>5
  <2> QED
    BY <1>2, <1>3, <1>4, <1>5, <2>1 DEF Follows
<1>6. CASE g # t.cur
  <2>1. u.files[g] = t.files[g] /\ Len(t.files[g]) \in Nat
    BY <1>3, <1>4, <1>6
  <2> QED
    BY <1>2, <1>3, <1>4, <2>1 DEF Follows
<1> QED
  BY <1>5, <1>6

(* Making room drops segments from the pointer's on.                         *)
LEMMA LimitedFollows ==
  ASSUME NEW s, GoodSpool(s), s.open, NEW at, Aimed(s, at)
  PROVE  Follows(s, Limited(s))
<1>1. s \in SpoolType /\ s.cur \in s.segs /\ \A g \in s.segs : g <= s.cur
  BY DEF GoodSpool, WellFormed
<1>2. PICK gone : gone = OverLimit(s)
  OBVIOUS
<1>3. s.cur \notin gone /\ gone \subseteq s.segs
  BY <1>1, <1>2, OverLimitSparesNewest
<1>4. PICK left : left = s.segs \ gone
  OBVIOUS
<1>5. left \in SUBSET Nat /\ left # {} /\ s.segs \subseteq SegIds /\ s.ptr[1] \in Nat
  BY <1>1, <1>3, <1>4 DEF SpoolType, SegIds, Pointers
<1>6. PICK m \in left : m = Min(left)
  BY <1>5, MinIsLeast
<1>7. PICK p : p = (IF s.ptr[1] \in gone THEN <<m, 0>> ELSE s.ptr)
  OBVIOUS
<1>8. PICK u : u = Limited(s)
  OBVIOUS
<1>9. u = Without(s, gone, p)
  BY <1>1, <1>2, <1>4, <1>6, <1>7, <1>8 DEF Limited, Without, WithoutPointer, SpoolType
<1>10. LeftOf(s, gone, p, u)
  <2>1. s \in SpoolType
    BY <1>1
  <2>2. LeftOf(s, gone, p, Without(s, gone, p))
    BY <2>1, WithoutFields
  <2> QED
    BY <2>2, <1>9
<1>11. /\ u.segs = left /\ u.ptr = p
       /\ \A g \in SegIds : g \notin gone => u.files[g] = s.files[g]
  BY <1>4, <1>10 DEF LeftOf
<1>12. s.ptr[1] \in s.segs /\ \A g \in s.segs : s.ptr[1] <= g
  BY <1>1 DEF Aimed
<1>13. s.ptr[1] <= u.ptr[1]
  <2>1. s.ptr[1] <= m /\ s.ptr[1] <= s.ptr[1]
    BY <1>4, <1>5, <1>12
  <2> QED
    BY <2>1, <1>7, <1>11
<1>14. ASSUME s.ptr[1] \in left
       PROVE  u.ptr = s.ptr /\ u.files[s.ptr[1]] = s.files[s.ptr[1]] /\ Len(s.files[s.ptr[1]]) \in Nat
  BY <1>1, <1>4, <1>5, <1>7, <1>11, <1>14 DEF SpoolType
<1>15. \A g \in u.segs : s.ptr[1] <= g
  BY <1>4, <1>11, <1>12
<1>16. Follows(s, u)
  BY <1>11, <1>13, <1>14, <1>15 DEF Follows
<1> QED
  BY <1>8, <1>16

(* A write leaves a chunk's entries where they are.                          *)
LEMMA WroteFollows ==
  ASSUME NEW s, GoodSpool(s), CanStart(s), s.onDisk \subseteq s.segs, NEW at \in Pointers,
         Aimed(s, at), Newest(s), s.segs # {}, NEW e \in Entries
  PROVE  Follows(s, Wrote(s, e))
<1>1. PICK t : t = ReadyToWrite(s)
  OBVIOUS
<1>2. /\ GoodSpool(t) /\ t.open /\ Aimed(t, at) /\ Newest(t) /\ Follows(s, t)
  BY <1>1, ReadyGood, ReadyAimed, ReadyFollows
<1>3. t \in SpoolType /\ t.cur \in SegIds /\ t.segs # {}
  BY <1>2 DEF GoodSpool, WellFormed, SpoolType
<1>4. PICK old : old = t.files[t.cur]
  OBVIOUS
<1>5. /\ old \in Seq(Lines) /\ Len(old) \in Nat /\ \A i \in 1..Len(old) : old[i] # Torn
  BY <1>2, <1>3, <1>4 DEF GoodSpool, WellFormed, SpoolType
<1>6. PICK file : file = AppendLine(old, e)
  OBVIOUS
<1>7. file = Append(old, e)
  BY <1>5, <1>6 DEF AppendLine
<1>8. /\ Len(file) \in Nat /\ Len(old) <= Len(file)
      /\ \A i \in 1..Len(old) : file[i] = old[i]
  BY <1>5, <1>7
<1>9. PICK n : n = t.size[t.cur] + 1
  OBVIOUS
<1>10. PICK u : u = Appended(s, e)
  OBVIOUS
<1>11. u = FileSet(t, file, n)
  BY <1>1, <1>4, <1>6, <1>9, <1>10 DEF Appended, FileSet
<1>12. /\ u.ptr = t.ptr /\ u.stale = t.stale /\ u.segs = t.segs /\ u.cur = t.cur
       /\ u.size = [t.size EXCEPT ![t.cur] = n]
       /\ u.files = [t.files EXCEPT ![t.cur] = file]
  BY <1>3, <1>11, FileSetFields
<1>13. Follows(t, u)
  BY <1>2, <1>4, <1>8, <1>12, GrownFollows
<1>14. GoodSpool(u) /\ u.open /\ Aimed(u, at)
  BY <1>10, AppendedGood, AppendedAimed
<1>15. PICK v : v = Limited(u)
  OBVIOUS
<1>16. Follows(u, v)
  BY <1>14, <1>15, LimitedFollows
<1>17. v = Wrote(s, e) /\ GoodSpool(v)
  BY <1>10, <1>15, WroteGood DEF Wrote
<1>18. s \in SpoolType /\ u \in SpoolType /\ v \in SpoolType
  BY <1>14, <1>17 DEF GoodSpool
<1>19. t.ptr[1] \in t.segs /\ u.ptr[1] \in u.segs
  BY <1>2, <1>3, <1>12 DEF Aimed
<1>20. Follows(s, u)
  BY <1>2, <1>3, <1>13, <1>18, <1>19, FollowsOn
<1> QED
  BY <1>16, <1>17, <1>18, <1>19, <1>20, FollowsOn

(* So does a write that fails.                                               *)
LEMMA FailedWritesFollows ==
  ASSUME NEW s, GoodSpool(s), CanStart(s), s.onDisk \subseteq s.segs, NEW at \in Pointers,
         Aimed(s, at), Newest(s), s.segs # {}, NEW e \in Entries, NEW f \in FailedWrites(s, e)
  PROVE  Follows(s, f)
<1>1. CASE f = StartFailed(s)
  <2>1. f.segs = s.segs /\ f.ptr = s.ptr /\ f.files = s.files
    BY <1>1 DEF StartFailed, GoodSpool, SpoolType
  <2>2. s.ptr[1] \in s.segs /\ \A g \in s.segs : s.ptr[1] <= g
    BY DEF Aimed
  <2>3. s.ptr[1] \in Nat /\ Len(s.files[s.ptr[1]]) \in Nat
    BY <2>2 DEF GoodSpool, SpoolType, SegIds
  <2> QED
    BY <2>1, <2>2, <2>3 DEF Follows
<1>2. ASSUME NEW left \in {<<>>, <<Torn>>, <<e>>}, NEW counted \in BOOLEAN,
             f = Abandoned(ReadyToWrite(s), left, counted)
      PROVE  Follows(s, f)
  <2>1. PICK t : t = ReadyToWrite(s)
    OBVIOUS
  <2>2. GoodSpool(t) /\ t.open /\ Aimed(t, at) /\ Newest(t) /\ Follows(s, t)
    BY <2>1, ReadyGood, ReadyAimed, ReadyFollows
  <2>3. t \in SpoolType /\ t.cur \in SegIds /\ t.segs # {}
    BY <2>2 DEF GoodSpool, WellFormed, SpoolType
  <2>4. PICK old : old = t.files[t.cur]
    OBVIOUS
  <2>5. old \in Seq(Lines) /\ Len(old) \in Nat
    BY <2>3, <2>4 DEF SpoolType
  <2>6. left \in Seq(Lines) /\ Len(left) \in Nat
    <3>1. e \in Lines /\ Torn \in Lines
      BY DEF Lines
    <3>2. CASE left = <<>>
      BY <3>2
    <3>3. CASE left = <<Torn>>
      BY <3>1, <3>3
    <3>4. CASE left = <<e>>
      BY <3>1, <3>4
    <3> QED
      BY <3>2, <3>3, <3>4
  <2>7. PICK file : file = old \o left
    OBVIOUS
  <2>8. /\ Len(file) \in Nat /\ Len(old) <= Len(file) /\ \A i \in 1..Len(old) : file[i] = old[i]
    <3>1. /\ file \in Seq(Lines) /\ Len(file) = Len(old) + Len(left)
          /\ \A i \in 1..Len(old) + Len(left) :
               file[i] = IF i <= Len(old) THEN old[i] ELSE left[i - Len(old)]
      BY <2>5, <2>6, <2>7, ConcatProperties
    <3> QED
      BY <3>1, <2>5, <2>6
  <2>9. PICK n : n = (IF counted THEN Len(file) ELSE t.size[t.cur])
    OBVIOUS
  <2>10. PICK u : u = FileSet(t, file, n)
    OBVIOUS
  <2>11. /\ u.ptr = t.ptr /\ u.stale = t.stale /\ u.segs = t.segs /\ u.cur = t.cur
         /\ u.size = [t.size EXCEPT ![t.cur] = n]
         /\ u.files = [t.files EXCEPT ![t.cur] = file]
    BY <2>3, <2>10, FileSetFields
  <2>12. f = [u EXCEPT !.open = FALSE]
    BY <1>2, <2>1, <2>4, <2>7, <2>9, <2>10 DEF Abandoned, FileSet
  <2>13. f.ptr = t.ptr /\ f.segs = t.segs /\ f.files = [t.files EXCEPT ![t.cur] = file]
    BY <2>3, <2>10, <2>11, <2>12 DEF FileSet, SpoolType
  <2>14. Follows(t, f)
    BY <2>2, <2>4, <2>8, <2>13, GrownFollows
  <2>15. s \in SpoolType /\ f \in SpoolType /\ t.ptr[1] \in t.segs
    BY <2>2, <2>3, FailedWritesGood DEF GoodSpool, Aimed
  <2> QED
    BY <2>2, <2>3, <2>14, <2>15, FollowsOn
<1> QED
  BY <1>1, <1>2 DEF FailedWrites

-----------------------------------------------------------------------------
(* The points of queues *)

(* Every entry of a queue gives one of its points.                           *)
LEMMA PointOfEntry ==
  ASSUME NEW q, NEW i \in DOMAIN q
  PROVE  q[i].p \in PointsIn(q)
BY DEF PointsIn

(* Taking the head off a queue takes only its point.                         *)
LEMMA TailPoints ==
  ASSUME NEW S, NEW q \in Seq(S), q # <<>>, NEW p \in PointsIn(q)
  PROVE  p = Head(q).p \/ p \in PointsIn(Tail(q))
<1>1. PICK i \in DOMAIN q : q[i].p = p
  BY DEF PointsIn
<1>2. i \in 1..Len(q) /\ Len(q) \in Nat
  BY <1>1
<1>3. CASE i = 1
  BY <1>1, <1>3
<1>4. CASE i # 1
  <2>1. i - 1 \in 1..Len(Tail(q)) /\ Tail(q)[i - 1] = q[i]
    BY <1>2, <1>4
  <2>2. i - 1 \in DOMAIN Tail(q)
    BY <2>1
  <2>3. Tail(q)[i - 1].p \in PointsIn(Tail(q))
    BY <2>2 DEF PointsIn
  <2> QED
    BY <1>1, <2>1, <2>3
<1> QED
  BY <1>3, <1>4

(* Adding an entry adds its point and loses none.                            *)
LEMMA AppendPoints ==
  ASSUME NEW S, NEW q \in Seq(S), NEW e \in S
  PROVE  e.p \in PointsIn(Append(q, e)) /\ PointsIn(q) \subseteq PointsIn(Append(q, e))
<1>1. PICK r : r = Append(q, e)
  OBVIOUS
<1>2. /\ DOMAIN r = 1..Len(q) + 1 /\ r[Len(q) + 1] = e /\ Len(q) \in Nat
      /\ DOMAIN q = 1..Len(q) /\ \A i \in 1..Len(q) : r[i] = q[i]
  BY <1>1
<1>3. Len(q) + 1 \in DOMAIN r
  BY <1>2
<1>4. e.p \in PointsIn(r)
  BY <1>2, <1>3 DEF PointsIn
<1>5. ASSUME NEW i \in DOMAIN q PROVE q[i].p \in PointsIn(r)
  <2>1. i \in DOMAIN r /\ r[i] = q[i]
    BY <1>2
  <2> QED
    BY <2>1 DEF PointsIn
<1> QED
  BY <1>1, <1>4, <1>5 DEF PointsIn

-----------------------------------------------------------------------------
(* The order of the lines *)

(* The earlier readings of the same worker. *)
Sooner(p) == {q \in Points : q[1] = p[1] /\ q[2] < p[2]}

(* Line i of segment g is whole, counted and in front of the reader. *)
Stands(s, g, i) ==
  /\ i <= s.size[g] /\ s.files[g][i] # Torn
  /\ g = s.ptr[1] => i > s.ptr[2]

(* The reader comes to a line of point q before line k of segment h. *)
InFront(s, h, k, q) ==
  \E g \in s.segs : \E i \in 1..Len(s.files[g]) :
    Stands(s, g, i) /\ s.files[g][i].p = q /\ (g < h \/ (g = h /\ i < k))

(* A worker's earlier readings are in R, or come to the reader first.        *)
Ordered(s, R) ==
  \A h \in s.segs : \A k \in 1..Len(s.files[h]) :
    s.files[h][k] # Torn => \A q \in Sooner(s.files[h][k].p) : q \in R \/ InFront(s, h, k, q)

(* The same of a point that is not in the spool, or whose line is the last.  *)
Led(s, p, R) == \A q \in Sooner(p) : q \in R \/ Lies(s, q)

(* No line comes, and those that go are of points in R.                      *)
LEMMA OrderedKept ==
  ASSUME NEW s, NEW R, Ordered(s, R), NEW u, NEW R2, R \subseteq R2,
         \A h \in u.segs : \A k \in 1..Len(u.files[h]) : u.files[h][k] # Torn =>
           h \in s.segs /\ k \in 1..Len(s.files[h]) /\ s.files[h][k] = u.files[h][k],
         \A g \in s.segs : \A i \in 1..Len(s.files[g]) : Stands(s, g, i) =>
           \/ s.files[g][i].p \in R2
           \/ /\ g \in u.segs /\ i \in 1..Len(u.files[g]) /\ Stands(u, g, i)
              /\ u.files[g][i] = s.files[g][i]
  PROVE  Ordered(u, R2)
<1>1. SUFFICES ASSUME NEW h \in u.segs, NEW k \in 1..Len(u.files[h]), u.files[h][k] # Torn,
                      NEW q \in Sooner(u.files[h][k].p), q \notin R2
               PROVE  InFront(u, h, k, q)
  BY DEF Ordered
<1>2. h \in s.segs /\ k \in 1..Len(s.files[h]) /\ s.files[h][k] = u.files[h][k]
  BY <1>1
<1>3. InFront(s, h, k, q)
  BY <1>1, <1>2 DEF Ordered
<1>4. PICK g \in s.segs : \E i \in 1..Len(s.files[g]) :
        Stands(s, g, i) /\ s.files[g][i].p = q /\ (g < h \/ (g = h /\ i < k))
  BY <1>3 DEF InFront
<1>5. PICK i \in 1..Len(s.files[g]) :
        Stands(s, g, i) /\ s.files[g][i].p = q /\ (g < h \/ (g = h /\ i < k))
  BY <1>4
<1>6. /\ g \in u.segs /\ i \in 1..Len(u.files[g]) /\ Stands(u, g, i)
      /\ u.files[g][i] = s.files[g][i]
  BY <1>1, <1>5
<1> QED
  BY <1>5, <1>6 DEF InFront

(* More points are done with.                                                *)
LEMMA OrderedMore ==
  ASSUME NEW s, NEW R, Ordered(s, R), NEW R2, R \subseteq R2
  PROVE  Ordered(s, R2)
BY OrderedKept

(* Lines come at the end of the newest segment, those they follow being      *)
(* before them.                                                              *)
LEMMA GrownOrdered ==
  ASSUME NEW t, GoodSpool(t), Newest(t), t.segs # {}, NEW u, u.segs = t.segs, u.ptr = t.ptr, NEW file,
         u.files = [t.files EXCEPT ![t.cur] = file], Len(file) \in Nat, Len(t.files[t.cur]) <= Len(file),
         \A i \in 1..Len(t.files[t.cur]) : file[i] = t.files[t.cur][i],
         \A g \in SegIds : /\ u.size[g] \in Nat
                           /\ u.size[g] >= t.size[g] \/ u.size[g] >= Len(t.files[g]),
         NEW R, Ordered(t, R),
         \A k \in Len(t.files[t.cur]) + 1 .. Len(file) : file[k] # Torn => Led(t, file[k].p, R)
  PROVE  Ordered(u, R)
<1>1. /\ t.segs \subseteq SegIds /\ SegIds \subseteq Nat /\ t.cur \in t.segs /\ \A g \in t.segs : g <= t.cur
      /\ t.files \in [SegIds -> Seq(Lines)] /\ t.size \in [SegIds -> Nat]
  BY DEF GoodSpool, SpoolType, SegIds, Newest
<1>2. PICK old : old = t.files[t.cur]
  OBVIOUS
<1>3. old \in Seq(Lines) /\ Len(old) \in Nat
  <2>1. t.cur \in SegIds
    BY <1>1
  <2>2. old \in Seq(Lines)
    BY <2>1, <1>1, <1>2
  <2> QED
    BY <2>2
<1>4. ASSUME NEW g \in t.segs
      PROVE  /\ Len(t.files[g]) \in Nat /\ Len(u.files[g]) \in Nat /\ Len(t.files[g]) <= Len(u.files[g])
             /\ \A i \in 1..Len(t.files[g]) : u.files[g][i] = t.files[g][i]
             /\ t.size[g] \in Nat
  <2>1. CASE g = t.cur
    <3>1. u.files[g] = file /\ t.files[g] = old /\ t.size[g] \in Nat
      BY <1>1, <1>2, <2>1
    <3> QED
      BY <3>1, <1>2, <1>3
  <2>2. CASE g # t.cur
    <3>1. g \in SegIds
      BY <1>1
    <3>2. u.files[g] = t.files[g] /\ t.files[g] \in Seq(Lines) /\ t.size[g] \in Nat
      BY <1>1, <2>2, <3>1
    <3>3. Len(t.files[g]) \in Nat
      BY <3>2
    <3> QED
      BY <3>2, <3>3
  <2> QED
    BY <2>1, <2>2
<1>5. ASSUME NEW g \in t.segs, NEW i \in 1..Len(t.files[g]), Stands(t, g, i)
      PROVE  i \in 1..Len(u.files[g]) /\ Stands(u, g, i) /\ u.files[g][i] = t.files[g][i]
  <2>1. i \in 1..Len(u.files[g]) /\ u.files[g][i] = t.files[g][i]
    BY <1>4, <1>5
  <2>2. i <= t.size[g] /\ t.files[g][i] # Torn /\ (g = t.ptr[1] => i > t.ptr[2])
    BY <1>5 DEF Stands
  <2>3. u.size[g] \in Nat /\ (u.size[g] >= t.size[g] \/ u.size[g] >= Len(t.files[g]))
    BY <1>1
  <2>4. i <= u.size[g]
    BY <2>2, <2>3, <1>4, <1>5
  <2> QED
    BY <2>1, <2>2, <2>4 DEF Stands
<1>6. SUFFICES ASSUME NEW h \in t.segs, NEW k \in 1..Len(u.files[h]), u.files[h][k] # Torn,
                      NEW q \in Sooner(u.files[h][k].p), q \notin R
               PROVE  InFront(u, h, k, q)
  BY DEF Ordered
<1>7. CASE k \in 1..Len(t.files[h])
  <2>1. t.files[h][k] = u.files[h][k]
    BY <1>4, <1>7
  <2>2. InFront(t, h, k, q)
    BY <2>1, <1>6, <1>7 DEF Ordered
  <2>3. PICK g \in t.segs : \E i \in 1..Len(t.files[g]) :
          Stands(t, g, i) /\ t.files[g][i].p = q /\ (g < h \/ (g = h /\ i < k))
    BY <2>2 DEF InFront
  <2>4. PICK i \in 1..Len(t.files[g]) :
          Stands(t, g, i) /\ t.files[g][i].p = q /\ (g < h \/ (g = h /\ i < k))
    BY <2>3
  <2>5. i \in 1..Len(u.files[g]) /\ Stands(u, g, i) /\ u.files[g][i] = t.files[g][i]
    BY <1>5, <2>4
  <2> QED
    BY <2>4, <2>5 DEF InFront
<1>8. CASE k \notin 1..Len(t.files[h])
  <2>1. h = t.cur
    BY <1>1, <1>6, <1>8
  <2>2. u.files[h] = file /\ t.files[h] = old
    BY <1>1, <1>2, <2>1
  <2>3. k \in Len(old) + 1 .. Len(file)
    BY <1>3, <1>6, <1>8, <2>2
  <2>4. Led(t, file[k].p, R)
    BY <1>2, <1>6, <2>2, <2>3
  <2>5. Lies(t, q)
    BY <2>2, <2>4, <1>6 DEF Led
  <2>6. PICK g \in t.segs : LiesIn(t, g, q)
    BY <2>5 DEF Lies
  <2>7. PICK i \in 1..Len(t.files[g]) : Stands(t, g, i) /\ t.files[g][i].p = q
    BY <2>6 DEF LiesIn, Stands
  <2>8. i \in 1..Len(u.files[g]) /\ Stands(u, g, i) /\ u.files[g][i] = t.files[g][i]
    BY <1>5, <2>7
  <2>9. g < h \/ (g = h /\ i < k)
    <3>1. CASE g = h
      BY <3>1, <2>2, <2>3, <2>7, <1>3
    <3>2. CASE g # h
      <4>1. g \in Nat /\ h \in Nat /\ g <= h
        BY <1>1, <2>1
      <4> QED
        BY <4>1, <3>2
    <3> QED
      BY <3>1, <3>2
  <2> QED
    BY <2>7, <2>8, <2>9 DEF InFront
<1> QED
  BY <1>7, <1>8

(* Whole segments go, what they had in front of the reader being in R.       *)
LEMMA LeftOrdered ==
  ASSUME NEW s, GoodSpool(s), NEW gone, NEW p, NEW u, LeftOf(s, gone, p, u),
         p = s.ptr \/ p[2] = 0, NEW R, Ordered(s, R),
         \A g \in gone \cap s.segs : \A q : LiesIn(s, g, q) => q \in R
  PROVE  Ordered(u, R)
<1>1. /\ u.segs = s.segs \ gone /\ u.ptr = p
      /\ \A g \in SegIds : g \notin gone => u.files[g] = s.files[g] /\ u.size[g] = s.size[g]
  BY DEF LeftOf
<1>2. s.segs \subseteq SegIds /\ s.files \in [SegIds -> Seq(Lines)]
  BY DEF GoodSpool, SpoolType
<1>3. ASSUME NEW g \in s.segs, NEW i \in 1..Len(s.files[g]), Stands(s, g, i)
      PROVE  \/ s.files[g][i].p \in R
             \/ /\ g \in u.segs /\ i \in 1..Len(u.files[g]) /\ Stands(u, g, i)
                /\ u.files[g][i] = s.files[g][i]
  <2>1. CASE g \in gone
    <3>1. LiesIn(s, g, s.files[g][i].p)
      BY <1>3 DEF LiesIn, Stands
    <3> QED
      BY <2>1, <3>1
  <2>2. CASE g \notin gone
    <3>1. g \in u.segs /\ u.files[g] = s.files[g] /\ u.size[g] = s.size[g]
      BY <1>1, <1>2, <2>2
    <3>2. i > 0
      BY <1>2, <1>3
    <3>3. g = u.ptr[1] => i > u.ptr[2]
      BY <1>1, <1>3, <3>2 DEF Stands
    <3> QED
      BY <1>3, <3>1, <3>3 DEF Stands
  <2> QED
    BY <2>1, <2>2
<1>4. \A h \in u.segs : \A k \in 1..Len(u.files[h]) :
        h \in s.segs /\ k \in 1..Len(s.files[h]) /\ s.files[h][k] = u.files[h][k]
  BY <1>1, <1>2
<1> QED
  BY <1>3, <1>4, OrderedKept

(* A new segment is empty, and the newest.                                   *)
LEMMA StartedOrdered ==
  ASSUME NEW s, GoodSpool(s), CanStart(s), s.onDisk \subseteq s.segs, NEW at, Aimed(s, at), NEW R, Ordered(s, R)
  PROVE  Ordered(Started(s), R)
<1>1. s \in SpoolType
  BY DEF GoodSpool
<1>2. PICK n : n = NextSegment(s)
  OBVIOUS
<1>3. PICK t : t = Started(s)
  OBVIOUS
<1>4. /\ n \in SegIds /\ \A g \in s.segs : n > g
      /\ t.segs = s.segs \cup {n} /\ t.files = s.files
      /\ t.size = [s.size EXCEPT ![n] = 0]
      /\ s.ptr[1] \in s.segs => t.ptr = s.ptr
  BY <1>1, <1>2, <1>3, StartedFields
<1>5. s.segs \subseteq SegIds /\ SegIds \subseteq Nat /\ s.size \in [SegIds -> Nat]
  BY <1>1 DEF SpoolType, SegIds
<1>6. n \notin s.segs
  <2>1. SUFFICES ASSUME n \in s.segs PROVE FALSE
    OBVIOUS
  <2>2. n > n /\ n \in Nat
    BY <2>1, <1>4, <1>5
  <2> QED
    BY <2>2
<1>7. Len(s.files[n]) = 0
  BY <1>4, <1>6, NewFileEmpty
<1>8. ASSUME NEW g \in s.segs, NEW i \in 1..Len(s.files[g]), Stands(s, g, i)
      PROVE  Stands(t, g, i)
  <2>1. g # n /\ g \in SegIds
    BY <1>5, <1>6
  <2>2. t.size[g] = s.size[g] /\ t.files[g] = s.files[g] /\ t.ptr = s.ptr
    BY <2>1, <1>4, <1>5 DEF Aimed
  <2> QED
    BY <2>2, <1>8 DEF Stands
<1>9. \A h \in t.segs : \A k \in 1..Len(t.files[h]) : h \in s.segs
  BY <1>4, <1>7
<1> QED
  BY <1>3, <1>4, <1>8, <1>9, OrderedKept

(* So before an append.                                                      *)
LEMMA ReadyOrdered ==
  ASSUME NEW s, GoodSpool(s), CanStart(s), s.onDisk \subseteq s.segs, NEW at, Aimed(s, at), NEW R, Ordered(s, R)
  PROVE  Ordered(ReadyToWrite(s), R)
BY StartedOrdered DEF ReadyToWrite

(* What makes room for the bound is given up.                                *)
LEMMA LimitedOrdered ==
  ASSUME NEW s, GoodSpool(s), s.open, NEW R, Ordered(s, R), EvictedPoints(s) \subseteq R
  PROVE  Ordered(Limited(s), R)
<1>1. s \in SpoolType /\ s.cur \in s.segs /\ \A g \in s.segs : g <= s.cur
  BY DEF GoodSpool, WellFormed
<1>2. PICK gone : gone = OverLimit(s)
  OBVIOUS
<1>3. s.cur \notin gone /\ gone \subseteq s.segs
  BY <1>1, <1>2, OverLimitSparesNewest
<1>4. PICK p : p = (IF s.ptr[1] \in gone THEN <<Min(s.segs \ gone), 0>> ELSE s.ptr)
  OBVIOUS
<1>5. PICK u : u = Limited(s)
  OBVIOUS
<1>6. u = Without(s, gone, p)
  BY <1>1, <1>2, <1>4, <1>5 DEF Limited, Without, WithoutPointer, SpoolType
<1>7. LeftOf(s, gone, p, u)
  <2>1. LeftOf(s, gone, p, Without(s, gone, p))
    BY <1>1, WithoutFields
  <2> QED
    BY <2>1, <1>6
<1>8. ASSUME NEW q, NEW g \in gone, LiesIn(s, g, q) PROVE q \in R
  <2>1. g \in SegIds /\ s.ptr[2] \in Nat
    BY <1>1, <1>3 DEF SpoolType, Pointers
  <2>2. PICK off \in Nat : off = IF g = s.ptr[1] THEN s.ptr[2] ELSE 0
    BY <2>1
  <2>3. PICK i \in 1..Len(s.files[g]) :
          /\ s.files[g][i] # Torn /\ s.files[g][i].p = q
          /\ g = s.ptr[1] => i > s.ptr[2]
    BY <1>8 DEF LiesIn
  <2>4. i > off
    BY <2>2, <2>3
  <2>5. q \in PointsIn(From(s, g, off))
    BY <2>1, <2>3, <2>4, FromPlaces
  <2> QED
    BY <2>2, <2>5, <1>2 DEF EvictedPoints
<1>9. p = s.ptr \/ p[2] = 0
  BY <1>4
<1> QED
  BY <1>5, <1>7, <1>8, <1>9, LeftOrdered

(* The entry written comes last, those it follows being before it.           *)
LEMMA AppendedOrdered ==
  ASSUME NEW s, GoodSpool(s), CanStart(s), s.onDisk \subseteq s.segs, NEW at \in Pointers, Aimed(s, at),
         Newest(s), NEW e \in Entries, NEW R, Ordered(s, R), Led(s, e.p, R)
  PROVE  Ordered(Appended(s, e), R)
<1>1. PICK t : t = ReadyToWrite(s)
  OBVIOUS
<1>2. /\ GoodSpool(t) /\ t.open /\ Newest(t) /\ Ordered(t, R)
      /\ \A p : Lies(s, p) => Lies(t, p)
  BY <1>1, ReadyGood, ReadyAimed, ReadyOrdered
<1>3. t \in SpoolType /\ t.cur \in SegIds /\ t.segs # {}
  BY <1>2 DEF GoodSpool, WellFormed, SpoolType
<1>4. PICK old : old = t.files[t.cur]
  OBVIOUS
<1>5. old \in Seq(Lines) /\ Len(old) \in Nat /\ \A i \in 1..Len(old) : old[i] # Torn
  BY <1>2, <1>3, <1>4 DEF GoodSpool, WellFormed, SpoolType
<1>6. PICK file : file = AppendLine(old, e)
  OBVIOUS
<1>7. file = Append(old, e)
  BY <1>5, <1>6 DEF AppendLine
<1>8. /\ Len(file) \in Nat /\ Len(old) <= Len(file)
      /\ \A i \in 1..Len(old) : file[i] = old[i]
      /\ \A i \in Len(old) + 1 .. Len(file) : file[i] = e
  BY <1>5, <1>7
<1>9. PICK n : n = t.size[t.cur] + 1
  OBVIOUS
<1>10. PICK u : u = Appended(s, e)
  OBVIOUS
<1>11. u = FileSet(t, file, n)
  BY <1>1, <1>4, <1>6, <1>9, <1>10 DEF Appended, FileSet
<1>12. /\ u.ptr = t.ptr /\ u.segs = t.segs
       /\ u.size = [t.size EXCEPT ![t.cur] = n]
       /\ u.files = [t.files EXCEPT ![t.cur] = file]
  BY <1>3, <1>11, FileSetFields
<1>13. t.size \in [SegIds -> Nat]
  BY <1>3 DEF SpoolType
<1>14. \A g \in SegIds : u.size[g] \in Nat /\ (u.size[g] >= t.size[g] \/ u.size[g] >= Len(t.files[g]))
  BY <1>3, <1>9, <1>12, <1>13
<1>15. Led(t, e.p, R)
  BY <1>2 DEF Led
<1>16. \A k \in Len(t.files[t.cur]) + 1 .. Len(file) : file[k] # Torn => Led(t, file[k].p, R)
  BY <1>4, <1>8, <1>15
<1> QED
  BY <1>2, <1>3, <1>4, <1>8, <1>10, <1>12, <1>14, <1>16, GrownOrdered

(* A write done, what it evicts being given up.                              *)
LEMMA WroteOrdered ==
  ASSUME NEW s, GoodSpool(s), CanStart(s), s.onDisk \subseteq s.segs, NEW at \in Pointers, Aimed(s, at),
         Newest(s), NEW e \in Entries, NEW R, Ordered(s, R), Led(s, e.p, R),
         NEW R2, R \subseteq R2, EvictedPoints(Appended(s, e)) \subseteq R2
  PROVE  Ordered(Wrote(s, e), R2)
<1>1. PICK u : u = Appended(s, e)
  OBVIOUS
<1>2. GoodSpool(u) /\ u.open
  BY <1>1, AppendedGood
<1>3. Ordered(u, R)
  BY <1>1, AppendedOrdered
<1>4. Ordered(u, R2)
  BY <1>3, OrderedMore
<1> QED
  BY <1>1, <1>2, <1>4, LimitedOrdered DEF Wrote

(* A write that fails leaves part of the entry at most, in the same place.   *)
LEMMA FailedWritesOrdered ==
  ASSUME NEW s, GoodSpool(s), CanStart(s), s.onDisk \subseteq s.segs, NEW at \in Pointers, Aimed(s, at),
         Newest(s), NEW e \in Entries, NEW f \in FailedWrites(s, e), NEW R, Ordered(s, R), Led(s, e.p, R)
  PROVE  Ordered(f, R)
<1>1. CASE f = StartFailed(s)
  <2>1. f.segs = s.segs /\ f.ptr = s.ptr /\ f.files = s.files /\ f.size = s.size
    BY <1>1 DEF StartFailed, GoodSpool, SpoolType
  <2> QED
    BY <2>1, OrderedKept DEF Stands
<1>2. ASSUME NEW left \in {<<>>, <<Torn>>, <<e>>}, NEW counted \in BOOLEAN,
             f = Abandoned(ReadyToWrite(s), left, counted)
      PROVE  Ordered(f, R)
  <2>1. PICK t : t = ReadyToWrite(s)
    OBVIOUS
  <2>2. /\ GoodSpool(t) /\ t.open /\ Newest(t) /\ Ordered(t, R)
        /\ \A p : Lies(s, p) => Lies(t, p)
    BY <2>1, ReadyGood, ReadyAimed, ReadyOrdered
  <2>3. t \in SpoolType /\ t.cur \in SegIds /\ t.segs # {}
    BY <2>2 DEF GoodSpool, WellFormed, SpoolType
  <2>4. PICK old : old = t.files[t.cur]
    OBVIOUS
  <2>5. old \in Seq(Lines) /\ Len(old) \in Nat
    BY <2>3, <2>4 DEF SpoolType
  <2>6. left \in Seq(Lines) /\ Len(left) \in Nat /\ \A i \in 1..Len(left) : left[i] \in {Torn, e}
    <3>1. e \in Lines /\ Torn \in Lines
      BY DEF Lines
    <3>2. CASE left = <<>>
      BY <3>2
    <3>3. CASE left = <<Torn>>
      BY <3>1, <3>3
    <3>4. CASE left = <<e>>
      BY <3>1, <3>4
    <3> QED
      BY <3>2, <3>3, <3>4
  <2>7. PICK file : file = old \o left
    OBVIOUS
  <2>8. /\ Len(file) \in Nat /\ Len(old) <= Len(file) /\ \A i \in 1..Len(old) : file[i] = old[i]
        /\ \A i \in Len(old) + 1 .. Len(file) : file[i] \in {Torn, e}
    <3>1. /\ file \in Seq(Lines) /\ Len(file) = Len(old) + Len(left)
          /\ \A i \in 1..Len(old) + Len(left) :
               file[i] = IF i <= Len(old) THEN old[i] ELSE left[i - Len(old)]
      BY <2>5, <2>6, <2>7, ConcatProperties
    <3>2. ASSUME NEW i \in Len(old) + 1 .. Len(file) PROVE file[i] \in {Torn, e}
      <4>1. file[i] = left[i - Len(old)] /\ i - Len(old) \in 1..Len(left)
        BY <3>1, <3>2, <2>5, <2>6
      <4> QED
        BY <4>1, <2>6
    <3> QED
      BY <3>1, <3>2, <2>5, <2>6
  <2>9. PICK n \in Nat : n = (IF counted THEN Len(file) ELSE t.size[t.cur])
    BY <2>3, <2>8 DEF SpoolType
  <2>10. PICK u : u = FileSet(t, file, n)
    OBVIOUS
  <2>11. /\ u.ptr = t.ptr /\ u.segs = t.segs
         /\ u.size = [t.size EXCEPT ![t.cur] = n]
         /\ u.files = [t.files EXCEPT ![t.cur] = file]
    BY <2>3, <2>10, FileSetFields
  <2>12. f = [u EXCEPT !.open = FALSE]
    BY <1>2, <2>1, <2>4, <2>7, <2>9, <2>10 DEF Abandoned, FileSet
  <2>13. /\ f.ptr = t.ptr /\ f.segs = t.segs
         /\ f.size = [t.size EXCEPT ![t.cur] = n]
         /\ f.files = [t.files EXCEPT ![t.cur] = file]
    BY <2>3, <2>10, <2>11, <2>12 DEF FileSet, SpoolType
  <2>14. t.size \in [SegIds -> Nat]
    BY <2>3 DEF SpoolType
  <2>15. \A g \in SegIds : f.size[g] \in Nat /\ (f.size[g] >= t.size[g] \/ f.size[g] >= Len(t.files[g]))
    <3> TAKE g \in SegIds
    <3>1. CASE g = t.cur
      <4>1. f.size[g] = n /\ t.files[g] = old /\ t.size[g] \in Nat
        BY <3>1, <2>4, <2>13, <2>14
      <4>2. n = t.size[g] \/ n = Len(file)
        BY <3>1, <2>9
      <4> QED
        BY <4>1, <4>2, <2>5, <2>8
    <3>2. CASE g # t.cur
      <4>1. f.size[g] = t.size[g] /\ t.size[g] \in Nat
        BY <3>2, <2>13, <2>14
      <4> QED
        BY <4>1
    <3> QED
      BY <3>1, <3>2
  <2>16. Led(t, e.p, R)
    BY <2>2 DEF Led
  <2>17. \A k \in Len(t.files[t.cur]) + 1 .. Len(file) : file[k] # Torn => Led(t, file[k].p, R)
    BY <2>4, <2>8, <2>16
  <2> QED
    BY <2>2, <2>3, <2>4, <2>8, <2>13, <2>15, <2>17, GrownOrdered
<1> QED
  BY <1>1, <1>2 DEF FailedWrites

(* A segment that goes, what it had in front of the reader being in R.       *)
LEMMA RetiredOrdered ==
  ASSUME NEW s, GoodSpool(s), NEW g \in s.segs, NEW R, Ordered(s, R), \A q : LiesIn(s, g, q) => q \in R
  PROVE  Ordered(Retired(s, g), R)
<1>1. s \in SpoolType
  BY DEF GoodSpool
<1>2. PICK p : p = (IF s.segs \ {g} # {} THEN <<Min(s.segs \ {g}), 0>> ELSE <<g + 1, 0>>)
  OBVIOUS
<1>3. PICK u : u = Retired(s, g)
  OBVIOUS
<1>4. u = Without(s, {g}, p)
  BY <1>2, <1>3 DEF Retired, Without
<1>5. LeftOf(s, {g}, p, u)
  <2>1. LeftOf(s, {g}, p, Without(s, {g}, p))
    BY <1>1, WithoutFields
  <2> QED
    BY <2>1, <1>4
<1>6. p[2] = 0
  BY <1>2
<1> QED
  BY <1>3, <1>5, <1>6, LeftOrdered

(* The segment that is finished.                                             *)
LEMMA FinishedOrdered ==
  ASSUME NEW s, GoodSpool(s), Finished(s), NEW R, Ordered(s, R)
  PROVE  Ordered(Retired(s, PtrSeg(s)), R)
<1>1. PtrInSpool(s) /\ ~Readable(s) /\ PtrSeg(s) \in s.segs /\ PtrSeg(s) = s.ptr[1]
  BY DEF Finished, PtrInSpool, PtrSeg
<1>2. \A q : ~LiesIn(s, PtrSeg(s), q)
  BY <1>1, NothingLies
<1> QED
  BY <1>1, <1>2, RetiredOrdered

(* The pointer moved on, past points in R.                                   *)
LEMMA PastOrdered ==
  ASSUME NEW s, GoodSpool(s), s.ptr[1] \in s.segs, NEW end \in Pointers, end[1] = s.ptr[1],
         NEW R, Ordered(s, R),
         \A i \in s.ptr[2] + 1 .. end[2] : s.files[end[1]][i] # Torn => s.files[end[1]][i].p \in R
  PROVE  Ordered(Past(s, end), R)
<1>1. PICK g : g = s.ptr[1]
  OBVIOUS
<1>2. /\ s \in SpoolType /\ g \in s.segs /\ s.ptr[2] \in Nat /\ end[2] \in Nat
      /\ s.size[g] \in Nat /\ Len(s.files[g]) \in Nat
  <2>1. s \in SpoolType /\ g \in s.segs
    BY <1>1 DEF GoodSpool
  <2>2. g \in SegIds /\ s.ptr \in Pointers /\ s.size \in [SegIds -> Nat] /\ s.files \in [SegIds -> Seq(Lines)]
    BY <2>1 DEF SpoolType
  <2>3. s.size[g] \in Nat /\ s.files[g] \in Seq(Lines)
    BY <2>2
  <2>4. s.ptr[2] \in Nat /\ end[2] \in Nat
    BY <2>2 DEF Pointers
  <2> QED
    BY <2>1, <2>3, <2>4
<1>3. ASSUME NEW i \in 1..Len(s.files[g]), s.files[g][i] # Torn, i > s.ptr[2], i <= end[2]
      PROVE  s.files[g][i].p \in R
  <2>1. i \in s.ptr[2] + 1 .. end[2]
    BY <1>2, <1>3
  <2> QED
    BY <2>1, <1>1, <1>3
<1>4. CASE end[2] >= s.size[g] /\ g # s.cur
  <2>1. Past(s, end) = Retired(s, g)
    BY <1>1, <1>4 DEF Past
  <2>2. ASSUME NEW q, LiesIn(s, g, q) PROVE q \in R
    <3>1. PICK i \in 1..Len(s.files[g]) : /\ i <= s.size[g] /\ i > s.ptr[2]
                                          /\ s.files[g][i] # Torn /\ s.files[g][i].p = q
      BY <1>1, <2>2 DEF LiesIn
    <3>2. i <= end[2]
      BY <3>1, <1>2, <1>4
    <3> QED
      BY <3>1, <3>2, <1>3
  <2> QED
    BY <2>1, <2>2, <1>2, RetiredOrdered
<1>5. CASE ~(end[2] >= s.size[g] /\ g # s.cur)
  <2>1. PICK u : u = [s EXCEPT !.ptr = end]
    OBVIOUS
  <2>2. Past(s, end) = u
    BY <2>1, <1>1, <1>5 DEF Past
  <2>3. u.ptr = end /\ u.segs = s.segs /\ u.files = s.files /\ u.size = s.size
    BY <2>1, <1>2 DEF SpoolType
  <2>4. ASSUME NEW h \in s.segs, NEW i \in 1..Len(s.files[h]), Stands(s, h, i)
        PROVE  s.files[h][i].p \in R \/ Stands(u, h, i)
    <3>1. CASE h = g /\ i <= end[2]
      BY <3>1, <2>4, <1>1, <1>3 DEF Stands
    <3>2. CASE ~(h = g /\ i <= end[2])
      <4>1. i \in Nat
        BY <2>4
      <4>2. h = u.ptr[1] => i > u.ptr[2]
        BY <3>2, <4>1, <1>1, <1>2, <2>3
      <4> QED
        BY <4>2, <2>3, <2>4 DEF Stands
    <3> QED
      BY <3>1, <3>2
  <2> QED
    BY <2>2, <2>3, <2>4, OrderedKept
<1> QED
  BY <1>4, <1>5

(* A torn end stepped over.                                                  *)
LEMMA SkipTornOrdered ==
  ASSUME NEW s, GoodSpool(s), Exhausted(s), NEW R, Ordered(s, R)
  PROVE  Ordered(SkipTorn(s), R)
<1>1. CASE ~(PtrInSpool(s) /\ s.ptr[2] < s.size[PtrSeg(s)])
  BY <1>1 DEF SkipTorn
<1>2. CASE PtrInSpool(s) /\ s.ptr[2] < s.size[PtrSeg(s)]
  <2>1. PICK g, n : g = s.ptr[1] /\ n = Len(s.files[s.ptr[1]])
    OBVIOUS
  <2>2. PICK u : u = [s EXCEPT !.ptr = <<g, n>>]
    OBVIOUS
  <2>3. SkipTorn(s) = u
    BY <1>2, <2>1, <2>2 DEF SkipTorn
  <2>4. u.ptr = <<g, n>> /\ u.segs = s.segs /\ u.files = s.files /\ u.size = s.size
    BY <2>2 DEF GoodSpool, SpoolType
  <2>5. ~Readable(s)
    BY <1>2 DEF Exhausted
  <2>6. ASSUME NEW h \in s.segs, NEW i \in 1..Len(s.files[h]), Stands(s, h, i)
        PROVE  Stands(u, h, i)
    <3>1. LiesIn(s, h, s.files[h][i].p)
      BY <2>6 DEF LiesIn, Stands
    <3>2. h # g
      BY <1>2, <2>1, <2>5, <3>1, NothingLies
    <3> QED
      BY <2>4, <2>6, <3>2 DEF Stands
  <2> QED
    BY <2>3, <2>4, <2>6, OrderedKept
<1> QED
  BY <1>1, <1>2

(* A line cut off by a kill.                                                 *)
LEMMA TornOrdered ==
  ASSUME NEW s, GoodSpool(s), Newest(s), s.open, NEW R, Ordered(s, R)
  PROVE  Ordered(TornEnd(s), R)
<1>1. s \in SpoolType /\ s.cur \in SegIds /\ s.segs # {}
  BY DEF GoodSpool, WellFormed, SpoolType
<1>2. PICK old : old = s.files[s.cur]
  OBVIOUS
<1>3. old \in Seq(Lines) /\ Len(old) \in Nat
  BY <1>1, <1>2 DEF SpoolType
<1>4. PICK file : file = AppendLine(old, Torn)
  OBVIOUS
<1>5. /\ Len(file) \in Nat /\ Len(old) <= Len(file) /\ \A i \in 1..Len(old) : file[i] = old[i]
      /\ \A i \in Len(old) + 1 .. Len(file) : file[i] = Torn
  <2>1. CASE file = old
    BY <2>1, <1>3
  <2>2. CASE file = Append(old, Torn)
    BY <2>2, <1>3
  <2> QED
    BY <2>1, <2>2, <1>4 DEF AppendLine
<1>6. PICK fs : fs = [s.files EXCEPT ![s.cur] = file]
  OBVIOUS
<1>7. PICK t : t = TornEnd(s)
  OBVIOUS
<1>8. t = [s EXCEPT !.files = fs, !.open = FALSE]
  BY <1>2, <1>4, <1>6, <1>7 DEF TornEnd
<1>9. t.files = fs /\ t.ptr = s.ptr /\ t.segs = s.segs /\ t.size = s.size
  BY <1>1, <1>8 DEF SpoolType
<1>10. s.size \in [SegIds -> Nat]
  BY <1>1 DEF SpoolType
<1>11. \A g \in SegIds : t.size[g] \in Nat /\ (t.size[g] >= s.size[g] \/ t.size[g] >= Len(s.files[g]))
  BY <1>9, <1>10
<1>12. \A k \in Len(s.files[s.cur]) + 1 .. Len(file) : file[k] # Torn => Led(s, file[k].p, R)
  BY <1>2, <1>5
<1>13. /\ t.segs = s.segs /\ t.ptr = s.ptr /\ t.files = [s.files EXCEPT ![s.cur] = file]
       /\ Len(s.files[s.cur]) <= Len(file) /\ \A i \in 1..Len(s.files[s.cur]) : file[i] = s.files[s.cur][i]
  BY <1>2, <1>5, <1>6, <1>9
<1>14. Ordered(t, R)
  BY <1>1, <1>5, <1>11, <1>12, <1>13, GrownOrdered
<1> QED
  BY <1>7, <1>14

(* What a start finds: every line, and the reader no further on.             *)
LEMMA LoadedOrdered ==
  ASSUME NEW s, GoodSpool(s), s.onDisk \subseteq s.segs, NEW at \in Pointers, Aimed(s, at), NEW R, Ordered(s, R)
  PROVE  Ordered(Loaded(s, at), R)
<1>1. PICK t : t = Loaded(s, at)
  OBVIOUS
<1>2. PICK ne : ne = NonEmpty(s)
  OBVIOUS
<1>3. /\ t.segs = ne /\ t.files = s.files /\ t.ptr = ResumeAt(s, at)
      /\ t.size = [g \in SegIds |-> IF g \in ne THEN Len(s.files[g]) ELSE 0]
  BY <1>1, <1>2 DEF Loaded
<1>4. ne \subseteq s.segs /\ s.segs \subseteq SegIds /\ s.files \in [SegIds -> Seq(Lines)]
  BY <1>2 DEF NonEmpty, GoodSpool, SpoolType
<1>5. at[2] \in Nat /\ s.ptr[2] \in Nat
  BY DEF Pointers, GoodSpool, SpoolType
<1>6. t.ptr[2] = 0 \/ (t.ptr = at /\ at[1] \in ne)
  BY <1>2, <1>3 DEF ResumeAt, Oldest, NoPtr
<1>7. ASSUME NEW g \in s.segs, NEW i \in 1..Len(s.files[g]), Stands(s, g, i)
      PROVE  g \in t.segs /\ Stands(t, g, i)
  <2>1. g \in SegIds /\ s.files[g] \in Seq(Lines)
    BY <1>4
  <2>2. s.files[g] # <<>> /\ Len(s.files[g]) \in Nat /\ i \in Nat /\ i > 0 /\ i <= Len(s.files[g])
    BY <2>1, <1>7
  <2>3. g \in s.onDisk
    BY <2>1, <2>2 DEF GoodSpool, WellFormed
  <2>4. g \in ne
    BY <2>2, <2>3, <1>2 DEF NonEmpty
  <2>5. i <= t.size[g]
    BY <2>1, <2>2, <2>4, <1>3
  <2>6. ASSUME g = t.ptr[1] PROVE i > t.ptr[2]
    <3>1. CASE t.ptr[2] = 0
      BY <3>1, <2>2
    <3>2. CASE t.ptr = at /\ at[1] \in ne
      <4>1. at[1] = s.ptr[1] /\ at[2] <= s.ptr[2]
        BY <3>2, <1>4 DEF Aimed
      <4>2. i > s.ptr[2]
        BY <2>6, <3>2, <4>1, <1>7 DEF Stands
      <4> QED
        BY <3>2, <4>1, <4>2, <1>5, <2>2
    <3> QED
      BY <3>1, <3>2, <1>6
  <2> QED
    BY <2>4, <2>5, <2>6, <1>3, <1>7 DEF Stands
<1> QED
  BY <1>1, <1>3, <1>4, <1>7, OrderedKept

(* A chunk read from the spool: earlier readings are in R or earlier in it.  *)
LEMMA ChunkOrdered ==
  ASSUME NEW s, GoodSpool(s), PtrInSpool(s), NEW at, Aimed(s, at), NEW R, Ordered(s, R),
         NEW i \in DOMAIN SpoolChunk(s), NEW q \in Sooner(SpoolChunk(s)[i].e.p)
  PROVE  q \in R \/ \E j \in 1..i - 1 : SpoolChunk(s)[j].e.p = q
<1>1. PICK g : g = s.ptr[1]
  OBVIOUS
<1>2. PICK off \in Nat : off = s.ptr[2]
  BY DEF GoodSpool, SpoolType, Pointers
<1>3. PICK c : c = SpoolChunk(s)
  OBVIOUS
<1>0. PICK n \in Nat : DOMAIN c = 1..n /\ c[i].e \in Entries /\ i \in 1..n
  <2>1. PICK S : S = [e : Entries, end : Pointers]
    OBVIOUS
  <2>2. c \in Seq(S) /\ i \in DOMAIN c
    BY <1>3, <2>1, SpoolChunkType
  <2>3. DOMAIN c = 1..Len(c) /\ Len(c) \in Nat /\ c[i] \in S
    BY <2>2
  <2>4. c[i].e \in Entries
    BY <2>1, <2>3
  <2> QED
    BY <2>2, <2>3, <2>4
<1>4. g \in s.segs /\ g \in Nat /\ s.segs \subseteq Nat /\ \A h \in s.segs : g <= h
  BY <1>1 DEF PtrInSpool, Aimed, GoodSpool, SpoolType, SegIds
<1>5. ASSUME NEW j \in 1..n
      PROVE  j \in Nat /\ off + j <= Len(s.files[g]) /\ s.files[g][off + j] = c[j].e
  BY <1>0, <1>1, <1>2, <1>3, <1>5, ChunkPlaces
<1>6. i \in Nat /\ i >= 1 /\ i <= n /\ off + i \in 1..Len(s.files[g]) /\ s.files[g][off + i] = c[i].e /\ c[i].e # Torn
  <2>1. Len(s.files[g]) \in Nat
    BY <1>4 DEF GoodSpool, SpoolType
  <2>2. i \in Nat /\ i >= 1 /\ i <= n /\ c[i].e # Torn
    BY <1>0, SpoolAssumption
  <2>3. off + i <= Len(s.files[g]) /\ s.files[g][off + i] = c[i].e
    BY <1>0, <1>5
  <2> QED
    BY <2>1, <2>2, <2>3, <1>2
<1>7. SUFFICES ASSUME q \notin R PROVE \E j \in 1..i - 1 : c[j].e.p = q
  BY <1>3
<1>8. q \in Sooner(s.files[g][off + i].p)
  BY <1>3, <1>6
<1>9. InFront(s, g, off + i, q)
  BY <1>4, <1>6, <1>7, <1>8 DEF Ordered
<1>10. PICK h \in s.segs : \E k \in 1..Len(s.files[h]) :
         Stands(s, h, k) /\ s.files[h][k].p = q /\ (h < g \/ (h = g /\ k < off + i))
  BY <1>9 DEF InFront
<1>11. PICK k \in 1..Len(s.files[h]) :
         Stands(s, h, k) /\ s.files[h][k].p = q /\ (h < g \/ (h = g /\ k < off + i))
  BY <1>10
<1>12. h \in Nat /\ g <= h
  BY <1>4
<1>13. h = g /\ k < off + i
  BY <1>4, <1>11, <1>12
<1>14. k > off /\ k \in Nat
  BY <1>1, <1>2, <1>11, <1>13 DEF Stands
<1>15. PICK j \in Nat : j = k - off
  BY <1>14
<1>16. j \in 1..i - 1 /\ j \in 1..n /\ off + j = k
  BY <1>0, <1>2, <1>6, <1>13, <1>14, <1>15
<1>17. c[j].e.p = q
  BY <1>5, <1>11, <1>13, <1>16
<1> QED
  BY <1>16, <1>17

(* It depends on the files alone.                                            *)
LEMMA SameLoaded ==
  ASSUME NEW s, NEW t, t.onDisk = s.onDisk, t.files = s.files, NEW at
  PROVE  Loaded(t, at) = Loaded(s, at)
<1>1. NonEmpty(t) = NonEmpty(s)
  BY DEF NonEmpty
<1>2. Oldest(t) = Oldest(s)
  BY <1>1 DEF Oldest
<1>3. ResumeAt(t, at) = ResumeAt(s, at)
  BY <1>1, <1>2 DEF ResumeAt
<1> QED
  BY <1>1, <1>3 DEF Loaded

-----------------------------------------------------------------------------
(* What lies in a spool only grows by what is written *)

(* Every segment of t is a new, empty one or one of s, the same, and with no *)
(* more of it behind the pointer.                                            *)
Narrower(s, t) ==
  \A g \in t.segs :
    \/ t.size[g] = 0
    \/ /\ g \in s.segs /\ t.files[g] = s.files[g] /\ t.size[g] = s.size[g]
       /\ g = s.ptr[1] => g = t.ptr[1] /\ s.ptr[2] <= t.ptr[2]

(* So what lies in it lay there before.                                      *)
LEMMA NarrowerLies ==
  ASSUME NEW s, GoodSpool(s), NEW t, GoodSpool(t), Narrower(s, t), NEW p, Lies(t, p)
  PROVE  Lies(s, p)
<1>1. PICK g \in t.segs : LiesIn(t, g, p)
  BY DEF Lies
<1>2. PICK i \in 1..Len(t.files[g]) :
        /\ i <= t.size[g] /\ t.files[g][i] # Torn /\ t.files[g][i].p = p
        /\ g = t.ptr[1] => i > t.ptr[2]
  BY <1>1 DEF LiesIn
<1>3. i \in Nat /\ i >= 1 /\ s.ptr[2] \in Nat /\ t.ptr[2] \in Nat
  <2>1. g \in SegIds /\ t.files \in [SegIds -> Seq(Lines)] /\ s.ptr \in Pointers /\ t.ptr \in Pointers
    BY DEF GoodSpool, SpoolType
  <2>2. Len(t.files[g]) \in Nat
    BY <2>1
  <2> QED
    BY <2>1, <2>2 DEF Pointers
<1>4. t.size[g] # 0
  BY <1>2, <1>3
<1>5. /\ g \in s.segs /\ t.files[g] = s.files[g] /\ t.size[g] = s.size[g]
      /\ g = s.ptr[1] => g = t.ptr[1] /\ s.ptr[2] <= t.ptr[2]
  BY <1>4 DEF Narrower
<1>6. g = s.ptr[1] => i > s.ptr[2]
  BY <1>2, <1>3, <1>5
<1>7. LiesIn(s, g, p)
  BY <1>2, <1>5, <1>6 DEF LiesIn
<1> QED
  BY <1>5, <1>7 DEF Lies

(* Retiring the segment the pointer is in narrows the spool.                 *)
LEMMA RetiredNarrower ==
  ASSUME NEW s, s \in SpoolType, NEW g, g = s.ptr[1]
  PROVE  Narrower(s, Retired(s, g)) /\ Retired(s, g).segs = s.segs \ {g}
<1>1. PICK p : p = (IF s.segs \ {g} # {} THEN <<Min(s.segs \ {g}), 0>> ELSE <<g + 1, 0>>)
  OBVIOUS
<1>2. PICK u : u = Retired(s, g)
  OBVIOUS
<1>3. u = Without(s, {g}, p)
  BY <1>1, <1>2 DEF Retired, Without
<1>4. LeftOf(s, {g}, p, u)
  <2>1. LeftOf(s, {g}, p, Without(s, {g}, p))
    BY WithoutFields
  <2> QED
    BY <2>1, <1>3
<1>5. u.segs = s.segs \ {g} /\ \A h \in SegIds : h # g => u.files[h] = s.files[h] /\ u.size[h] = s.size[h]
  BY <1>4 DEF LeftOf
<1>6. s.segs \subseteq SegIds
  BY DEF SpoolType
<1> QED
  BY <1>2, <1>5, <1>6 DEF Narrower

(* So does starting one then: what it adds is empty.                         *)
LEMMA StartedNarrower ==
  ASSUME NEW s, s \in SpoolType, CanStart(s), NEW r, Narrower(r, s), r.ptr[1] \notin s.segs
  PROVE  Narrower(r, Started(s))
<1>1. PICK n : n = NextSegment(s)
  OBVIOUS
<1>2. PICK u : u = Started(s)
  OBVIOUS
<1>3. /\ n \in SegIds /\ \A g \in s.segs : n > g
      /\ u.segs = s.segs \cup {n} /\ u.files = s.files /\ u.size = [s.size EXCEPT ![n] = 0]
  BY <1>1, <1>2, StartedFields
<1>4. s.segs \subseteq SegIds /\ s.size \in [SegIds -> Nat]
  BY DEF SpoolType
<1>5. u.size[n] = 0
  BY <1>3, <1>4
<1>6. ASSUME NEW g \in s.segs PROVE u.files[g] = s.files[g] /\ u.size[g] = s.size[g]
  <2>1. g # n /\ g \in SegIds
    BY <1>3, <1>4 DEF SegIds
  <2> QED
    BY <1>3, <1>4, <2>1
<1> QED
  BY <1>2, <1>3, <1>5, <1>6 DEF Narrower

(* The pointer moved on narrows it.                                          *)
LEMMA PastNarrower ==
  ASSUME NEW s, s \in SpoolType, NEW end, end[1] = s.ptr[1], s.ptr[2] <= end[2]
  PROVE  Narrower(s, Past(s, end))
<1>1. CASE end[2] >= s.size[end[1]] /\ end[1] # s.cur
  BY <1>1, RetiredNarrower DEF Past
<1>2. CASE ~(end[2] >= s.size[end[1]] /\ end[1] # s.cur)
  <2>1. PICK u : u = [s EXCEPT !.ptr = end]
    OBVIOUS
  <2>2. u.segs = s.segs /\ u.files = s.files /\ u.size = s.size /\ u.ptr = end
    BY <2>1 DEF SpoolType
  <2> QED
    BY <1>2, <2>1, <2>2 DEF Past, Narrower
<1> QED
  BY <1>1, <1>2

(* With nothing to read at the pointer nothing lies in the spool, a line cut *)
(* off at its end stepped over or not.                                       *)
LEMMA ExhaustedEmpty ==
  ASSUME NEW s, GoodSpool(s), s.segs # {}, NEW at, Aimed(s, at), Newest(s), Exhausted(s), NEW p
  PROVE  ~Lies(s, p) /\ ~Lies(SkipTorn(s), p)
<1>1. PtrInSpool(s)
  BY DEF Aimed, PtrInSpool
<1>2. ~Readable(s) /\ s.ptr[1] = s.cur
  BY <1>1 DEF Exhausted, PtrSeg
<1>3. s \in SpoolType /\ s.segs \subseteq Nat /\ s.ptr[1] \in SegIds /\ s.ptr \in Pointers
  BY <1>1 DEF GoodSpool, SpoolType, SegIds, PtrInSpool
<1>4. ASSUME NEW g \in s.segs PROVE g = s.ptr[1]
  <2>1. s.ptr[1] <= g /\ g <= s.ptr[1]
    BY <1>2 DEF Aimed, Newest
  <2> QED
    BY <1>3, <2>1 DEF SegIds
<1>5. ~LiesIn(s, s.ptr[1], p)
  BY <1>1, <1>2, NothingLies
<1>6. ~Lies(s, p)
  BY <1>4, <1>5 DEF Lies
<1>7. ~Lies(SkipTorn(s), p)
  <2>1. CASE SkipTorn(s) = s
    BY <1>6, <2>1
  <2>2. CASE SkipTorn(s) # s
    <3>1. PICK n : n = Len(s.files[s.ptr[1]])
      OBVIOUS
    <3>2. SkipTorn(s) = [s EXCEPT !.ptr = <<s.ptr[1], n>>]
      BY <2>2, <3>1 DEF SkipTorn
    <3>3. PICK u : u = SkipTorn(s)
      OBVIOUS
    <3>4. u.segs = s.segs /\ u.files = s.files /\ u.size = s.size /\ u.ptr = <<s.ptr[1], n>>
      BY <1>3, <3>2, <3>3 DEF SpoolType
    <3>5. ASSUME NEW i \in 1..n PROVE ~(i > n)
      <4>1. n \in Nat
        BY <1>3, <3>1 DEF SpoolType
      <4> QED
        BY <4>1
    <3>6. ~LiesIn(u, s.ptr[1], p)
      BY <3>1, <3>4, <3>5 DEF LiesIn
    <3>7. ~Lies(u, p)
      BY <1>4, <3>4, <3>6 DEF Lies
    <3> QED
      BY <3>3, <3>7
  <2> QED
    BY <2>1, <2>2
<1> QED
  BY <1>6, <1>7

(* With nothing counted behind the pointer nothing lies in the spool.        *)
LEMMA CountedEmpty ==
  ASSUME NEW s, GoodSpool(s), NEW at, Aimed(s, at), \A g \in LaterSegs(s) : ~(s.size[g] > 0),
         ~(PtrInSpool(s) /\ s.size[PtrSeg(s)] > s.ptr[2]), NEW p
  PROVE  ~Lies(s, p)
<1>1. SUFFICES ASSUME NEW g \in s.segs, NEW i \in 1..Len(s.files[g]), i <= s.size[g],
                      g = s.ptr[1] => i > s.ptr[2]
               PROVE  FALSE
  BY DEF Lies, LiesIn
<1>2. /\ g \in SegIds /\ s.size[g] \in Nat /\ Len(s.files[g]) \in Nat /\ s.ptr[2] \in Nat
      /\ s.ptr[1] \in Nat /\ g \in Nat /\ s.ptr[1] <= g
  <2>1. g \in SegIds /\ s.size \in [SegIds -> Nat] /\ s.files \in [SegIds -> Seq(Lines)] /\ s.ptr \in Pointers
    BY <1>1 DEF GoodSpool, SpoolType
  <2>2. s.ptr[1] <= g
    BY <1>1 DEF Aimed
  <2>3. s.size[g] \in Nat /\ s.files[g] \in Seq(Lines)
    BY <2>1
  <2> QED
    BY <2>1, <2>2, <2>3 DEF Pointers, SegIds
<1>3. CASE g = s.ptr[1]
  <2>1. s.size[g] > s.ptr[2]
    BY <1>1, <1>2, <1>3
  <2> QED
    BY <1>1, <1>3, <2>1 DEF PtrInSpool, PtrSeg
<1>4. CASE g # s.ptr[1]
  <2>1. g > s.ptr[1] /\ s.size[g] > 0
    BY <1>1, <1>2, <1>4
  <2> QED
    BY <1>1, <2>1 DEF LaterSegs
<1> QED
  BY <1>3, <1>4
=============================================================================
