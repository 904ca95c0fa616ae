------------------------- MODULE ControlLoop_proofs -------------------------
(***************************************************************************)
(* What holds of a control's process for any documents, devices, limits    *)
(* and bounds: its log is true, a shut gate leaves no device on a rung, a  *)
(* held integral is bounded, and the process implements MinimumHold.       *)
(*                                                                         *)
(* After the invariant, the planner: whatever it plans is made of rungs of *)
(* the ladder, and of ones that keep what is frozen where there are any.   *)
(* Then each part of the invariant, step by step, and the refinement.      *)
(***************************************************************************)
EXTENDS ControlLoop, Staging_proofs

-----------------------------------------------------------------------------
(***************************************************************************)
(* The inductive invariant.                                                *)
(***************************************************************************)
Phases == {"down", "deciding", "stepping", "turning", "dwelling", "resting"} \cup Commanding
InWindow == {"turning", "window", "dwelling"}
Identities == {p.identity[d] : p \in Documents, d \in Devices}
Materials == {"nothing"} \cup {p.fingerprint : p \in Documents}
Entries == [state : Int, age : 0..Longest, for : Identities, forced : BOOLEAN]
Sections == [from : Materials, age : 0..(ResumeWithin + 1)]
Integrals == [from : Materials, idle : 0..(HoldBound + 1)]
IsLog(log) == DOMAIN log \subseteq Devices /\ log \in [DOMAIN log -> Entries]
AreCommands(c) == DOMAIN c \subseteq Devices /\ c \in [DOMAIN c -> Int]

TypeOK ==
  /\ doc \in Documents /\ pc \in Phases /\ acting \in {"unknown", "yes", "no"}
  /\ AreCommands(todo) /\ AreCommands(done)
  /\ broke \in {"no", "away", "refused", "stopped"}
  /\ IsLog(entries) /\ loop \in Sections
  /\ saved = [devices |-> saved.devices, pid |-> saved.pid]
  /\ IsLog(saved.devices) /\ saved.pid \in Sections
  /\ integral \in Integrals /\ held \in -1..(HoldBound + 1) /\ auto \in BOOLEAN
  /\ dev \in States /\ since \in [Devices -> 0..Longest] /\ blind \subseteq Devices
  /\ failed \in BOOLEAN /\ outside \in BOOLEAN /\ faults \in Nat

\* A plan is one dwell or two, each with a state for every device.
PlanOK ==
  pc \in InWindow =>
    /\ plan = <<plan[1]>> \/ plan = <<plan[1], plan[2]>>
    /\ \A i \in DOMAIN plan : plan[i].rung.states \in States /\ plan[i].seconds \in 0..Cycle

\* Between rounds nothing is left to send or to record, and what is down has
\* forgotten all but the disk.
Quiet ==
  /\ pc \notin Commanding => todo = NoCommands /\ done = NoCommands /\ broke = "no"
  /\ pc = "down" => /\ entries = NoCommands /\ acting = "unknown"
                    /\ loop = NoLoop /\ integral = Fresh /\ held = NotHeld /\ auto
  /\ pc \in {"stepping", "closing"} \cup InWindow => acting = "yes"

\* The log is right of every device but those whose last change it does not
\* date, and so is the one on disk of those the one in memory does not have.
Right(entry, d) == entry.state = dev[d] /\ entry.age = since[d]
LogOK ==
  /\ \A d \in DOMAIN entries \ blind : Right(entries[d], d)
  /\ \A d \in DOMAIN saved.devices \ (DOMAIN entries \cup blind) : Right(saved.devices[d], d)

\* A device that has answered is where it was put, and has changed unless the
\* log has it there.
RoundOK ==
  /\ DOMAIN todo \cap DOMAIN done = {}
  /\ \A d \in DOMAIN done :
       /\ dev[d] = done[d]
       /\ ~Unchanged(d, done[d]) => d \in blind /\ since[d] = 0

\* Outside a window only states the document names are asked for.
ForcedOK ==
  pc \in Commanding \ {"window"} => \A d \in DOMAIN todo : todo[d] \in Forced(doc, d)

\* While no rung has been asked for, every device is in a state the document
\* names, or about to be.
LeavesNone == \A state \in Named(doc) : ~Leaves(state)
IdleOK ==
  LeavesNone =>
    /\ pc \in {"asserting", "closing"} =>
         \A d \in Devices : d \in DOMAIN todo \/ dev[d] \in Forced(doc, d)
    /\ pc \notin {"down", "asserting", "closing", "leaving"} /\ acting # "yes" =>
         \A d \in Devices : dev[d] \in Forced(doc, d)

\* An integral is of the loop in force; of a document whose cycle fails before
\* the loop is taken up, it idles exactly as long as the loop is held.
HoldOK ==
  /\ integral = Fresh \/ integral.from = LoopMaterial
  /\ auto => held = NotHeld
  /\ pc \in {"stepping"} \cup InWindow => auto
  /\ pc \in {"closing", "failing", "resting"} => ~auto
  /\ doc.gated /\ doc.total /\ integral # Fresh =>
       /\ ~auto => held = integral.idle
       /\ auto /\ pc \in {"asserting", "deciding"} \cup InWindow => integral.idle = 0
       /\ pc = "stepping" => integral.idle <= HoldBound

\* A recorded state is one the device it is recorded for can be in.
InScale(log) ==
  \A d \in DOMAIN log, p \in Documents :
    log[d].for = p.identity[d] => WithinScale(p, d, log[d].state) = log[d].state
ScaleOK ==
  /\ InScale(entries) /\ InScale(saved.devices)
  /\ \A d \in DOMAIN todo : WithinScale(doc, d, todo[d]) = todo[d]
  /\ \A d \in DOMAIN done : WithinScale(doc, d, done[d]) = done[d]

\* A dwell is some rung of the ladder, but for the values of driven devices;
\* these do not change between the dwells of a window, and what does has its
\* minimum behind it by then.
Gives(dwell, rung) == \A d \in Devices \ doc.driven : dwell.rung.states[d] = rung.states[d]
DwellsOK ==
  pc \in InWindow =>
    /\ \A i \in DOMAIN plan : \E rung \in Rungs(doc) : Gives(plan[i], rung)
    /\ plan # <<plan[1]>> =>
         \A d \in Devices :
           \/ plan[2].rung.states[d] = plan[1].rung.states[d]
           \/ d \notin doc.driven /\ doc.min[d] <= plan[1].seconds

\* The dwell about to be commanded is one a control may take; the one being
\* commanded is asked of every device; the one that lasts has them all.
WindowOK ==
  /\ pc = "turning" =>
       /\ \E rung \in Rungs(doc) : Gives(plan[1], rung) /\ Hardware!MayTake(rung)
       /\ \A d \in Hardware!Bound \cap doc.driven : Sent(doc, plan[1].rung.states)[d] = dev[d]
  /\ pc = "window" =>
       \A d \in Devices :
         \/ d \in DOMAIN todo /\ todo[d] = Sent(doc, plan[1].rung.states)[d]
         \/ d \in DOMAIN done /\ done[d] = Sent(doc, plan[1].rung.states)[d]
  /\ pc = "dwelling" => dev = Sent(doc, plan[1].rung.states)

-----------------------------------------------------------------------------
(***************************************************************************)
(* The ladder and the planner.                                             *)
(***************************************************************************)
\* A ladder whose rungs give every device a state.
LadderRungs == [level : Int, declared : Nat, states : States]
Ladder(R) == IsLadder(R) /\ R \subseteq LadderRungs

\* Some of the rungs of a ladder are a ladder.
LEMMA PartOfLadder ==
  ASSUME NEW R, Ladder(R), NEW S \in SUBSET R
  PROVE  Ladder(S)
BY PartIsLadder DEF Ladder

\* The ladder built from a document has exactly its rungs.
LEMMA BuiltLadder ==
  ASSUME NEW p \in Documents
  PROVE  /\ Ladder(BuildLadder(p.stages)) /\ BuildLadder(p.stages) # {}
         /\ \A r \in BuildLadder(p.stages) :
              \E rung \in Rungs(p) : r.level = rung.level /\ r.states = rung.states
         /\ \A rung \in Rungs(p) :
              \E r \in BuildLadder(p.stages) : r.level = rung.level /\ r.states = rung.states
<1> DEFINE At(i) == [level |-> p.stages[i].level, declared |-> i, states |-> p.stages[i].states]
           L == {At(i) : i \in DOMAIN p.stages}
<1>1. BuildLadder(p.stages) = L   BY DEF BuildLadder
<1>2. /\ DOMAIN p.stages \subseteq Nat /\ IsFiniteSet(DOMAIN p.stages) /\ DOMAIN p.stages # {}
      /\ \A rung \in Rungs(p) : rung.level \in Int /\ rung.states \in States
  BY DocumentsAssumption
<1>3. IsLadder(L) /\ L # {}
  <2>1. \A i \in DOMAIN p.stages : p.stages[i].level \in Int   BY <1>2 DEF Rungs
  <2> HIDE DEF L
  <2> QED BY <1>1, <1>2, <2>1, BuiltIsLadder
<1>4. \A i \in DOMAIN p.stages : p.stages[i] \in Rungs(p)   BY DEF Rungs
<1>5. Ladder(L) /\ L # {}
  <2>1. L \subseteq LadderRungs   BY <1>2, <1>4 DEF LadderRungs
  <2> HIDE DEF L
  <2> QED BY <1>3, <2>1 DEF Ladder
<1>6. \A r \in L : \E rung \in Rungs(p) : r.level = rung.level /\ r.states = rung.states
  BY <1>4
<1>7. \A rung \in Rungs(p) : \E r \in L : r.level = rung.level /\ r.states = rung.states
  <2> SUFFICES ASSUME NEW i \in DOMAIN p.stages
               PROVE  \E r \in L : r.level = p.stages[i].level /\ r.states = p.stages[i].states
    BY DEF Rungs
  <2> QED BY At(i) \in L
<1> QED BY <1>1, <1>5, <1>6, <1>7

\* A demand between two rungs gives every driven device a value.
LEMMA InterpolatedTyped ==
  ASSUME NEW lower \in LadderRungs, NEW upper \in LadderRungs,
         lower = upper \/ lower.level < upper.level,
         NEW demand \in Int, NEW driven \in SUBSET Devices
  PROVE  Interpolated(lower, upper, demand, driven) \in [driven -> Int]
<1> DEFINE span == upper.level - lower.level
<1>1. span \in Int /\ span >= 0   BY DEF LadderRungs
<1>2. \A d \in driven : lower.states[d] \in Int /\ upper.states[d] \in Int   BY DEF LadderRungs, States
<1>3. demand - lower.level \in Int   BY DEF LadderRungs
<1>4. ASSUME NEW d \in driven, span # 0
      PROVE  ((upper.states[d] - lower.states[d]) * (demand - lower.level)) \div span \in Int
  <2>1. (upper.states[d] - lower.states[d]) * (demand - lower.level) \in Int   BY <1>2, <1>3
  <2> QED BY <1>1, <1>4, <2>1
<1> QED BY <1>2, <1>4 DEF Interpolated

\* Holding some devices at values changes the states of these alone.
LEMMA HoldingStates ==
  ASSUME NEW rung \in LadderRungs, NEW values, \A d \in DOMAIN values : values[d] \in Int
  PROVE  /\ Holding(rung, values) \in LadderRungs
         /\ Holding(rung, values).level = rung.level
         /\ \A d \in Devices : Holding(rung, values).states[d] =
                               IF d \in DOMAIN values THEN values[d] ELSE rung.states[d]
BY DEF Holding, LadderRungs, States

\* What every plan of a ladder is: one dwell or two, each some rung of it but
\* for driven devices, and what changes between two has stayed long enough.
IsPlan(p, ladder, seconds, min, driven) ==
  /\ p = <<p[1]>> \/ p = <<p[1], p[2]>>
  /\ \A i \in DOMAIN p :
       /\ p[i].rung \in LadderRungs /\ p[i].seconds \in 0..seconds
       /\ \E r \in ladder : \A d \in Devices \ driven : p[i].rung.states[d] = r.states[d]
  /\ p # <<p[1]>> =>
       \A d \in Devices : \/ p[2].rung.states[d] = p[1].rung.states[d]
                          \/ d \notin driven /\ min[d] <= p[1].seconds

\* PlanWindow makes a plan of its ladder.
LEMMA WindowIsPlan ==
  ASSUME NEW ladder, Ladder(ladder), ladder # {}, NEW curve, Ladder(curve), curve # {},
         NEW demand \in Int, NEW seconds \in Nat, NEW min, NEW driven \in SUBSET Devices
  PROVE  IsPlan(PlanWindow(ladder, demand, seconds, min, driven, curve),
                ladder, seconds, min, driven)
<1> DEFINE b == Bracket(ladder, demand)
           lower == b[1]
           upper == b[2]
           c == Bracket(curve, demand)
           frozen == Interpolated(c[1], c[2], demand, driven)
           span == upper.level - lower.level
           upperSeconds == (seconds * (demand - lower.level)) \div span
           lowerSeconds == seconds - upperSeconds
           kept == /\ MinimumTransition(lower, upper, lowerSeconds, min, driven)
                   /\ MinimumTransition(lower, upper, upperSeconds, min, driven)
           nearer == IF 2 * (demand - lower.level) >= span THEN upper ELSE lower
           atLower == Holding(lower, frozen)
           atUpper == Holding(upper, frozen)
           p == PlanWindow(ladder, demand, seconds, min, driven, curve)
<1>1. /\ lower \in ladder /\ upper \in ladder
      /\ lower = upper \/ (lower.level < demand /\ demand < upper.level)
  BY BracketOfLadder DEF Ladder
<1>2. /\ c[1] \in curve /\ c[2] \in curve
      /\ c[1] = c[2] \/ (c[1].level < demand /\ demand < c[2].level)
  BY BracketOfLadder DEF Ladder
<1>3. lower \in LadderRungs /\ upper \in LadderRungs /\ c[1] \in LadderRungs /\ c[2] \in LadderRungs
  BY <1>1, <1>2 DEF Ladder
<1>4. frozen \in [driven -> Int]
  <2>1. c[1] = c[2] \/ c[1].level < c[2].level   BY <1>2, <1>3 DEF LadderRungs
  <2> QED BY <1>3, <2>1, InterpolatedTyped
<1>5. ASSUME NEW r \in ladder
      PROVE  /\ Holding(r, frozen) \in LadderRungs
             /\ \A d \in Devices : Holding(r, frozen).states[d] =
                                     IF d \in driven THEN frozen[d] ELSE r.states[d]
  <2>1. r \in LadderRungs   BY DEF Ladder
  <2> QED BY <1>4, <2>1, HoldingStates
<1>6. nearer \in ladder   BY <1>1
<1>7. ASSUME NEW r \in ladder, NEW level, p = <<[rung |-> Holding(r, frozen), seconds |-> seconds, level |-> level]>>
      PROVE  IsPlan(p, ladder, seconds, min, driven)
  <2> HIDE DEF p, frozen
  <2>1. p = <<p[1]>> /\ DOMAIN p = {1} /\ p[1].rung = Holding(r, frozen) /\ p[1].seconds = seconds
    BY <1>7
  <2>2. p[1].rung \in LadderRungs /\ \A d \in Devices \ driven : p[1].rung.states[d] = r.states[d]
    BY <1>5, <2>1
  <2> QED BY <2>1, <2>2 DEF IsPlan
<1>8. CASE lower = upper
  <2>1. p = <<[rung |-> atLower, seconds |-> seconds, level |-> DwellLevel(atLower, curve, driven, demand)]>>
    BY <1>8 DEF PlanWindow
  <2> QED BY <1>1, <1>7, <2>1
<1>9. CASE lower # upper /\ ~kept
  <2>1. p = <<[rung |-> Holding(nearer, frozen), seconds |-> seconds, level |-> nearer.level]>>
    BY <1>9 DEF PlanWindow
  <2> QED BY <1>6, <1>7, <2>1
<1>10. CASE lower # upper /\ kept /\ atLower.states = atUpper.states
  <2>1. p = <<[rung |-> atLower, seconds |-> seconds, level |-> DwellLevel(atLower, curve, driven, demand)]>>
    BY <1>10 DEF PlanWindow
  <2> QED BY <1>1, <1>7, <2>1
<1>11. CASE lower # upper /\ kept /\ atLower.states # atUpper.states
  <2>1. p = <<[rung |-> atLower, seconds |-> lowerSeconds, level |-> lower.level],
              [rung |-> atUpper, seconds |-> upperSeconds, level |-> upper.level]>>
    BY <1>11 DEF PlanWindow
  <2>2. upperSeconds \in 0..seconds
    <3>1. lower.level \in Int /\ upper.level \in Int   BY <1>3 DEF LadderRungs
    <3> DEFINE above == demand - lower.level
    <3>2. 0 < above /\ above < span /\ span \in Int /\ above \in Int
      BY <1>1, <1>11, <3>1
    <3> HIDE DEF above, span
    <3>3. (seconds * above) \div span \in 0..seconds   BY <3>2, PartOfWindow
    <3> QED BY <3>3 DEF above
  <2>3. lowerSeconds \in 0..seconds   BY <2>2
  <2>4. MinimumTransition(lower, upper, lowerSeconds, min, driven)   BY <1>11
  <2>5. \A d \in Devices \ driven : lower.states[d] # upper.states[d] => min[d] <= lowerSeconds
    BY <1>3, <2>4 DEF MinimumTransition, LadderRungs, States
  <2>6. /\ atLower \in LadderRungs /\ atUpper \in LadderRungs
        /\ \A d \in Devices : atLower.states[d] = IF d \in driven THEN frozen[d] ELSE lower.states[d]
        /\ \A d \in Devices : atUpper.states[d] = IF d \in driven THEN frozen[d] ELSE upper.states[d]
    BY <1>1, <1>5
  <2> HIDE DEF p, frozen, atLower, atUpper, lowerSeconds, upperSeconds, lower, upper
  <2>7. /\ p = <<p[1], p[2]>> /\ DOMAIN p = {1, 2} /\ p # <<p[1]>>
        /\ p[1].rung = atLower /\ p[1].seconds = lowerSeconds
        /\ p[2].rung = atUpper /\ p[2].seconds = upperSeconds
    BY <2>1
  <2>8. \A d \in Devices \ driven : /\ p[1].rung.states[d] = lower.states[d]
                                    /\ p[2].rung.states[d] = upper.states[d]
    BY <2>6, <2>7
  <2>9. \A d \in Devices : \/ p[2].rung.states[d] = p[1].rung.states[d]
                           \/ d \notin driven /\ min[d] <= p[1].seconds
    BY <2>5, <2>6, <2>7
  <2>10. IsPlan(p, ladder, seconds, min, driven)
    <3>1. \A i \in {1, 2} : \E r \in ladder : \A d \in Devices \ driven : p[i].rung.states[d] = r.states[d]
      BY <2>8, <1>1 DEF lower, upper
    <3> QED BY <2>2, <2>3, <2>6, <2>7, <2>9, <3>1 DEF IsPlan
  <2> QED BY <2>10 DEF p
<1> QED BY <1>8, <1>9, <1>10, <1>11

\* The devices a plan keeps where they are.
Pins(p, values) == \A i \in DOMAIN p, d \in DOMAIN values : p[i].rung.states[d] = values[d]

\* Pinning driven devices leaves a plan of the ladder, with these where they were.
LEMMA PinnedIsPlan ==
  ASSUME NEW ladder, NEW seconds \in Nat, NEW min, NEW driven \in SUBSET Devices,
         NEW p, IsPlan(p, ladder, seconds, min, driven),
         NEW pinned, DOMAIN pinned \subseteq driven, \A d \in DOMAIN pinned : pinned[d] \in Int,
         NEW curve,
         NEW q, q = PinnedPlan(p, pinned, curve, driven)
  PROVE  /\ IsPlan(q, ladder, seconds, min, driven)
         /\ Pins(q, pinned)
<1>1. CASE DOMAIN pinned = {}
  BY <1>1 DEF PinnedPlan, Pins
<1>2. CASE DOMAIN pinned # {}
  <2>1. /\ DOMAIN q = DOMAIN p
        /\ \A i \in DOMAIN p : /\ q[i].rung = Holding(p[i].rung, pinned)
                               /\ q[i].seconds = p[i].seconds
        /\ q = [i \in DOMAIN p |-> q[i]]
    BY <1>2 DEF PinnedPlan
  <2>2. \A i \in DOMAIN p : p[i].rung \in LadderRungs   BY DEF IsPlan
  <2>3. \A i \in DOMAIN q :
          /\ q[i].rung \in LadderRungs /\ q[i].seconds = p[i].seconds
          /\ \A d \in Devices : q[i].rung.states[d] = IF d \in DOMAIN pinned THEN pinned[d] ELSE p[i].rung.states[d]
    BY <2>1, <2>2, HoldingStates
  <2>4. p = <<p[1]>> \/ p = <<p[1], p[2]>>   BY DEF IsPlan
  <2>5. q = <<q[1]>> \/ q = <<q[1], q[2]>>   BY <2>1, <2>4
  <2>6. \A i \in DOMAIN q :
          \E r \in ladder : \A d \in Devices \ driven : q[i].rung.states[d] = r.states[d]
    <3> SUFFICES ASSUME NEW i \in DOMAIN q
                 PROVE  \E r \in ladder : \A d \in Devices \ driven : q[i].rung.states[d] = r.states[d]
      OBVIOUS
    <3>1. PICK r \in ladder : \A d \in Devices \ driven : p[i].rung.states[d] = r.states[d]
      BY <2>1 DEF IsPlan
    <3> QED BY <2>3, <3>1
  <2>7. ASSUME q # <<q[1]>>, NEW d \in Devices
        PROVE  \/ q[2].rung.states[d] = q[1].rung.states[d]
               \/ d \notin driven /\ min[d] <= q[1].seconds
    <3>1. p # <<p[1]>> /\ DOMAIN p = {1, 2}   BY <2>1, <2>4, <2>7
    <3>2. \/ p[2].rung.states[d] = p[1].rung.states[d]
          \/ d \notin driven /\ min[d] <= p[1].seconds
      BY <3>1 DEF IsPlan
    <3> QED BY <2>1, <2>3, <3>1, <3>2
  <2>8. \A i \in DOMAIN q : q[i].rung \in LadderRungs /\ q[i].seconds \in 0..seconds
    BY <2>1, <2>3 DEF IsPlan
  <2>9. IsPlan(q, ladder, seconds, min, driven)
    BY <2>5, <2>6, <2>7, <2>8 DEF IsPlan
  <2>10. DOMAIN pinned \subseteq Devices   OBVIOUS
  <2> QED BY <2>3, <2>9, <2>10 DEF Pins
<1> QED BY <1>1, <1>2

-----------------------------------------------------------------------------
(***************************************************************************)
(* Types.                                                                  *)
(***************************************************************************)
\* The limits are naturals, and a cycle takes time.
LEMMA NumberFacts ==
  /\ Cycle \in Nat /\ Cycle > 0 /\ Longest \in Nat /\ ResumeWithin \in Nat /\ HoldBound \in Nat
  /\ MaxFaults \in Nat
BY NumbersAssumption

\* The empty function is a set of commands and a log.
LEMMA NoCommandsTyped == AreCommands(NoCommands) /\ DOMAIN NoCommands = {} /\ IsLog(NoCommands)
BY DEF AreCommands, NoCommands, IsLog

\* A named state that is not to be left alone gives every device a state.
LEMMA CommandsTyped ==
  ASSUME NEW p \in Documents, NEW state \in {p.safe, p.end}, ~Leaves(state)
  PROVE  CommandsFor(p, state) \in States
<1>1. /\ state.kind \in {"unenergised", "energised", "value"}
      /\ state.value \in Int /\ p.full \in Nat
  BY DocumentsAssumption DEF Leaves
<1> QED BY <1>1 DEF CommandsFor, States

\* A value brought within its scale stays there.
LEMMA WithinScaleTyped ==
  ASSUME NEW p \in Documents, NEW d, NEW v \in Int
  PROVE  /\ WithinScale(p, d, v) \in Int
         /\ WithinScale(p, d, WithinScale(p, d, v)) = WithinScale(p, d, v)
         /\ d \notin p.driven => WithinScale(p, d, v) = v
<1>1. p.full \in Nat   BY DocumentsAssumption
<1> QED BY <1>1 DEF WithinScale

\* What is sent is one state for each device, within its scale.
LEMMA SentTyped ==
  ASSUME NEW p \in Documents, NEW c \in States
  PROVE  /\ Sent(p, c) \in States /\ AreCommands(Sent(p, c)) /\ DOMAIN Sent(p, c) = Devices
         /\ \A d \in Devices : /\ Sent(p, c)[d] = WithinScale(p, d, c[d])
                               /\ WithinScale(p, d, Sent(p, c)[d]) = Sent(p, c)[d]
                               /\ d \notin p.driven => Sent(p, c)[d] = c[d]
<1>1. DOMAIN c = Devices /\ \A d \in Devices : c[d] \in Int   BY DEF States
<1>2. \A d \in Devices : /\ WithinScale(p, d, c[d]) \in Int
                         /\ WithinScale(p, d, WithinScale(p, d, c[d])) = WithinScale(p, d, c[d])
                         /\ d \notin p.driven => WithinScale(p, d, c[d]) = c[d]
  BY <1>1, WithinScaleTyped
<1>3. Sent(p, c) = [d \in Devices |-> WithinScale(p, d, c[d])]   BY <1>1 DEF Sent
<1> HIDE DEF States
<1>4. Sent(p, c) \in States   BY <1>2, <1>3 DEF States
<1> QED BY <1>1, <1>2, <1>3, <1>4 DEF AreCommands, States

\* What a forced command leaves to send: each device's place in a state the
\* document names.
LEMMA Commanded ==
  ASSUME TypeOK, NEW state \in Named(doc), NEW next, NEW otherwise,
         Command(state, next, otherwise)
  PROVE  /\ AreCommands(todo')
         /\ \A d \in DOMAIN todo' : /\ todo'[d] \in Forced(doc, d)
                                    /\ WithinScale(doc, d, todo'[d]) = todo'[d]
         /\ \/ Leaves(state) /\ pc' = otherwise /\ todo' = NoCommands
            \/ ~Leaves(state) /\ pc' = next /\ DOMAIN todo' = Devices
<1>1. doc \in Documents /\ state \in {doc.safe, doc.end}   BY DEF TypeOK, Named
<1>2. CASE Leaves(state)   BY <1>2, NoCommandsTyped DEF Command
<1>3. CASE ~Leaves(state)
  <2>1. pc' = next /\ todo' = Sent(doc, CommandsFor(doc, state))   BY <1>3 DEF Command
  <2>2. CommandsFor(doc, state) \in States   BY <1>1, <1>3, CommandsTyped
  <2>3. \A d \in Devices : todo'[d] \in Forced(doc, d)   BY <1>3, <2>1 DEF Forced
  <2> QED BY <1>1, <1>3, <2>1, <2>2, <2>3, SentTyped
<1> QED BY <1>2, <1>3

\* The states the process puts its devices in are ones the document names.
LEMMA NamedStates ==
  ASSUME TypeOK
  PROVE  /\ doc.safe \in Named(doc) /\ ClosingState \in Named(doc)
         /\ \A inside \in (IF doc.period THEN BOOLEAN ELSE {TRUE}) :
              StartingState(inside) \in Named(doc)
BY DEF TypeOK, Named, ClosingState, StartingState

\* What record makes of a log is a log, of what was in it or has been answered.
LEMMA RecordedTyped ==
  ASSUME TypeOK, NEW c, AreCommands(c), NEW forced \in BOOLEAN
  PROVE  /\ IsLog(Recorded(c, forced))
         /\ DOMAIN Recorded(c, forced) = DOMAIN entries \cup DOMAIN c
         /\ \A d \in DOMAIN entries \cup DOMAIN c :
              Recorded(c, forced)[d] =
                IF d \notin DOMAIN c THEN entries[d]
                ELSE IF Unchanged(d, c[d]) THEN [entries[d] EXCEPT !.forced = @ /\ forced]
                ELSE [state |-> c[d], age |-> 0, for |-> Identity(d), forced |-> forced]
<1>1. \A d \in DOMAIN entries : entries[d] \in Entries   BY DEF TypeOK, IsLog
<1>2. \A d \in DOMAIN c : d \in Devices /\ c[d] \in Int   BY DEF AreCommands
<1>3. \A d \in Devices : Identity(d) \in Identities   BY DEF TypeOK, Identity, Identities
<1>4. DOMAIN entries \subseteq Devices   BY DEF TypeOK, IsLog
<1>5. ASSUME NEW d \in DOMAIN c, Unchanged(d, c[d])
      PROVE  d \in DOMAIN entries /\ [entries[d] EXCEPT !.forced = @ /\ forced] \in Entries
  <2>1. d \in DOMAIN entries /\ entries[d] \in Entries   BY <1>1, <1>5 DEF Unchanged
  <2>2. entries[d].forced \in BOOLEAN   BY <2>1 DEF Entries
  <2>3. (entries[d].forced /\ forced) \in BOOLEAN   OBVIOUS
  <2> QED BY <2>1, <2>3 DEF Entries
<1>6. ASSUME NEW d \in DOMAIN c
      PROVE  [state |-> c[d], age |-> 0, for |-> Identity(d), forced |-> forced] \in Entries
  BY <1>2, <1>3, NumberFacts DEF Entries
<1> QED BY <1>1, <1>2, <1>4, <1>5, <1>6 DEF Recorded, IsLog

\* An age stays within its limit.
LEMMA AgedTyped ==
  ASSUME NEW limit \in Nat, NEW age \in 0..limit, NEW n \in Nat
  PROVE  Aged(age, n, limit) \in 0..limit
BY DEF Aged

\* The passing of time changes only the ages of a log.
LEMMA AgedLogTyped ==
  ASSUME NEW log, IsLog(log), NEW n \in Nat
  PROVE  /\ IsLog(AgedLog(log, n)) /\ DOMAIN AgedLog(log, n) = DOMAIN log
         /\ \A d \in DOMAIN log :
              /\ AgedLog(log, n)[d].state = log[d].state /\ AgedLog(log, n)[d].for = log[d].for
              /\ AgedLog(log, n)[d].forced = log[d].forced
              /\ AgedLog(log, n)[d].age = Aged(log[d].age, n, Longest)
<1>1. \A d \in DOMAIN log : log[d] \in Entries   BY DEF IsLog
<1>2. \A d \in DOMAIN log : Aged(log[d].age, n, Longest) \in 0..Longest
  BY <1>1, AgedTyped, NumberFacts DEF Entries
<1>3. \A d \in DOMAIN log : [log[d] EXCEPT !.age = Aged(@, n, Longest)] \in Entries
  BY <1>1, <1>2 DEF Entries
<1>4. AgedLog(log, n) = [d \in DOMAIN log |-> [log[d] EXCEPT !.age = Aged(@, n, Longest)]]
  BY DEF AgedLog
<1>5. IsLog(AgedLog(log, n))   BY <1>3, <1>4 DEF IsLog
<1> QED BY <1>1, <1>4, <1>5 DEF Entries

\* A recorded loop stays one as it ages.
LEMMA AgedLoopTyped ==
  ASSUME NEW section \in Sections, NEW n \in Nat
  PROVE  AgedLoop(section, n) \in Sections
<1>1. ResumeWithin + 1 \in Nat   BY NumberFacts
<1>2. Aged(section.age, n, ResumeWithin + 1) \in 0..(ResumeWithin + 1)
  BY <1>1, AgedTyped DEF Sections
<1> QED BY <1>2 DEF AgedLoop, Sections

\* A fresh integral, an empty pid section and a loop not held are of their types.
LEMMA ClockFacts ==
  /\ NoLoop \in Sections /\ Fresh \in Integrals /\ NotHeld \in -1..(HoldBound + 1)
  /\ 0 \in 0..(HoldBound + 1) /\ NotHeld \notin 0..(HoldBound + 1)
BY NumberFacts DEF NoLoop, Fresh, NotHeld, Sections, Integrals, Materials

\* What a window is planned as, and from which rungs.
LEMMA PlannedIsPlan ==
  ASSUME TypeOK, NEW cap \in Int, NEW demand \in Int
  PROVE  \E ladder \in SUBSET BuildLadder(doc.stages) :
           LET p == Planned(cap, demand)
               curve == CapLadder(BuildLadder(doc.stages), cap)
               keeping == {r \in curve : \A d \in Frozen \ doc.driven : r.states[d] = entries[d].state}
           IN /\ IsPlan(p, ladder, Cycle, doc.min, doc.driven)
              /\ \A i \in DOMAIN p, d \in Frozen \cap doc.driven : p[i].rung.states[d] = entries[d].state
              /\ ladder = keeping \/ (ladder = curve /\ keeping = {})
<1> DEFINE built == BuildLadder(doc.stages)
           curve == CapLadder(built, cap)
           frozen == Frozen \ doc.driven
           ladder == ReachableLadder(curve, frozen, LastStates)
           window == PlanWindow(ladder, demand, Cycle, doc.min, doc.driven, curve)
           p == Planned(cap, demand)
           keeping == {r \in curve : \A d \in frozen : r.states[d] = entries[d].state}
<1>1. doc \in Documents /\ doc.driven \subseteq Devices   BY DocumentsAssumption DEF TypeOK
<1>2. Ladder(built) /\ built # {}   BY <1>1, BuiltLadder
<1>3. curve \subseteq built /\ curve # {} /\ Ladder(curve)   BY <1>2, CappedLadder, PartOfLadder DEF Ladder
<1>4. Frozen \subseteq DOMAIN entries /\ DOMAIN LastStates = DOMAIN entries
      /\ \A d \in DOMAIN entries : LastStates[d] = entries[d].state /\ entries[d].state \in Int
  BY DEF Frozen, LastStates, TypeOK, IsLog, Entries
<1>5. keeping = {r \in curve : \A d \in frozen \cap DOMAIN LastStates : r.states[d] = LastStates[d]}
  BY <1>4
<1>6. /\ ladder \subseteq curve /\ ladder # {}
      /\ ladder = keeping \/ (ladder = curve /\ keeping = {})
  <2> HIDE DEF curve, frozen, keeping
  <2> QED BY <1>3, <1>5, ReachedLadder
<1>7. Ladder(ladder)   BY <1>3, <1>6, PartOfLadder
<1>8. IsPlan(window, ladder, Cycle, doc.min, doc.driven)
  <2> HIDE DEF ladder, curve
  <2> QED BY <1>1, <1>3, <1>6, <1>7, WindowIsPlan, NumberFacts
<1>9. Pinned \in [Frozen \cap doc.driven -> Int]
      /\ \A d \in Frozen \cap doc.driven : Pinned[d] = entries[d].state
  BY <1>4 DEF Pinned, Restrict
<1>10. p = PinnedPlan(window, Pinned, curve, doc.driven)   BY DEF Planned
<1>11. /\ IsPlan(p, ladder, Cycle, doc.min, doc.driven)
       /\ \A i \in DOMAIN p, d \in Frozen \cap doc.driven : p[i].rung.states[d] = Pinned[d]
  <2>1. doc.driven \in SUBSET Devices /\ DOMAIN Pinned = Frozen \cap doc.driven
        /\ \A d \in DOMAIN Pinned : Pinned[d] \in Int
    BY <1>1, <1>9
  <2>2. Cycle \in Nat   BY NumberFacts
  <2> HIDE DEF ladder, curve, window, p
  <2>3. /\ IsPlan(PinnedPlan(window, Pinned, curve, doc.driven), ladder, Cycle, doc.min, doc.driven)
        /\ Pins(PinnedPlan(window, Pinned, curve, doc.driven), Pinned)
    BY <1>8, <2>1, <2>2, PinnedIsPlan
  <2> QED BY <1>10, <2>1, <2>3 DEF Pins
<1>12. ladder \in SUBSET built   BY <1>3, <1>6
<1> HIDE DEF ladder, p, keeping
<1>13. /\ IsPlan(p, ladder, Cycle, doc.min, doc.driven)
       /\ \A i \in DOMAIN p, d \in Frozen \cap doc.driven : p[i].rung.states[d] = entries[d].state
       /\ ladder = keeping \/ (ladder = curve /\ keeping = {})
  BY <1>6, <1>9, <1>11
<1> QED BY <1>12, <1>13 DEF p, keeping

-----------------------------------------------------------------------------
(***************************************************************************)
(* What a step leaves of the types.                                        *)
(***************************************************************************)
\* The log on disk is what it was, or the log saved.
LEMMA SaveTyped ==
  ASSUME TypeOK, NEW log, IsLog(log), NEW section \in Sections, Save(log, section)
  PROVE  /\ saved' = [devices |-> saved'.devices, pid |-> saved'.pid]
         /\ IsLog(saved'.devices) /\ saved'.pid \in Sections /\ faults' \in Nat
         /\ saved' = saved \/ saved'.devices = log
BY DEF Save, TypeOK

\* Holding keeps to the types.
LEMMA HoldTyped ==
  ASSUME TypeOK, Hold
  PROVE  integral' \in Integrals /\ held' \in -1..(HoldBound + 1) /\ auto' \in BOOLEAN
<1>1. integral' \in Integrals /\ auto' \in BOOLEAN   BY DEF Hold, TypeOK
<1>2. held' \in -1..(HoldBound + 1)   BY NumberFacts DEF Hold, TypeOK, NotHeld
<1> QED BY <1>1, <1>2

\* Resuming keeps to the types.
LEMMA ResumeTyped ==
  ASSUME TypeOK, Resume
  PROVE  integral' \in Integrals /\ held' \in -1..(HoldBound + 1) /\ auto' \in BOOLEAN
BY ClockFacts DEF Resume, TypeOK

\* What a demand is computed from is of the loop in force.
LEMMA LoopTyped ==
  ASSUME TypeOK
  PROVE  /\ LoopMaterial \in Materials
         /\ Captured \in Sections /\ [from |-> LoopMaterial, idle |-> 0] \in Integrals
BY NumberFacts DEF LoopMaterial, Materials, TypeOK, Captured, Sections, Integrals

\* A loop taken up at start keeps to the types.
LEMMA ResumesFromTyped ==
  ASSUME TypeOK, NEW section \in Sections, ResumesFrom(section)
  PROVE  integral' \in Integrals /\ held' \in -1..(HoldBound + 1) /\ auto' \in BOOLEAN
<1>1. CASE Resumable(section)
  <2>1. HoldBound + 1 \in Nat /\ section.age \in Nat   BY NumberFacts DEF Sections
  <2>2. Aged(section.age, 0, HoldBound + 1) \in 0..(HoldBound + 1)   BY <2>1 DEF Aged
  <2>3. /\ integral' = [from |-> section.from, idle |-> Aged(section.age, 0, HoldBound + 1)]
        /\ held' = integral'.idle /\ auto' = FALSE
    BY <1>1 DEF ResumesFrom
  <2>4. integral' \in Integrals   BY <2>2, <2>3 DEF Sections, Integrals
  <2>5. held' \in 0..(HoldBound + 1)   BY <2>2, <2>3
  <2>6. held' \in -1..(HoldBound + 1)   BY <2>1, <2>5
  <2>7. auto' \in BOOLEAN   BY <2>3
  <2> QED BY <2>4, <2>6, <2>7
<1>2. CASE ~Resumable(section)   BY <1>2, ClockFacts DEF ResumesFrom
<1> QED BY <1>1, <1>2

\* The passing of time keeps to the types.
LEMMA PassTyped ==
  ASSUME TypeOK, NEW n \in Nat, Pass(n)
  PROVE  /\ IsLog(entries') /\ loop' \in Sections
         /\ saved' = [devices |-> saved'.devices, pid |-> saved'.pid]
         /\ IsLog(saved'.devices) /\ saved'.pid \in Sections
         /\ held' \in -1..(HoldBound + 1) /\ since' \in [Devices -> 0..Longest]
<1>1. IsLog(entries') /\ IsLog(AgedLog(saved.devices, n))   BY AgedLogTyped DEF Pass, TypeOK
<1>2. loop' \in Sections /\ AgedLoop(saved.pid, n) \in Sections   BY AgedLoopTyped DEF Pass, TypeOK
<1>3. saved' = [devices |-> AgedLog(saved.devices, n), pid |-> AgedLoop(saved.pid, n)]   BY DEF Pass
<1>4. held' \in -1..(HoldBound + 1)
  <2>1. HoldBound + 1 \in Nat   BY NumberFacts
  <2>2. held = NotHeld \/ held \in 0..(HoldBound + 1)   BY NumberFacts DEF TypeOK, NotHeld
  <2>3. held = NotHeld \/ Aged(held, n, HoldBound + 1) \in 0..(HoldBound + 1)
    BY <2>1, <2>2, AgedTyped
  <2> QED BY <2>1, <2>3 DEF Pass, NotHeld
<1>5. since' \in [Devices -> 0..Longest]
  <2>1. \A d \in Devices : Aged(since[d], n, Longest) \in 0..Longest
    BY AgedTyped, NumberFacts DEF TypeOK
  <2> QED BY <2>1 DEF Pass, TypeOK
<1> QED BY <1>1, <1>2, <1>3, <1>4, <1>5

\* An idle integral keeps to its type.
LEMMA IdledTyped ==
  ASSUME TypeOK, NEW n \in Nat, Idled(n)
  PROVE  integral' \in Integrals
<1>1. HoldBound + 1 \in Nat   BY NumberFacts
<1>2. Aged(integral.idle, n, HoldBound + 1) \in 0..(HoldBound + 1)
  BY <1>1, AgedTyped DEF TypeOK, Integrals
<1> QED BY <1>2, ClockFacts DEF Idled, TypeOK, Integrals

\* A process that is gone leaves everything in memory as it starts.
LEMMA GoneTyped ==
  ASSUME Gone
  PROVE  /\ acting' = "unknown" /\ IsLog(entries') /\ loop' \in Sections
         /\ integral' \in Integrals /\ held' \in -1..(HoldBound + 1) /\ auto' \in BOOLEAN
         /\ failed' \in BOOLEAN /\ outside' \in BOOLEAN
BY ClockFacts, NoCommandsTyped DEF Gone

\* A device that is switched has a state and was changed just now, or had it.
LEMMA SwitchedTyped ==
  ASSUME TypeOK, NEW d \in Devices, NEW v \in Int, Switched(d, v)
  PROVE  dev' \in States /\ since' \in [Devices -> 0..Longest] /\ blind' \subseteq Devices
BY NumberFacts DEF Switched, TypeOK, States

\* Every variable starts in its type.
LEMMA TypeInit ==
  ASSUME Init
  PROVE  TypeOK
<1>1. /\ doc \in Documents /\ pc \in Phases /\ acting \in {"unknown", "yes", "no"}
      /\ broke \in {"no", "away", "refused", "stopped"}
  BY DEF Init, Phases, Commanding
<1>2. AreCommands(todo) /\ AreCommands(done) /\ IsLog(entries) /\ IsLog(saved.devices)
      /\ saved = [devices |-> saved.devices, pid |-> saved.pid]
  BY NoCommandsTyped DEF Init, NoLog
<1>3. /\ loop \in Sections /\ saved.pid \in Sections
      /\ integral \in Integrals /\ held \in -1..(HoldBound + 1)
  BY ClockFacts DEF Init, NoLog
<1>4. /\ dev \in States /\ since \in [Devices -> 0..Longest] /\ blind \subseteq Devices
      /\ faults \in Nat
  BY NumberFacts DEF Init, States
<1>5. auto \in BOOLEAN /\ failed \in BOOLEAN /\ outside \in BOOLEAN   BY DEF Init
<1> QED BY <1>1, <1>2, <1>3, <1>4, <1>5 DEF TypeOK

\* Every step keeps every variable to its type.
LEMMA TypeStep ==
  ASSUME TypeOK, PlanOK, [Next]_vars
  PROVE  TypeOK'
<1> USE NoCommandsTyped
<1>1. CASE Start
  <2>1. PICK log \in {saved, NoLog} : /\ Loaded(log) /\ entries' = log.devices /\ loop' = log.pid
                                      /\ ResumesFrom(log.pid)
    BY <1>1 DEF Start
  <2>2. IsLog(log.devices) /\ log.pid \in Sections   BY <2>1, ClockFacts DEF TypeOK, NoLog
  <2>3. integral' \in Integrals /\ held' \in -1..(HoldBound + 1) /\ auto' \in BOOLEAN
    BY <2>1, <2>2, ResumesFromTyped
  <2>4. faults' \in Nat   BY <2>1 DEF Loaded, TypeOK
  <2>5. PICK inside \in (IF doc.period THEN BOOLEAN ELSE {TRUE}) :
          /\ outside' = ~inside
          /\ Command(StartingState(inside), "asserting", "deciding")
    BY <1>1 DEF Start
  <2>6. AreCommands(todo') /\ pc' \in {"asserting", "deciding"} /\ outside' \in BOOLEAN
    BY <2>5, Commanded, NamedStates
  <2>7. UNCHANGED <<doc, done, broke, saved, world>> /\ acting' = "unknown" /\ failed' = FALSE
    BY <1>1 DEF Start
  <2> QED BY <2>1, <2>2, <2>3, <2>4, <2>6, <2>7 DEF TypeOK, Phases, Commanding, world
<1>2. CASE Edit
  BY <1>2 DEF Edit, TypeOK, process, world
<1>3. CASE Elapse
  <2>1. Pass(1) /\ UNCHANGED <<doc, pc, acting, todo, done, broke, integral, auto, dev, blind, failed, outside, faults>>
    BY <1>3 DEF Elapse
  <2> QED BY <2>1, PassTyped DEF TypeOK
<1>4. CASE Kill
  <2>1. /\ faults' \in Nat /\ pc' = "down" /\ todo' = NoCommands /\ done' = NoCommands /\ broke' = "no"
        /\ UNCHANGED <<doc, saved, dev, since>> /\ blind' = blind \cup Unsaved(entries, saved.devices) /\ Gone
    BY <1>4 DEF Kill, TypeOK
  <2>2. blind' \subseteq Devices   BY <2>1 DEF Unsaved, TypeOK, IsLog
  <2> QED BY <2>1, <2>2, GoneTyped DEF TypeOK, Phases
<1>5. CASE Terminate
  <2>1. /\ faults' \in Nat /\ UNCHANGED <<doc, done, entries, saved, process>>
    BY <1>5 DEF Terminate, TypeOK
  <2>2. CASE pc \in Commanding
    <3>1. broke' = "stopped" /\ UNCHANGED <<pc, todo>>   BY <1>5, <2>2 DEF Terminate
    <3>2. dev' \in States /\ since' \in [Devices -> 0..Longest] /\ blind' \subseteq Devices
      <4>1. CASE UNCHANGED world   BY <4>1 DEF world, TypeOK
      <4>2. ASSUME NEW d \in Devices, Due(d), Switched(d, todo[d])
            PROVE  dev' \in States /\ since' \in [Devices -> 0..Longest] /\ blind' \subseteq Devices
        <5>1. todo[d] \in Int   BY <4>2 DEF Due, TypeOK, AreCommands
        <5> QED BY <4>2, <5>1, SwitchedTyped
      <4> QED BY <1>5, <2>2, <4>1, <4>2 DEF Terminate
    <3> QED BY <2>1, <3>1, <3>2 DEF TypeOK, process
  <2>3. CASE pc \notin Commanding
    <3>1. Leave /\ UNCHANGED <<broke, world>>   BY <1>5, <2>3 DEF Terminate
    <3>2. AreCommands(todo') /\ pc' = "leaving"
      BY <3>1, Commanded, NamedStates DEF Leave
    <3> QED BY <2>1, <3>1, <3>2 DEF TypeOK, process, world, Phases, Commanding
  <2> QED BY <2>2, <2>3
<1>6. CASE StaysOpen \/ Opens
  <2>1. /\ Resume /\ acting' = "yes" /\ pc' = "stepping" /\ UNCHANGED <<todo, failed>>
        /\ UNCHANGED <<doc, done, broke, entries, loop, saved, faults, world>> /\ outside' = FALSE
    BY <1>6 DEF StaysOpen, Opens, Decided
  <2> QED BY <2>1, ResumeTyped DEF TypeOK, Phases, world
<1>7. CASE StaysShut
  <2>1. /\ Hold /\ acting' = "no" /\ pc' = "resting" /\ failed' = FALSE /\ UNCHANGED todo
        /\ UNCHANGED <<doc, done, broke, entries, loop, saved, faults, world>> /\ outside' \in BOOLEAN
    BY <1>7 DEF StaysShut, Decided
  <2> QED BY <2>1, HoldTyped DEF TypeOK, Phases, world
<1>8. CASE Closes
  <2>1. /\ Hold /\ Command(ClosingState, "closing", "resting")
        /\ UNCHANGED <<doc, done, broke, entries, loop, saved, faults, world>> /\ outside' \in BOOLEAN
    BY <1>8 DEF Closes, Decided
  <2>2. acting' \in {"unknown", "yes", "no"}   BY <1>8 DEF Closes, TypeOK
  <2>3. failed' \in BOOLEAN   BY <1>8 DEF Closes, TypeOK
  <2>4. AreCommands(todo') /\ pc' \in {"closing", "resting"}   BY <2>1, Commanded, NamedStates
  <2> QED BY <2>1, <2>2, <2>3, <2>4, HoldTyped DEF TypeOK, Phases, Commanding, world
<1>9. CASE Unreadable \/ StepFails
  <2>1. /\ Hold /\ failed' = TRUE /\ Command(doc.safe, "failing", "resting")
        /\ UNCHANGED <<doc, acting, done, broke, entries, loop, saved, faults, world>>
        /\ outside' \in BOOLEAN
    BY <1>9 DEF Unreadable, StepFails, FailSafe, TypeOK
  <2>2. AreCommands(todo') /\ pc' \in {"failing", "resting"}   BY <2>1, Commanded, NamedStates
  <2> QED BY <2>1, <2>2, HoldTyped DEF TypeOK, Phases, Commanding, world
<1>10. CASE Step
  <2>1. /\ integral' = [from |-> LoopMaterial, idle |-> 0] /\ loop' = Captured
        /\ Save(entries, loop') /\ pc' = "turning"
        /\ UNCHANGED <<doc, acting, todo, done, broke, entries, held, auto, failed, outside, world>>
    BY <1>10 DEF Step
  <2>2. /\ saved' = [devices |-> saved'.devices, pid |-> saved'.pid]
        /\ IsLog(saved'.devices) /\ saved'.pid \in Sections /\ faults' \in Nat
    <3>1. IsLog(entries) /\ Captured \in Sections /\ Save(entries, Captured)
      BY <2>1, LoopTyped DEF TypeOK
    <3> QED BY <3>1, SaveTyped
  <2> QED BY <2>1, <2>2, LoopTyped DEF TypeOK, Phases, world
<1>11. CASE Turn
  <2>1. /\ pc' = "window" /\ todo' = Sent(doc, plan[1].rung.states)
        /\ UNCHANGED <<doc, done, broke, entries, saved, faults, process, world>>
    BY <1>11 DEF Turn
  <2>2. plan[1].rung.states \in States   BY <1>11 DEF Turn, PlanOK, InWindow
  <2>3. AreCommands(todo')   BY <2>1, <2>2, SentTyped DEF TypeOK
  <2> QED BY <2>1, <2>3 DEF TypeOK, Phases, Commanding, process, world
<1>12. ASSUME NEW d \in Devices, Answered(d) PROVE TypeOK'
  <2>1. /\ Due(d) /\ Switched(d, todo[d])
        /\ done' = [e \in DOMAIN done \cup {d} |-> IF e = d THEN todo[d] ELSE done[e]]
        /\ todo' = Restrict(todo, DOMAIN todo \ {d})
        /\ UNCHANGED <<doc, pc, broke, entries, saved, faults, process>>
    BY <1>12 DEF Answered
  <2>2. todo[d] \in Int   BY <2>1 DEF Due, TypeOK, AreCommands
  <2>3. AreCommands(todo')   BY <2>1 DEF TypeOK, AreCommands, Restrict
  <2>4. AreCommands(done')   BY <2>1, <2>2 DEF TypeOK, AreCommands
  <2> QED BY <2>1, <2>2, <2>3, <2>4, SwitchedTyped DEF TypeOK, process
<1>13. ASSUME NEW d \in Devices, Unanswered(d) PROVE TypeOK'
  <2>1. /\ Due(d) /\ broke' \in {"away", "refused"} /\ faults' \in Nat
        /\ UNCHANGED world \/ Switched(d, todo[d])
        /\ UNCHANGED <<doc, pc, todo, done, entries, saved, process>>
    BY <1>13 DEF Unanswered, TypeOK
  <2>2. todo[d] \in Int   BY <2>1 DEF Due, TypeOK, AreCommands
  <2>3. dev' \in States /\ since' \in [Devices -> 0..Longest] /\ blind' \subseteq Devices
    BY <2>1, <2>2, SwitchedTyped DEF TypeOK, world
  <2> QED BY <2>1, <2>3 DEF TypeOK, process
<1>14. CASE RoundEnds
  <2>1. /\ entries' = Recorded(done, pc # "window") /\ Recording(entries') /\ AfterRound
        /\ blind' = blind \ Dated /\ UNCHANGED <<loop, outside>>
    BY <1>14 DEF RoundEnds
  <2>2. IsLog(entries')   BY <2>1, RecordedTyped DEF TypeOK
  <2>3. /\ saved' = [devices |-> saved'.devices, pid |-> saved'.pid]
        /\ IsLog(saved'.devices) /\ saved'.pid \in Sections /\ faults' \in Nat
    <3>1. CASE UNCHANGED <<saved, faults>>   BY <3>1 DEF TypeOK
    <3>2. CASE Save(entries', loop)
      <4>1. PICK log : log = entries'   OBVIOUS
      <4>2. IsLog(log) /\ Save(log, loop) /\ loop \in Sections   BY <2>2, <3>2, <4>1 DEF TypeOK
      <4> QED BY <4>2, SaveTyped
    <3> QED BY <2>1, <3>1, <3>2 DEF Recording
  <2>4. done' = NoCommands /\ broke' = "no" /\ UNCHANGED <<doc, dev, since>>
    BY <2>1 DEF Recording
  <2>5. /\ pc' \in Phases /\ AreCommands(todo') /\ acting' \in {"unknown", "yes", "no"}
        /\ failed' \in BOOLEAN /\ integral' \in Integrals /\ held' \in -1..(HoldBound + 1)
        /\ auto' \in BOOLEAN
    <3>1. CASE \/ Proceeds("asserting", "deciding") \/ Proceeds("window", "dwelling")
               \/ /\ pc = "closing" /\ broke = "no" /\ pc' = "resting" /\ todo' = NoCommands
                  /\ acting' = "no" /\ failed' = FALSE /\ UNCHANGED pid
               \/ /\ pc = "failing" /\ broke # "stopped"
                  /\ pc' = "resting" /\ todo' = NoCommands /\ UNCHANGED <<pid, acting, failed>>
      BY <3>1 DEF Proceeds, TypeOK, pid, Phases, Commanding
    <3>2. CASE FailSafe /\ UNCHANGED acting
      <4>1. Hold /\ failed' = TRUE /\ Command(doc.safe, "failing", "resting")
        BY <3>2 DEF FailSafe
      <4>2. AreCommands(todo') /\ pc' \in {"failing", "resting"}   BY <4>1, Commanded, NamedStates
      <4> QED BY <3>2, <4>1, <4>2, HoldTyped DEF TypeOK, Phases, Commanding
    <3>3. CASE Leave /\ UNCHANGED <<pid, acting, failed>>
      <4>1. AreCommands(todo') /\ pc' = "leaving"
        BY <3>3, Commanded, NamedStates DEF Leave
      <4> QED BY <3>3, <4>1 DEF TypeOK, Phases, Commanding, pid
    <3> QED BY <2>1, <3>1, <3>2, <3>3 DEF AfterRound
  <2> QED BY <2>1, <2>2, <2>3, <2>4, <2>5 DEF TypeOK
<1>15. CASE Exits
  <2> DEFINE log == Recorded(done, TRUE)
  <2>1. /\ Recording(log) /\ blind' = (blind \ Dated) \cup Unsaved(log, saved'.devices)
        /\ pc' = "down" /\ todo' = NoCommands /\ Gone
    BY <1>15 DEF Exits
  <2>2. IsLog(log)   BY RecordedTyped DEF TypeOK
  <2>3. /\ saved' = [devices |-> saved'.devices, pid |-> saved'.pid]
        /\ IsLog(saved'.devices) /\ saved'.pid \in Sections /\ faults' \in Nat
    <3>1. CASE UNCHANGED <<saved, faults>>   BY <3>1 DEF TypeOK
    <3>2. CASE Save(log, loop)
      <4> HIDE DEF log
      <4> QED BY <2>2, <3>2, SaveTyped DEF TypeOK
    <3> QED BY <2>1, <3>1, <3>2 DEF Recording
  <2>4. done' = NoCommands /\ broke' = "no" /\ UNCHANGED <<doc, dev, since>>
    BY <2>1 DEF Recording
  <2>5. blind' \subseteq Devices   BY <2>1, <2>2 DEF TypeOK, Unsaved, IsLog
  <2> QED BY <2>1, <2>3, <2>4, <2>5, GoneTyped DEF TypeOK, Phases
<1>16. CASE Dwell
  <2>1. /\ Pass(plan[1].seconds) /\ pc' \in {"deciding", "turning"} /\ failed' \in {FALSE, failed}
        /\ UNCHANGED <<doc, acting, todo, done, broke, integral, auto, outside, faults, dev, blind>>
    BY <1>16 DEF Dwell
  <2>2. plan[1].seconds \in Nat
    <3>1. plan[1].seconds \in 0..Cycle   BY <1>16 DEF Dwell, PlanOK, InWindow
    <3> QED BY <3>1, NumberFacts
  <2> QED BY <2>1, <2>2, PassTyped DEF TypeOK, Phases
<1>17. CASE Rest
  <2>1. /\ Pass(Cycle) /\ Idled(Cycle) /\ pc' = "deciding"
        /\ UNCHANGED <<doc, acting, todo, done, broke, auto, failed, outside, faults, dev, blind>>
    BY <1>17 DEF Rest
  <2> QED BY <2>1, PassTyped, IdledTyped, NumberFacts DEF TypeOK, Phases
<1>18. CASE UNCHANGED vars
  BY <1>18 DEF vars, TypeOK
<1> QED BY <1>1, <1>2, <1>3, <1>4, <1>5, <1>6, <1>7, <1>8, <1>9, <1>10, <1>11, <1>12, <1>13,
           <1>14, <1>15, <1>16, <1>17, <1>18 DEF Next

-----------------------------------------------------------------------------
(***************************************************************************)
(* Plans.                                                                  *)
(***************************************************************************)
\* After the first of two dwells comes the second.
LEMMA TailOfPlan ==
  ASSUME NEW p, p = <<p[1]>> \/ p = <<p[1], p[2]>>, Tail(p) # <<>>
  PROVE  p = <<p[1], p[2]>> /\ p # <<p[1]>> /\ DOMAIN p = {1, 2} /\ Tail(p) = <<p[2]>>
<1>1. CASE p = <<p[1]>>
  <2>1. <<p[1]>> \in Seq({p[1]})   OBVIOUS
  <2>2. Tail(<<p[1]>>) = <<>>   BY <2>1
  <2> QED BY <1>1, <2>2
<1>2. CASE p = <<p[1], p[2]>>
  <2>1. <<p[1], p[2]>> \in Seq({p[1], p[2]})   OBVIOUS
  <2>2. Tail(<<p[1], p[2]>>) = <<p[2]>>   BY <2>1
  <2>3. p # <<p[1]>> /\ DOMAIN p = {1, 2}   BY <1>2
  <2> QED BY <1>2, <2>2, <2>3
<1> QED BY <1>1, <1>2

\* A plan just made.
LEMMA PlannedShape ==
  ASSUME TypeOK, NEW cap \in Int, NEW demand \in Int, NEW p, p = Planned(cap, demand)
  PROVE  /\ p = <<p[1]>> \/ p = <<p[1], p[2]>>
         /\ \A i \in DOMAIN p : /\ p[i].rung.states \in States /\ p[i].seconds \in 0..Cycle
                                /\ \E rung \in Rungs(doc) : Gives(p[i], rung)
         /\ p # <<p[1]>> =>
              \A d \in Devices : \/ p[2].rung.states[d] = p[1].rung.states[d]
                                 \/ d \notin doc.driven /\ doc.min[d] <= p[1].seconds
<1>1. PICK ladder \in SUBSET BuildLadder(doc.stages) :
        IsPlan(Planned(cap, demand), ladder, Cycle, doc.min, doc.driven)
  BY PlannedIsPlan
<1>2. IsPlan(p, ladder, Cycle, doc.min, doc.driven)   BY <1>1
<1>3. \A i \in DOMAIN p : p[i].rung.states \in States   BY <1>2 DEF IsPlan, LadderRungs
<1>4. \A i \in DOMAIN p : \E rung \in Rungs(doc) : Gives(p[i], rung)
  <2> SUFFICES ASSUME NEW i \in DOMAIN p PROVE \E rung \in Rungs(doc) : Gives(p[i], rung)
    OBVIOUS
  <2>1. PICK r \in ladder : \A d \in Devices \ doc.driven : p[i].rung.states[d] = r.states[d]
    BY <1>2 DEF IsPlan
  <2>2. PICK rung \in Rungs(doc) : r.states = rung.states
    BY BuiltLadder DEF TypeOK
  <2> QED BY <2>1, <2>2 DEF Gives
<1> QED BY <1>2, <1>3, <1>4 DEF IsPlan

\* A plan stays one: what Step makes, and what each dwell leaves of it.
LEMMA PlanStep ==
  ASSUME TypeOK, PlanOK, DwellsOK, [Next]_vars
  PROVE  PlanOK' /\ DwellsOK'
<1>1. CASE pc' \notin InWindow
  BY <1>1 DEF PlanOK, DwellsOK
<1>2. CASE pc \in InWindow /\ pc' \in InWindow /\ UNCHANGED <<plan, doc>>
  BY <1>2 DEF PlanOK, DwellsOK, Gives, Rungs
<1>3. CASE Step
  <2>1. PICK cap \in Caps, demand \in Demands : plan' = Planned(cap, demand)
    BY <1>3 DEF Step
  <2>2. doc' = doc   BY <1>3 DEF Step
  <2>3. cap \in Int /\ demand \in Int   BY NumbersAssumption
  <2>4. PICK p : p = plan'   OBVIOUS
  <2>5. /\ p = <<p[1]>> \/ p = <<p[1], p[2]>>
        /\ \A i \in DOMAIN p : /\ p[i].rung.states \in States /\ p[i].seconds \in 0..Cycle
                               /\ \E rung \in Rungs(doc) : Gives(p[i], rung)
        /\ p # <<p[1]>> =>
             \A d \in Devices : \/ p[2].rung.states[d] = p[1].rung.states[d]
                                \/ d \notin doc.driven /\ doc.min[d] <= p[1].seconds
    BY <2>1, <2>3, <2>4, PlannedShape
  <2> QED BY <2>2, <2>4, <2>5 DEF PlanOK, DwellsOK, Gives, Rungs
<1>4. CASE Dwell
  <2>1. plan' = Tail(plan) /\ doc' = doc /\ (plan' = <<>> => pc' = "deciding")
    BY <1>4 DEF Dwell
  <2>2. pc \in InWindow   BY <1>4 DEF Dwell, InWindow
  <2>3. CASE plan' = <<>>   BY <1>1, <2>1, <2>3 DEF InWindow
  <2>4. CASE plan' # <<>>
    <3>1. plan = <<plan[1], plan[2]>> /\ DOMAIN plan = {1, 2} /\ plan' = <<plan[2]>>
      BY <2>1, <2>2, <2>4, TailOfPlan DEF PlanOK
    <3>2. plan' = <<plan'[1]>> /\ DOMAIN plan' = {1} /\ plan'[1] = plan[2]   BY <3>1
    <3>3. plan[2].rung.states \in States /\ plan[2].seconds \in 0..Cycle
      BY <2>2, <3>1 DEF PlanOK
    <3>4. \E rung \in Rungs(doc) : Gives(plan[2], rung)   BY <2>2, <3>1 DEF DwellsOK
    <3>5. PlanOK'   BY <3>2, <3>3 DEF PlanOK
    <3>6. \A i \in DOMAIN plan' : \E rung \in Rungs(doc') : Gives(plan[i], rung)'
      BY <2>1, <3>2, <3>4 DEF Rungs, Gives
    <3>7. DwellsOK'   BY <3>2, <3>6 DEF DwellsOK
    <3> QED BY <3>5, <3>7
  <2> QED BY <2>3, <2>4
<1>5. CASE RoundEnds
  <2>1. pc' \in InWindow => pc = "window" /\ pc' = "dwelling"
    BY <1>5 DEF RoundEnds, AfterRound, Proceeds, FailSafe, Leave, Command, InWindow
  <2>2. (pc' = "dwelling" => plan' = plan) /\ doc' = doc   BY <1>5 DEF RoundEnds, Recording
  <2> QED BY <1>1, <1>2, <2>1, <2>2 DEF InWindow
<1>6. CASE Turn   BY <1>2, <1>6 DEF Turn, InWindow, process
<1>7. CASE \E d \in Devices : Answered(d) \/ Unanswered(d)
  <2>1. UNCHANGED <<pc, doc, plan>>   BY <1>7 DEF Answered, Unanswered, process
  <2> QED BY <1>1, <1>2, <2>1
<1>8. CASE Terminate
  <2>1. UNCHANGED <<doc, plan>> /\ (pc' = pc \/ pc' = "leaving")
    BY <1>8 DEF Terminate, Leave, Command, process
  <2> QED BY <1>1, <1>2, <2>1 DEF InWindow
<1>9. CASE Start \/ Kill \/ Exits \/ Rest \/ StaysOpen \/ StaysShut \/ Opens \/ Closes
            \/ Unreadable \/ StepFails
  <2>1. pc' \in {"asserting", "deciding", "down", "stepping", "resting", "closing", "failing"}
    BY <1>9 DEF Start, Kill, Exits, Rest, StaysOpen, StaysShut, Opens, Closes, Unreadable,
                StepFails, FailSafe, Command
  <2> QED BY <1>1, <2>1 DEF InWindow
<1>10. CASE Edit \/ Elapse
  <2>1. pc' = "down"   BY <1>10 DEF Edit, Elapse
  <2> QED BY <1>1, <2>1 DEF InWindow
<1>11. CASE UNCHANGED vars
  BY <1>1, <1>2, <1>11 DEF vars
<1> QED BY <1>3, <1>4, <1>5, <1>6, <1>7, <1>8, <1>9, <1>10, <1>11 DEF Next

\* What is left to send is sent, or dropped, before the process goes on.
LEMMA QuietStep ==
  ASSUME Quiet, [Next]_vars
  PROVE  Quiet'
<1> USE DEF Quiet
<1>1. CASE Start
  BY <1>1 DEF Start, Command, Commanding, InWindow
<1>2. CASE Edit \/ Elapse
  <2>1. pc = "down" /\ UNCHANGED <<pc, todo, done, broke, acting, integral, auto>>
    BY <1>2 DEF Edit, Elapse, process
  <2>2. entries' = NoCommands /\ loop' = NoLoop /\ held' = NotHeld
    BY <1>2, <2>1 DEF Edit, Elapse, process, Pass, AgedLog, AgedLoop, NoCommands
  <2> QED BY <2>1, <2>2 DEF Commanding, InWindow
<1>3. CASE Kill \/ Exits
  BY <1>3 DEF Kill, Exits, Gone, Commanding, InWindow, Recording
<1>4. CASE Terminate
  BY <1>4 DEF Terminate, Leave, Command, process, Commanding, InWindow
<1>5. CASE StaysOpen \/ StaysShut \/ Opens
  BY <1>5 DEF StaysOpen, StaysShut, Opens, Decided, Commanding, InWindow
<1>6. CASE Closes
  BY <1>6 DEF Closes, Decided, Command, Commanding, InWindow
<1>7. CASE Unreadable \/ StepFails
  BY <1>7 DEF Unreadable, StepFails, FailSafe, Command, Commanding, InWindow
<1>8. CASE Step \/ Turn
  BY <1>8 DEF Step, Turn, process, Commanding, InWindow
<1>9. CASE \E d \in Devices : Answered(d) \/ Unanswered(d)
  BY <1>9 DEF Answered, Unanswered, process, Commanding, InWindow
<1>10. CASE RoundEnds
  <2>1. pc \in Commanding /\ done' = NoCommands /\ broke' = "no" /\ AfterRound
    BY <1>10 DEF RoundEnds, Recording
  <2>2. /\ pc' \notin Commanding => todo' = NoCommands
        /\ pc' \in {"deciding", "dwelling", "resting", "failing", "leaving"}
        /\ pc' = "dwelling" => pc = "window" /\ acting' = acting
    BY <2>1 DEF AfterRound, Proceeds, FailSafe, Leave, Command, Commanding
  <2> QED BY <2>1, <2>2 DEF Commanding, InWindow
<1>11. CASE Dwell \/ Rest
  BY <1>11 DEF Dwell, Rest, Commanding, InWindow
<1>12. CASE UNCHANGED vars
  BY <1>12 DEF vars
<1> QED BY <1>1, <1>2, <1>3, <1>4, <1>5, <1>6, <1>7, <1>8, <1>9, <1>10, <1>11, <1>12 DEF Next

-----------------------------------------------------------------------------
(***************************************************************************)
(* The log and the devices.                                                *)
(***************************************************************************)
\* Time passes alike for the log and for the devices.
LEMMA AgedRight ==
  ASSUME TypeOK, NEW n \in Nat, Pass(n), UNCHANGED <<dev, blind>>, LogOK
  PROVE  LogOK'
<1>1. /\ entries' = AgedLog(entries, n) /\ saved'.devices = AgedLog(saved.devices, n)
      /\ since' = [d \in DOMAIN since |-> Aged(since[d], n, Longest)]
      /\ DOMAIN since = Devices
  BY DEF Pass, TypeOK
<1>2. IsLog(entries) /\ IsLog(saved.devices)   BY DEF TypeOK
<1>3. /\ DOMAIN entries' = DOMAIN entries /\ DOMAIN saved'.devices = DOMAIN saved.devices
      /\ \A d \in DOMAIN entries : /\ entries'[d].state = entries[d].state
                                   /\ entries'[d].age = Aged(entries[d].age, n, Longest)
      /\ \A d \in DOMAIN saved.devices :
           /\ saved'.devices[d].state = saved.devices[d].state
           /\ saved'.devices[d].age = Aged(saved.devices[d].age, n, Longest)
  BY <1>1, <1>2, AgedLogTyped
<1>4. DOMAIN entries \subseteq Devices /\ DOMAIN saved.devices \subseteq Devices
  BY <1>2 DEF IsLog
<1> QED BY <1>1, <1>3, <1>4 DEF LogOK, Right

\* A round recorded leaves the log right of all but what stays undated.
LEMMA RecordedRight ==
  ASSUME TypeOK, LogOK, RoundOK, NEW forced \in BOOLEAN,
         NEW d \in DOMAIN Recorded(done, forced), d \notin blind \ Dated
  PROVE  Right(Recorded(done, forced)[d], d)
<1> DEFINE log == Recorded(done, forced)
<1>1. /\ DOMAIN log = DOMAIN entries \cup DOMAIN done
      /\ log[d] = IF d \notin DOMAIN done THEN entries[d]
                  ELSE IF Unchanged(d, done[d]) THEN [entries[d] EXCEPT !.forced = @ /\ forced]
                  ELSE [state |-> done[d], age |-> 0, for |-> Identity(d), forced |-> forced]
  BY RecordedTyped DEF TypeOK
<1>2. CASE d \notin DOMAIN done
  <2>1. d \in DOMAIN entries /\ d \notin blind /\ log[d] = entries[d]   BY <1>1, <1>2 DEF Dated
  <2> QED BY <2>1 DEF LogOK
<1>3. CASE d \in DOMAIN done /\ Unchanged(d, done[d])
  <2>1. d \in DOMAIN entries /\ d \notin blind   BY <1>3 DEF Unchanged, Dated
  <2>2. Right(entries[d], d)   BY <2>1 DEF LogOK
  <2>3. log[d] = [entries[d] EXCEPT !.forced = @ /\ forced]   BY <1>1, <1>3
  <2>4. entries[d] \in Entries   BY <2>1 DEF TypeOK, IsLog
  <2>5. log[d].state = entries[d].state /\ log[d].age = entries[d].age   BY <2>3, <2>4 DEF Entries
  <2> QED BY <2>2, <2>5 DEF Right
<1>4. CASE d \in DOMAIN done /\ ~Unchanged(d, done[d])
  <2>1. log[d].state = done[d] /\ log[d].age = 0   BY <1>1, <1>4
  <2> QED BY <1>4, <2>1 DEF RoundOK, Right
<1> QED BY <1>2, <1>3, <1>4

\* Every step leaves the log right, in memory and on disk.
LEMMA LogStep ==
  ASSUME TypeOK, PlanOK, Quiet, LogOK, RoundOK, [Next]_vars
  PROVE  LogOK'
<1>1. CASE Start
  <2>1. /\ entries' = saved.devices \/ entries' = NoCommands
        /\ UNCHANGED <<saved, dev, since, blind>>
    BY <1>1 DEF Start, NoLog, world
  <2>2. entries = NoCommands   BY <1>1 DEF Start, Quiet
  <2> QED BY <2>1, <2>2, NoCommandsTyped DEF LogOK, Right
<1>2. CASE Elapse
  BY <1>2, AgedRight DEF Elapse
<1>3. CASE Dwell
  <2>1. plan[1].seconds \in Nat
    <3>1. plan[1].seconds \in 0..Cycle   BY <1>3 DEF Dwell, PlanOK, InWindow
    <3> QED BY <3>1, NumberFacts
  <2> QED BY <1>3, <2>1, AgedRight DEF Dwell
<1>4. CASE Rest
  BY <1>4, AgedRight, NumberFacts DEF Rest
<1>5. CASE Kill
  <2>1. /\ entries' = NoCommands /\ UNCHANGED <<saved, dev, since>>
        /\ blind' = blind \cup Unsaved(entries, saved.devices)
    BY <1>5 DEF Kill, Gone
  <2>2. ASSUME NEW d \in DOMAIN saved.devices \ blind'
        PROVE  Right(saved.devices[d], d)
    <3>1. CASE d \in DOMAIN entries
      <4>1. saved.devices[d] = entries[d]   BY <2>1, <2>2, <3>1 DEF Unsaved
      <4> QED BY <2>1, <2>2, <3>1, <4>1 DEF LogOK
    <3>2. CASE d \notin DOMAIN entries   BY <2>1, <2>2, <3>2 DEF LogOK
    <3> QED BY <3>1, <3>2
  <2> QED BY <2>1, <2>2, NoCommandsTyped DEF LogOK, Right
<1>6. CASE Step
  <2>1. /\ UNCHANGED <<entries, dev, since, blind>>
        /\ saved' = saved \/ saved'.devices = entries
    BY <1>6 DEF Step, Save, world
  <2> QED BY <2>1 DEF LogOK, Right
<1>7. ASSUME NEW d \in Devices, Switched(d, todo[d]), UNCHANGED <<entries, saved>>
      PROVE  LogOK'
  <2>1. UNCHANGED <<dev, since, blind>>
        \/ (d \in blind' /\ blind \subseteq blind'
            /\ dev' = [dev EXCEPT ![d] = todo[d]] /\ since' = [since EXCEPT ![d] = 0])
    <3>1. CASE dev[d] = todo[d] /\ Unchanged(d, todo[d])
      BY <1>7, <3>1 DEF Switched, TypeOK, States
    <3>2. CASE ~(dev[d] = todo[d] /\ Unchanged(d, todo[d]))
      BY <1>7, <3>2 DEF Switched
    <3> QED BY <3>1, <3>2
  <2>2. \A e \in Devices \ {d} : dev'[e] = dev[e] /\ since'[e] = since[e]
    BY <2>1 DEF TypeOK, States
  <2>3. DOMAIN entries \subseteq Devices /\ DOMAIN saved.devices \subseteq Devices
    BY DEF TypeOK, IsLog
  <2>4. CASE UNCHANGED <<dev, since, blind>>   BY <1>7, <2>4 DEF LogOK, Right
  <2>5. CASE d \in blind' /\ blind \subseteq blind'
    BY <1>7, <2>2, <2>3, <2>5 DEF LogOK, Right
  <2> QED BY <2>1, <2>4, <2>5
<1>8. CASE UNCHANGED <<entries, saved, dev, since, blind>>
  BY <1>8 DEF LogOK, Right
<1>9. CASE \E d \in Devices : Answered(d) \/ Unanswered(d)
  BY <1>7, <1>8, <1>9 DEF Answered, Unanswered, process, world
<1>10. CASE Terminate
  BY <1>7, <1>8, <1>10 DEF Terminate, process, world
<1>11. CASE RoundEnds
  <2>1. /\ entries' = Recorded(done, pc # "window") /\ blind' = blind \ Dated
        /\ UNCHANGED <<dev, since>>
        /\ saved' = saved \/ saved'.devices = entries'
    BY <1>11 DEF RoundEnds, Recording, Save
  <2>2. (pc # "window") \in BOOLEAN   OBVIOUS
  <2>3. \A d \in DOMAIN entries' \ blind' : Right(entries'[d], d)
    BY <2>1, <2>2, RecordedRight
  <2>4. DOMAIN entries' = DOMAIN entries \cup DOMAIN done
    BY <2>1, <2>2, RecordedTyped DEF TypeOK
  <2>5. \A d \in DOMAIN saved'.devices \ (DOMAIN entries' \cup blind') : Right(saved'.devices[d], d)
    BY <2>1, <2>4 DEF LogOK, Dated
  <2> QED BY <2>1, <2>3, <2>5 DEF LogOK, Right
<1>12. CASE Exits
  <2> DEFINE log == Recorded(done, TRUE)
  <2>1. /\ entries' = NoCommands /\ blind' = (blind \ Dated) \cup Unsaved(log, saved'.devices)
        /\ UNCHANGED <<dev, since>>
        /\ saved' = saved \/ saved'.devices = log
    <3>1. Recording(log) /\ blind' = (blind \ Dated) \cup Unsaved(log, saved'.devices) /\ Gone
      BY <1>12 DEF Exits
    <3> HIDE DEF log
    <3> QED BY <3>1 DEF Gone, Recording, Save
  <2>2. \A d \in DOMAIN log : d \notin blind \ Dated => Right(log[d], d)   BY RecordedRight
  <2>3. DOMAIN log = DOMAIN entries \cup DOMAIN done   BY RecordedTyped DEF TypeOK
  <2> HIDE DEF log
  <2>4. ASSUME NEW d \in DOMAIN saved'.devices \ blind'
        PROVE  Right(saved'.devices[d], d)
    <3>1. CASE d \in DOMAIN log
      <4>1. saved'.devices[d] = log[d]   BY <2>1, <2>4, <3>1 DEF Unsaved
      <4> QED BY <2>1, <2>2, <2>4, <3>1, <4>1
    <3>2. CASE d \notin DOMAIN log
      <4>1. saved' = saved /\ d \notin blind   BY <2>1, <2>3, <2>4, <3>2 DEF Dated
      <4> QED BY <2>3, <2>4, <3>2, <4>1 DEF LogOK
    <3> QED BY <3>1, <3>2
  <2> QED BY <2>1, <2>4, NoCommandsTyped DEF LogOK, Right
<1>13. CASE Edit \/ StaysOpen \/ StaysShut \/ Opens \/ Closes \/ Unreadable \/ StepFails \/ Turn
  BY <1>8, <1>13 DEF Edit, StaysOpen, StaysShut, Opens, Closes, Decided, Unreadable, StepFails,
                     Turn, process, world
<1>14. CASE UNCHANGED vars   BY <1>8, <1>14 DEF vars
<1> QED BY <1>1, <1>2, <1>3, <1>4, <1>5, <1>6, <1>9, <1>10, <1>11, <1>12, <1>13, <1>14 DEF Next

-----------------------------------------------------------------------------
(***************************************************************************)
(* Rounds.                                                                 *)
(***************************************************************************)
\* A device answers at most once in a round.
LEMMA DevicesOnce ==
  ASSUME TypeOK, RoundOK, NEW d \in Devices, d \in DOMAIN todo, Switched(d, todo[d]),
         done' = [e \in DOMAIN done \cup {d} |-> IF e = d THEN todo[d] ELSE done[e]],
         todo' = Restrict(todo, DOMAIN todo \ {d}), UNCHANGED <<doc, entries>>
  PROVE  RoundOK'
<1>1. /\ DOMAIN todo' = DOMAIN todo \ {d} /\ DOMAIN done' = DOMAIN done \cup {d}
      /\ \A e \in DOMAIN done' : done'[e] = IF e = d THEN todo[d] ELSE done[e]
  BY DEF Restrict
<1>2. DOMAIN done \subseteq Devices /\ d \notin DOMAIN done
  BY DEF TypeOK, AreCommands, RoundOK
<1>3. dev'[d] = todo[d] /\ \A e \in Devices \ {d} : dev'[e] = dev[e]
  BY DEF Switched, TypeOK, States
<1>4. \A e, v : Unchanged(e, v)' <=> Unchanged(e, v)   BY DEF Unchanged, Identity
<1>5. blind \subseteq blind' /\ \A e \in Devices \ {d} : since'[e] = since[e]
  BY DEF Switched, TypeOK
<1>6. ~Unchanged(d, todo[d]) => d \in blind' /\ since'[d] = 0
  BY DEF Switched, TypeOK
<1>7. ASSUME NEW e \in DOMAIN done'
      PROVE  dev'[e] = done'[e] /\ (~Unchanged(e, done'[e]) => e \in blind' /\ since'[e] = 0)
  <2>1. CASE e = d   BY <1>1, <1>3, <1>6, <2>1
  <2>2. CASE e # d
    <3>1. e \in DOMAIN done /\ e \in Devices /\ done'[e] = done[e]   BY <1>1, <1>2, <1>7, <2>2
    <3> QED BY <1>3, <1>5, <2>2, <3>1 DEF RoundOK
  <2> QED BY <2>1, <2>2
<1>8. \A e : Unchanged(e, done[e])' <=> Unchanged(e, done'[e])   BY <1>4
<1> QED BY <1>1, <1>2, <1>7, <1>8 DEF RoundOK

\* Every step leaves a device that has answered where it was put.
LEMMA RoundStep ==
  ASSUME TypeOK, Quiet, RoundOK, [Next]_vars
  PROVE  RoundOK'
<1>1. CASE DOMAIN done' = {}   BY <1>1 DEF RoundOK
<1>2. CASE pc \notin Commanding /\ done' = done
  BY <1>1, <1>2, NoCommandsTyped DEF Quiet
<1>3. CASE \E d \in Devices : Answered(d)
  BY <1>3, DevicesOnce DEF Answered, Due, process
<1>4. ASSUME NEW d \in Devices, Due(d), Switched(d, todo[d]), UNCHANGED <<doc, entries, done, todo>>
      PROVE  RoundOK'
  <2>1. d \in DOMAIN todo /\ DOMAIN done \subseteq Devices \ {d}
    BY <1>4 DEF Due, RoundOK, TypeOK, AreCommands
  <2>2. /\ \A e \in Devices \ {d} : dev'[e] = dev[e] /\ since'[e] = since[e]
        /\ blind \subseteq blind'
    BY <1>4 DEF Switched, TypeOK, States
  <2>3. \A e : Unchanged(e, done[e])' <=> Unchanged(e, done[e])   BY <1>4 DEF Unchanged, Identity
  <2> QED BY <1>4, <2>1, <2>2, <2>3 DEF RoundOK
<1>5. CASE UNCHANGED <<doc, entries, done, todo, dev, since, blind>>
  BY <1>5 DEF RoundOK, Unchanged, Identity
<1>6. CASE \E d \in Devices : Unanswered(d)
  BY <1>4, <1>5, <1>6 DEF Unanswered, process, world
<1>7. CASE Terminate
  <2>1. CASE pc \in Commanding
    BY <1>4, <1>5, <1>7, <2>1 DEF Terminate, process, world
  <2>2. CASE pc \notin Commanding
    BY <1>2, <1>7, <2>2 DEF Terminate
  <2> QED BY <2>1, <2>2
<1>8. CASE Kill \/ RoundEnds \/ Exits
  BY <1>1, <1>8, NoCommandsTyped DEF Kill, RoundEnds, Exits, Recording
<1>9. CASE \/ Start \/ Edit \/ Elapse \/ StaysOpen \/ StaysShut \/ Opens \/ Closes \/ Unreadable
           \/ StepFails \/ Step \/ Turn \/ Dwell \/ Rest
  <2>1. pc \notin Commanding /\ done' = done
    BY <1>9 DEF Start, Edit, Elapse, StaysOpen, StaysShut, Opens, Closes, Decided, Unreadable,
                StepFails, Step, Turn, Dwell, Rest, Commanding
  <2> QED BY <1>2, <2>1
<1>10. CASE UNCHANGED vars   BY <1>5, <1>10 DEF vars
<1> QED BY <1>3, <1>6, <1>7, <1>8, <1>9, <1>10 DEF Next

-----------------------------------------------------------------------------
(***************************************************************************)
(* Devices left alone.                                                     *)
(***************************************************************************)
\* Every command outside a window is one of a state the document names.
LEMMA ForcedStep ==
  ASSUME TypeOK, Quiet, ForcedOK, [Next]_vars
  PROVE  ForcedOK'
<1>1. CASE pc' \notin Commanding \ {"window"}   BY <1>1 DEF ForcedOK
<1>2. CASE todo' = NoCommands   BY <1>2, NoCommandsTyped DEF ForcedOK
<1>3. ASSUME doc' = doc, pc \in Commanding \/ pc' \notin Commanding, pc' = pc,
             todo' = todo \/ \E d : todo' = Restrict(todo, DOMAIN todo \ {d})
      PROVE  ForcedOK'
  BY <1>3 DEF ForcedOK, Forced, Named, Restrict
<1>4. ASSUME NEW state \in Named(doc), NEW next, NEW otherwise, doc' = doc,
             Command(state, next, otherwise)
      PROVE  ForcedOK'
  BY <1>4, Commanded DEF ForcedOK, Forced, Named
<1>5. CASE Start \/ Closes \/ Unreadable \/ StepFails
  BY <1>4, <1>5, NamedStates DEF Start, Closes, Unreadable, StepFails, Decided, FailSafe
<1>6. CASE \E d \in Devices : Answered(d) \/ Unanswered(d)
  BY <1>3, <1>6 DEF Answered, Unanswered, process
<1>7. CASE Terminate
  BY <1>3, <1>4, <1>7, NamedStates DEF Terminate, Leave
<1>8. CASE RoundEnds
  <2>1. doc' = doc /\ AfterRound   BY <1>8 DEF RoundEnds, Recording
  <2> QED BY <1>2, <1>4, <2>1, NamedStates DEF AfterRound, Proceeds, FailSafe, Leave
<1>9. CASE \/ Kill \/ Exits \/ Edit \/ Elapse \/ StaysOpen \/ StaysShut \/ Opens \/ Step
           \/ Turn \/ Dwell \/ Rest
  BY <1>1, <1>9 DEF Kill, Exits, Edit, Elapse, StaysOpen, StaysShut, Opens, Step, Turn, Dwell,
                    Rest, Commanding
<1>10. CASE UNCHANGED vars   BY <1>10 DEF vars, ForcedOK, Forced, Named
<1> QED BY <1>5, <1>6, <1>7, <1>8, <1>9, <1>10 DEF Next

\* A forced command that reaches its device leaves the others as they are.
LEMMA ForcedReaches ==
  ASSUME TypeOK, Quiet, ForcedOK, IdleOK, LeavesNone, NEW d \in Devices, d \in DOMAIN todo,
         Switched(d, todo[d]), UNCHANGED <<doc, pc, acting>>,
         todo' = todo \/ (pc # "window" /\ todo' = Restrict(todo, DOMAIN todo \ {d}))
  PROVE  IdleOK'
<1>1. \A e : Forced(doc, e)' = Forced(doc, e)   BY DEF Forced, Named
<1>2. dev'[d] = todo[d] /\ \A e \in Devices \ {d} : dev'[e] = dev[e]
  BY DEF Switched, TypeOK, States
<1>3. /\ DOMAIN todo \ {d} \subseteq DOMAIN todo' /\ DOMAIN todo' \subseteq DOMAIN todo
      /\ \A e \in DOMAIN todo' : todo'[e] = todo[e]
  BY DEF Restrict
<1>4. pc \in {"asserting", "closing", "failing"} => todo[d] \in Forced(doc, d)
  BY DEF ForcedOK, Commanding
<1>5. ASSUME pc \in {"asserting", "closing"}
      PROVE  \A e \in Devices : e \in DOMAIN todo' \/ dev'[e] \in Forced(doc, e)
  BY <1>2, <1>3, <1>4, <1>5 DEF IdleOK
<1>6. ASSUME pc \notin {"down", "asserting", "closing", "leaving"}, acting # "yes"
      PROVE  \A e \in Devices : dev'[e] \in Forced(doc, e)
  <2>1. todo # NoCommands   BY NoCommandsTyped
  <2>2. pc = "failing"   BY <1>6, <2>1 DEF Quiet, Commanding, InWindow
  <2> QED BY <1>2, <1>4, <1>6, <2>2 DEF IdleOK
<1> QED BY <1>1, <1>5, <1>6 DEF IdleOK

\* Every step leaves the devices in named states until a rung is asked for.
LEMMA IdleStep ==
  ASSUME TypeOK, Quiet, ForcedOK, IdleOK, [Next]_vars
  PROVE  IdleOK'
<1> SUFFICES ASSUME LeavesNone' PROVE IdleOK'   BY DEF IdleOK
<1>1. CASE pc' = "down" \/ (pc' \in {"stepping"} \cup InWindow /\ acting' = "yes")
  BY <1>1 DEF IdleOK, InWindow
<1>2. CASE pc' = "leaving"   BY <1>2 DEF IdleOK
<1>3. ASSUME doc' = doc
      PROVE  LeavesNone /\ \A d : Forced(doc, d)' = Forced(doc, d)
  BY <1>3 DEF LeavesNone, Forced, Named
<1>4. ASSUME NEW state \in Named(doc), NEW next, NEW otherwise, doc' = doc,
             Command(state, next, otherwise)
      PROVE  /\ pc' = next /\ DOMAIN todo' = Devices
             /\ \A d \in DOMAIN todo' : todo'[d] \in Forced(doc', d)
  <2>1. ~Leaves(state)   BY <1>3, <1>4 DEF LeavesNone
  <2> QED BY <1>3, <1>4, <2>1, Commanded
<1>5. CASE Start
  <2>1. doc' = doc   BY <1>5 DEF Start
  <2>2. PICK inside \in (IF doc.period THEN BOOLEAN ELSE {TRUE}) :
          Command(StartingState(inside), "asserting", "deciding")
    BY <1>5 DEF Start
  <2>3. pc' = "asserting" /\ DOMAIN todo' = Devices
        /\ \A d \in DOMAIN todo' : todo'[d] \in Forced(doc', d)
    BY <1>4, <2>1, <2>2, NamedStates
  <2> QED BY <2>3 DEF IdleOK
<1>6. CASE Edit \/ Elapse \/ Kill \/ Exits
  <2>1. pc' = "down"   BY <1>6 DEF Edit, Elapse, Kill, Exits
  <2> QED BY <1>1, <2>1
<1>7. ASSUME UNCHANGED <<doc, pc, acting, todo, dev>> PROVE IdleOK'
  BY <1>3, <1>7 DEF IdleOK
<1>8. CASE \E d \in Devices : Answered(d)
  <2>1. PICK d \in Devices : Answered(d)   BY <1>8
  <2>2. /\ d \in DOMAIN todo /\ Switched(d, todo[d]) /\ UNCHANGED <<doc, pc, acting>>
        /\ todo' = Restrict(todo, DOMAIN todo \ {d})
    BY <2>1 DEF Answered, Due, process
  <2>3. CASE pc = "window"
    BY <1>1, <2>2, <2>3 DEF Quiet, InWindow
  <2>4. CASE pc # "window"   BY <1>3, <2>2, <2>4, ForcedReaches
  <2> QED BY <2>3, <2>4
<1>9. CASE \E d \in Devices : Unanswered(d)
  BY <1>3, <1>7, <1>9, ForcedReaches DEF Unanswered, Due, process, world
<1>10. CASE Terminate
  <2>1. CASE pc \in Commanding
    BY <1>3, <1>7, <1>10, <2>1, ForcedReaches DEF Terminate, Due, process, world
  <2>2. CASE pc \notin Commanding
    <3>1. pc' = "leaving"   BY <1>10, <2>2 DEF Terminate, Leave, Command
    <3> QED BY <1>2, <3>1
  <2> QED BY <2>1, <2>2
<1>11. CASE StaysOpen \/ Opens \/ Step \/ Turn \/ Dwell
  <2>1. CASE StaysOpen \/ Opens   BY <1>1, <2>1 DEF StaysOpen, Opens
  <2>2. CASE Step \/ Turn
    BY <1>1, <2>2 DEF Step, Turn, process, Quiet, InWindow
  <2>3. CASE Dwell
    <3>1. acting' = "yes" /\ pc' \in {"deciding", "turning"}
      BY <2>3 DEF Dwell, Quiet, InWindow
    <3> QED BY <3>1 DEF IdleOK
  <2> QED BY <1>11, <2>1, <2>2, <2>3
<1>12. CASE StaysShut \/ Rest
  <2>1. /\ pc \in {"deciding", "resting"} /\ UNCHANGED <<doc, dev>>
        /\ pc' \in {"deciding", "resting"} /\ (acting # "yes" \/ acting' = "yes")
    BY <1>12 DEF StaysShut, Rest, Decided, world
  <2> QED BY <1>3, <2>1 DEF IdleOK
<1>13. CASE Closes
  <2>1. doc' = doc /\ Command(ClosingState, "closing", "resting")   BY <1>13 DEF Closes, Decided
  <2>2. pc' = "closing" /\ DOMAIN todo' = Devices
        /\ \A d \in DOMAIN todo' : todo'[d] \in Forced(doc', d)
    BY <1>4, <2>1, NamedStates
  <2> QED BY <2>2 DEF IdleOK
<1>14. ASSUME FailSafe, UNCHANGED <<doc, acting, dev>>,
              acting = "yes" \/ pc = "deciding"
       PROVE  IdleOK'
  <2>1. pc' = "failing" /\ \A d \in DOMAIN todo' : todo'[d] \in Forced(doc', d)
    BY <1>4, <1>14, NamedStates DEF FailSafe
  <2>2. acting # "yes" => \A d \in Devices : dev'[d] \in Forced(doc', d)
    BY <1>3, <1>14 DEF IdleOK
  <2> QED BY <1>14, <2>1, <2>2 DEF IdleOK
<1>15. CASE Unreadable \/ StepFails
  BY <1>14, <1>15 DEF Unreadable, StepFails, world, Quiet
<1>16. CASE RoundEnds
  <2>1. /\ UNCHANGED <<doc, dev>> /\ AfterRound /\ pc \in Commanding
        /\ todo = NoCommands \/ broke # "no"
    BY <1>16 DEF RoundEnds, Recording
  <2>2. CASE Proceeds("asserting", "deciding")
    <3>1. pc = "asserting" /\ todo = NoCommands /\ pc' = "deciding"   BY <2>1, <2>2 DEF Proceeds
    <3> QED BY <1>3, <2>1, <3>1, NoCommandsTyped DEF IdleOK
  <2>3. CASE Proceeds("window", "dwelling")
    BY <1>1, <2>3 DEF Proceeds, Quiet, InWindow
  <2>4. CASE pc = "closing" /\ broke = "no" /\ pc' = "resting"
    BY <1>3, <2>1, <2>4, NoCommandsTyped DEF IdleOK
  <2>5. CASE pc \in {"closing", "window"} /\ FailSafe /\ UNCHANGED acting
    <3>1. acting = "yes"   BY <2>5 DEF Quiet, InWindow
    <3> QED BY <1>14, <2>1, <2>5, <3>1
  <2>6. CASE pc = "failing" /\ pc' = "resting" /\ UNCHANGED acting
    BY <1>3, <2>1, <2>6 DEF IdleOK
  <2>7. CASE Leave
    <3>1. pc' = "leaving"   BY <2>7 DEF Leave, Command
    <3> QED BY <1>2, <3>1
  <2> QED BY <2>1, <2>2, <2>3, <2>4, <2>5, <2>6, <2>7 DEF AfterRound
<1>17. CASE UNCHANGED vars   BY <1>7, <1>17 DEF vars
<1> QED BY <1>5, <1>6, <1>8, <1>9, <1>10, <1>11, <1>12, <1>13, <1>15, <1>16, <1>17 DEF Next

-----------------------------------------------------------------------------
(***************************************************************************)
(* Holds.                                                                  *)
(***************************************************************************)
\* Held or not, an integral is as old as the hold it waits out.
Held(p) == p.gated /\ p.total /\ integral # Fresh => held = integral.idle

\* What is held is held for as long as its integral idles.
LEMMA HoldHeld ==
  ASSUME TypeOK, HoldOK, Hold, doc' = doc,
         pc \in {"deciding", "closing", "failing"} \cup InWindow
  PROVE  ~auto' /\ integral' = integral /\ Held(doc)'
<1>1. ~auto' /\ integral' = integral   BY DEF Hold
<1>2. integral # Fresh => integral.idle \in Nat   BY NumberFacts DEF TypeOK, Integrals
<1>3. CASE doc.gated /\ doc.total /\ integral # Fresh
  <2>1. CASE auto
    <3>1. integral.idle = 0 /\ held' = 0   BY <1>3, <2>1 DEF HoldOK, Hold
    <3> QED BY <1>1, <1>3, <3>1 DEF Held
  <2>2. CASE ~auto
    <3>1. held = integral.idle   BY <1>3, <2>2 DEF HoldOK
    <3>2. held' = held   BY <1>2, <1>3, <3>1 DEF Hold, NotHeld
    <3> QED BY <1>1, <1>3, <3>1, <3>2 DEF Held
  <2> QED BY <2>1, <2>2
<1> QED BY <1>1, <1>3 DEF Held

\* Every step keeps an integral and its hold together.
LEMMA HoldStep ==
  ASSUME TypeOK, Quiet, HoldOK, [Next]_vars
  PROVE  HoldOK'
<1> USE NumberFacts
<1>1. ASSUME integral' = Fresh, auto' => held' = NotHeld,
             pc' \in {"stepping"} \cup InWindow => auto',
             pc' \in {"closing", "failing", "resting"} => ~auto'
      PROVE  HoldOK'
  BY <1>1 DEF HoldOK
<1>2. CASE Start
  <2>1. PICK section : ResumesFrom(section)   BY <1>2 DEF Start
  <2>2. pc' \in {"asserting", "deciding"} /\ doc' = doc   BY <1>2 DEF Start, Command
  <2>3. CASE Resumable(section)
    <3>1. /\ integral' = [from |-> section.from, idle |-> Aged(section.age, 0, HoldBound + 1)]
          /\ held' = integral'.idle /\ auto' = FALSE /\ section.from = LoopMaterial
      BY <2>1, <2>3 DEF ResumesFrom, Resumable
    <3> QED BY <2>2, <3>1 DEF HoldOK, LoopMaterial, InWindow
  <2>4. CASE ~Resumable(section)
    BY <1>1, <2>1, <2>2, <2>4 DEF ResumesFrom, InWindow
  <2> QED BY <2>3, <2>4
<1>3. CASE Edit \/ Elapse
  <2>1. pc' = "down" /\ integral' = Fresh /\ held' = NotHeld
    BY <1>3 DEF Edit, Elapse, Pass, process, Quiet
  <2> QED BY <1>1, <2>1 DEF InWindow
<1>4. CASE Kill \/ Exits
  BY <1>1, <1>4 DEF Kill, Exits, Gone, InWindow
<1>5. CASE UNCHANGED <<doc, pc, pid>>
  BY <1>5 DEF HoldOK, LoopMaterial, pid
<1>6. ASSUME UNCHANGED <<doc, pid>>, pc' = "leaving" PROVE HoldOK'
  BY <1>6 DEF HoldOK, LoopMaterial, pid, InWindow
<1>7. CASE Terminate
  BY <1>5, <1>6, <1>7 DEF Terminate, Leave, Command, process, pid
<1>8. CASE StaysOpen \/ Opens
  <2>1. pc = "deciding" /\ pc' = "stepping" /\ doc' = doc /\ Resume
    BY <1>8 DEF StaysOpen, Opens, Decided
  <2>2. ASSUME integral' = integral, integral # Fresh, doc.gated /\ doc.total
        PROVE  integral.idle <= HoldBound
    BY <2>1, <2>2, ClockFacts DEF HoldOK, Resume
  <2> QED BY <2>1, <2>2 DEF HoldOK, LoopMaterial, Resume, InWindow
<1>9. ASSUME Hold, doc' = doc, pc \in {"deciding", "closing", "failing"} \cup InWindow,
             pc' \in {"closing", "failing", "resting", "leaving"}
      PROVE  HoldOK'
  <2>1. ~auto' /\ integral' = integral /\ Held(doc)'   BY <1>9, HoldHeld
  <2> QED BY <1>9, <2>1 DEF HoldOK, LoopMaterial, Held, InWindow
<1>10. CASE StaysShut \/ Closes \/ Unreadable
  BY <1>9, <1>10 DEF StaysShut, Closes, Unreadable, Decided, FailSafe, Command
<1>11. CASE StepFails
  <2>1. /\ integral' = integral /\ doc' = doc /\ ~auto' /\ pc' \in {"failing", "resting"}
        /\ ~(doc.gated /\ doc.total)
    BY <1>11 DEF StepFails, FailSafe, Hold, Command
  <2> QED BY <2>1 DEF HoldOK, LoopMaterial, InWindow
<1>12. CASE Step
  <2>1. /\ integral' = [from |-> LoopMaterial, idle |-> 0] /\ UNCHANGED <<doc, held, auto>>
        /\ pc = "stepping" /\ pc' = "turning"
    BY <1>12 DEF Step
  <2> QED BY <2>1 DEF HoldOK, LoopMaterial, InWindow
<1>13. CASE Turn
  BY <1>13 DEF Turn, process, HoldOK, LoopMaterial, InWindow
<1>14. CASE \E d \in Devices : Answered(d) \/ Unanswered(d)
  BY <1>5, <1>14 DEF Answered, Unanswered, process, pid
<1>15. CASE RoundEnds
  <2>1. AfterRound /\ doc' = doc   BY <1>15 DEF RoundEnds, Recording
  <2>2. CASE Proceeds("asserting", "deciding") \/ Proceeds("window", "dwelling")
    BY <2>1, <2>2 DEF Proceeds, HoldOK, LoopMaterial, pid, InWindow
  <2>3. CASE pc \in {"closing", "failing"} /\ pc' = "resting" /\ UNCHANGED pid
    BY <2>1, <2>3 DEF HoldOK, LoopMaterial, pid, InWindow
  <2>4. CASE pc \in {"closing", "window"} /\ FailSafe
    BY <1>9, <2>1, <2>4 DEF FailSafe, Command, InWindow
  <2>5. CASE Leave /\ UNCHANGED pid
    BY <1>6, <2>1, <2>5 DEF Leave, Command
  <2> QED BY <2>1, <2>2, <2>3, <2>4, <2>5 DEF AfterRound
<1>16. CASE Dwell
  <2>1. /\ pc = "dwelling" /\ pc' \in {"deciding", "turning"} /\ UNCHANGED <<doc, integral, auto>>
        /\ held = NotHeld => held' = NotHeld
    BY <1>16 DEF Dwell, Pass
  <2> QED BY <2>1 DEF HoldOK, LoopMaterial, InWindow
<1>17. CASE Rest
  <2>1. /\ pc = "resting" /\ pc' = "deciding" /\ UNCHANGED <<doc, auto>>
        /\ Idled(Cycle) /\ Pass(Cycle)
    BY <1>17 DEF Rest
  <2>2. ~auto   BY <2>1 DEF HoldOK
  <2>3. CASE integral = Fresh
    BY <1>1, <2>1, <2>2, <2>3 DEF Idled, InWindow
  <2>4. CASE integral # Fresh
    <3>1. integral' = [integral EXCEPT !.idle = Aged(@, Cycle, HoldBound + 1)]
      BY <2>1, <2>4 DEF Idled
    <3>2. integral'.from = integral.from /\ integral'.idle = Aged(integral.idle, Cycle, HoldBound + 1)
      BY <3>1 DEF TypeOK, Integrals
    <3>3. ASSUME doc.gated /\ doc.total PROVE held' = integral'.idle
      <4>1. held = integral.idle   BY <2>2, <2>4, <3>3 DEF HoldOK
      <4>2. held # NotHeld   BY <4>1 DEF TypeOK, Integrals, NotHeld
      <4> QED BY <2>1, <3>2, <4>1, <4>2 DEF Pass
    <3> QED BY <2>1, <2>2, <2>4, <3>2, <3>3 DEF HoldOK, LoopMaterial, InWindow
  <2> QED BY <2>3, <2>4
<1>18. CASE UNCHANGED vars   BY <1>5, <1>18 DEF vars, pid
<1> QED BY <1>2, <1>3, <1>4, <1>7, <1>8, <1>10, <1>11, <1>12, <1>13, <1>14, <1>15, <1>16,
           <1>17, <1>18 DEF Next

-----------------------------------------------------------------------------
(***************************************************************************)
(* Values within their scale.                                              *)
(***************************************************************************)
\* What is recorded is a state that the device can be in, under any document that
\* means the same device.
LEMMA RecordedInScale ==
  ASSUME TypeOK, ScaleOK, NEW forced \in BOOLEAN
  PROVE  InScale(Recorded(done, forced))
<1> DEFINE log == Recorded(done, forced)
<1>1. /\ DOMAIN log = DOMAIN entries \cup DOMAIN done
      /\ \A d \in DOMAIN entries \cup DOMAIN done :
           log[d] = IF d \notin DOMAIN done THEN entries[d]
                    ELSE IF Unchanged(d, done[d]) THEN [entries[d] EXCEPT !.forced = @ /\ forced]
                    ELSE [state |-> done[d], age |-> 0, for |-> Identity(d), forced |-> forced]
  BY RecordedTyped DEF TypeOK
<1> HIDE DEF log
<1>2. \A d \in DOMAIN entries : entries[d] \in Entries   BY DEF TypeOK, IsLog
<1>3. ASSUME NEW d \in DOMAIN log, NEW p \in Documents, log[d].for = p.identity[d]
      PROVE  WithinScale(p, d, log[d].state) = log[d].state
  <2>1. CASE d \notin DOMAIN done
    BY <1>1, <1>3, <2>1 DEF ScaleOK, InScale
  <2>2. CASE d \in DOMAIN done /\ Unchanged(d, done[d])
    <3>1. d \in DOMAIN entries /\ log[d] = [entries[d] EXCEPT !.forced = @ /\ forced]
      BY <1>1, <2>2 DEF Unchanged
    <3>2. log[d].for = entries[d].for /\ log[d].state = entries[d].state
      BY <1>2, <3>1 DEF Entries
    <3> QED BY <1>3, <3>1, <3>2 DEF ScaleOK, InScale
  <2>3. CASE d \in DOMAIN done /\ ~Unchanged(d, done[d])
    <3>1. log[d].for = doc.identity[d] /\ log[d].state = done[d]
      <4>1. log[d] = [state |-> done[d], age |-> 0, for |-> Identity(d), forced |-> forced]
        BY <1>1, <2>3
      <4> QED BY <4>1 DEF Identity
    <3>2. p.full = doc.full /\ (d \in p.driven <=> d \in doc.driven)
      BY <1>3, <2>3, <3>1, IdentityAssumption DEF TypeOK, AreCommands
    <3>3. WithinScale(p, d, done[d]) = WithinScale(doc, d, done[d])   BY <3>2 DEF WithinScale
    <3> QED BY <2>3, <3>1, <3>3 DEF ScaleOK
  <2> QED BY <2>1, <2>2, <2>3
<1> QED BY <1>3 DEF InScale, log

\* Aging changes no state.
LEMMA AgedInScale ==
  ASSUME NEW log, IsLog(log), NEW n \in Nat, InScale(log)
  PROVE  InScale(AgedLog(log, n))
BY AgedLogTyped DEF InScale

\* Every step keeps what is recorded and what is sent within scale.
LEMMA ScaleStep ==
  ASSUME TypeOK, PlanOK, Quiet, ScaleOK, [Next]_vars
  PROVE  ScaleOK'
<1>1. InScale(NoCommands)   BY NoCommandsTyped DEF InScale
<1>2. \A d \in DOMAIN NoCommands : FALSE   BY NoCommandsTyped
<1>3. ASSUME UNCHANGED <<doc, todo, done>>, InScale(entries'), InScale(saved'.devices)
      PROVE  ScaleOK'
  BY <1>3 DEF ScaleOK, WithinScale, InScale
<1>4. ASSUME doc' = doc, done' = done \/ done' = NoCommands,
             entries' = entries, saved' = saved,
             todo' = NoCommands \/ todo' = todo \/ \A d \in DOMAIN todo' : WithinScale(doc, d, todo'[d]) = todo'[d]
      PROVE  ScaleOK'
  BY <1>2, <1>4 DEF ScaleOK, WithinScale, InScale
<1>5. ASSUME NEW state \in Named(doc), NEW next, NEW otherwise, Command(state, next, otherwise)
      PROVE  \A d \in DOMAIN todo' : WithinScale(doc, d, todo'[d]) = todo'[d]
  BY <1>5, Commanded
<1>6. ASSUME InScale(entries'), InScale(saved'.devices), doc' = doc, done' = NoCommands,
             todo' = NoCommands \/ \A d \in DOMAIN todo' : WithinScale(doc, d, todo'[d]) = todo'[d]
      PROVE  ScaleOK'
  BY <1>2, <1>6 DEF ScaleOK, WithinScale, InScale
<1>7. CASE Start
  <2>1. /\ entries' = saved.devices \/ entries' = NoCommands
        /\ UNCHANGED <<doc, done, saved>> /\ pc = "down"
    BY <1>7 DEF Start, NoLog
  <2>2. done' = NoCommands   BY <2>1 DEF Quiet, Commanding
  <2>3. \A d \in DOMAIN todo' : WithinScale(doc, d, todo'[d]) = todo'[d]
    BY <1>5, <1>7, NamedStates DEF Start
  <2> QED BY <1>1, <1>6, <2>1, <2>2, <2>3 DEF ScaleOK
<1>8. CASE Edit
  <2>1. UNCHANGED <<todo, done, entries, saved>> /\ pc = "down"   BY <1>8 DEF Edit, process
  <2>2. todo' = NoCommands /\ done' = NoCommands   BY <2>1 DEF Quiet, Commanding
  <2> QED BY <1>2, <2>1, <2>2 DEF ScaleOK, InScale, WithinScale
<1>9. ASSUME NEW n \in Nat, Pass(n), UNCHANGED <<doc, todo, done>>
      PROVE  ScaleOK'
  <2>1. entries' = AgedLog(entries, n) /\ saved'.devices = AgedLog(saved.devices, n)
    BY <1>9 DEF Pass
  <2> QED BY <1>3, <1>9, <2>1, AgedInScale DEF ScaleOK, TypeOK
<1>10. CASE Elapse   BY <1>9, <1>10 DEF Elapse
<1>11. CASE Rest   BY <1>9, <1>11, NumberFacts DEF Rest
<1>12. CASE Dwell
  <2>1. plan[1].seconds \in 0..Cycle   BY <1>12 DEF Dwell, PlanOK, InWindow
  <2>2. plan[1].seconds \in Nat   BY <2>1, NumberFacts
  <2> QED BY <1>9, <1>12, <2>2 DEF Dwell
<1>13. CASE Kill
  BY <1>1, <1>6, <1>13 DEF Kill, Gone, ScaleOK
<1>14. CASE RoundEnds
  <2>1. /\ doc' = doc /\ done' = NoCommands /\ entries' = Recorded(done, pc # "window")
        /\ saved' = saved \/ saved'.devices = entries'
    BY <1>14 DEF RoundEnds, Recording, Save
  <2>2. (pc # "window") \in BOOLEAN   OBVIOUS
  <2>3. InScale(entries')   BY <2>1, <2>2, RecordedInScale
  <2>4. todo' = NoCommands \/ \A d \in DOMAIN todo' : WithinScale(doc, d, todo'[d]) = todo'[d]
    <3>1. AfterRound   BY <1>14 DEF RoundEnds
    <3> QED BY <1>5, <3>1, NamedStates DEF AfterRound, Proceeds, FailSafe, Leave
  <2> QED BY <1>6, <2>1, <2>3, <2>4 DEF ScaleOK
<1>15. CASE Exits
  <2> DEFINE log == Recorded(done, TRUE)
  <2>1. Recording(log) /\ todo' = NoCommands /\ Gone   BY <1>15 DEF Exits
  <2>2. InScale(log)   BY RecordedInScale
  <2> HIDE DEF log
  <2>3. /\ doc' = doc /\ done' = NoCommands /\ entries' = NoCommands
        /\ saved' = saved \/ saved'.devices = log
    BY <2>1 DEF Recording, Save, Gone
  <2> QED BY <1>1, <1>6, <2>1, <2>2, <2>3 DEF ScaleOK
<1>16. CASE Step
  <2>1. UNCHANGED <<doc, todo, done, entries>> /\ (saved' = saved \/ saved'.devices = entries)
    BY <1>16 DEF Step, Save
  <2> QED BY <1>3, <2>1 DEF ScaleOK
<1>17. CASE Turn
  <2>1. plan[1].rung.states \in States   BY <1>17 DEF Turn, PlanOK, InWindow
  <2>2. \A d \in DOMAIN todo' : WithinScale(doc, d, todo'[d]) = todo'[d]
    BY <1>17, <2>1, SentTyped DEF Turn, TypeOK
  <2> QED BY <1>4, <1>17, <2>2 DEF Turn, process
<1>18. CASE \E d \in Devices : Answered(d)
  <2>1. PICK d \in Devices : Answered(d)   BY <1>18
  <2>2. /\ UNCHANGED <<doc, entries, saved>> /\ d \in DOMAIN todo
        /\ done' = [e \in DOMAIN done \cup {d} |-> IF e = d THEN todo[d] ELSE done[e]]
        /\ todo' = Restrict(todo, DOMAIN todo \ {d})
    BY <2>1 DEF Answered, Due
  <2>3. \A e \in DOMAIN todo' : e \in DOMAIN todo /\ todo'[e] = todo[e]   BY <2>2 DEF Restrict
  <2>4. \A e \in DOMAIN done' : WithinScale(doc, e, done'[e]) = done'[e]   BY <2>2 DEF ScaleOK
  <2> QED BY <2>2, <2>3, <2>4 DEF ScaleOK, WithinScale, InScale
<1>19. CASE \E d \in Devices : Unanswered(d)
  BY <1>4, <1>19 DEF Unanswered
<1>20. CASE Terminate
  BY <1>4, <1>5, <1>20, NamedStates DEF Terminate, Leave
<1>21. CASE StaysOpen \/ StaysShut \/ Opens
  BY <1>4, <1>21 DEF StaysOpen, StaysShut, Opens, Decided
<1>22. CASE Closes
  BY <1>4, <1>5, <1>22, NamedStates DEF Closes, Decided
<1>23. CASE Unreadable \/ StepFails
  BY <1>4, <1>5, <1>23, NamedStates DEF Unreadable, StepFails, FailSafe
<1>24. CASE UNCHANGED vars   BY <1>4, <1>24 DEF vars
<1> QED BY <1>7, <1>8, <1>10, <1>11, <1>12, <1>13, <1>14, <1>15, <1>16, <1>17, <1>18, <1>19,
           <1>20, <1>21, <1>22, <1>23, <1>24 DEF Next

-----------------------------------------------------------------------------
(***************************************************************************)
(* What may be asked of the devices.                                       *)
(***************************************************************************)
\* The minimum of a device binds exactly when the log is right of it and has
\* it frozen, or holds a right entry of it that freezes nothing.
LEMMA BoundIsFrozen ==
  ASSUME TypeOK, LogOK, pc # "down"
  PROVE  /\ \A d \in Hardware!Bound : d \in Frozen /\ d \in DOMAIN entries
                                      /\ entries[d].for = Identity(d)
                                      /\ entries[d].state = dev[d]
         /\ blind \cap DOMAIN Log = {} =>
              \A d \in Frozen : d \in Hardware!Bound /\ entries[d].state = dev[d]
<1>1. Log = entries   BY DEF Log
<1>2. DOMAIN entries \subseteq Devices   BY DEF TypeOK, IsLog
<1>3. \A d \in DOMAIN entries \ blind : entries[d].state = dev[d] /\ entries[d].age = since[d]
  BY DEF LogOK, Right
<1>4. \A d : d \in Hardware!Bound <=> d \in Devices \ Released /\ since[d] < doc.min[d]
  BY DEF Hardware!Bound
<1>5. ASSUME NEW d \in Hardware!Bound
      PROVE  /\ d \in Frozen /\ d \in DOMAIN entries
             /\ entries[d].for = Identity(d) /\ entries[d].state = dev[d]
  BY <1>1, <1>3, <1>4, <1>5 DEF Frozen, Released, MinTransition
<1>6. ASSUME blind \cap DOMAIN entries = {}, NEW d \in Frozen
      PROVE  d \in Hardware!Bound /\ entries[d].state = dev[d]
  BY <1>1, <1>2, <1>3, <1>4, <1>6 DEF Frozen, Released, MinTransition
<1> QED BY <1>1, <1>5, <1>6

\* Every plan starts with a rung that may be taken.
LEMMA PlanMayBeTaken ==
  ASSUME TypeOK, LogOK, ScaleOK, pc # "down", NEW cap \in Int, NEW demand \in Int,
         NEW p, p = Planned(cap, demand)
  PROVE  /\ \E rung \in Rungs(doc) : Gives(p[1], rung) /\ Hardware!MayTake(rung)
         /\ \A d \in Hardware!Bound \cap doc.driven : Sent(doc, p[1].rung.states)[d] = dev[d]
<1> DEFINE built == BuildLadder(doc.stages)
           curve == CapLadder(built, cap)
           keeping == {r \in curve : \A d \in Frozen \ doc.driven : r.states[d] = entries[d].state}
<1>1. PICK ladder \in SUBSET built :
        /\ IsPlan(p, ladder, Cycle, doc.min, doc.driven)
        /\ \A i \in DOMAIN p, d \in Frozen \cap doc.driven : p[i].rung.states[d] = entries[d].state
        /\ ladder = keeping \/ (ladder = curve /\ keeping = {})
  BY PlannedIsPlan
<1>2. doc \in Documents   BY DEF TypeOK
<1>3. /\ Ladder(built) /\ built # {}
      /\ \A r \in built : \E rung \in Rungs(doc) : r.level = rung.level /\ r.states = rung.states
      /\ \A rung \in Rungs(doc) : \E r \in built : r.level = rung.level /\ r.states = rung.states
  BY <1>2, BuiltLadder
<1>4. /\ curve \subseteq built
      /\ \A r \in curve, s \in built :
           s.level <= r.level =>
             \/ s \in curve
             \/ s.level = r.level /\ \A t \in built : r.level <= t.level
  BY <1>3, CappedLadder DEF Ladder
<1>5. 1 \in DOMAIN p /\ p[1].rung.states \in States
  BY <1>1 DEF IsPlan, LadderRungs
<1>6. PICK r \in ladder : \A d \in Devices \ doc.driven : p[1].rung.states[d] = r.states[d]
  BY <1>1, <1>5 DEF IsPlan
<1>7. r \in built   BY <1>1
<1>8. PICK rung \in Rungs(doc) : r.level = rung.level /\ r.states = rung.states
  BY <1>3, <1>7
<1>9. Gives(p[1], rung)   BY <1>6, <1>8 DEF Gives
<1>10. \A s \in Rungs(doc) : s.level \in Int   BY <1>2, DocumentsAssumption
<1>11. /\ Hardware!Rungs = Rungs(doc)
       /\ \A s : Hardware!Keeps(s) <=> \A d \in Hardware!Bound \ doc.driven : s.states[d] = dev[d]
  BY DEF Hardware!Rungs, Rungs, Hardware!Keeps
<1>12. Hardware!MayTake(rung)
  <2>1. CASE blind \cap DOMAIN Log # {}
    BY <2>1 DEF Hardware!MayTake
  <2>2. CASE blind \cap DOMAIN Log = {}
    <3>1. \A d : d \in Hardware!Bound <=> d \in Frozen   BY <2>2, BoundIsFrozen
    <3>2. \A d \in Frozen : entries[d].state = dev[d]   BY <2>2, BoundIsFrozen
    <3>3. \A s \in curve : s \in keeping <=> \A d \in Frozen \ doc.driven : s.states[d] = dev[d]
      BY <3>2
    <3> HIDE DEF curve, keeping, built
    <3>4. CASE ladder = keeping
      <4>1. r \in curve /\ r \in keeping   BY <3>4 DEF keeping
      <4>2. Hardware!Keeps(rung)   BY <1>8, <1>11, <3>1, <3>3, <4>1
      <4> QED BY <4>2 DEF Hardware!MayTake
    <3>5. CASE ladder = curve /\ keeping = {}
      <4>1. ASSUME NEW other \in Rungs(doc), Hardware!Keeps(other)
            PROVE  \/ other.level > rung.level
                   \/ other.level = rung.level /\ Hardware!Least(rung)
        <5>1. PICK s \in built : s.level = other.level /\ s.states = other.states
          BY <1>3
        <5>2. s \notin curve   BY <1>11, <3>1, <3>3, <3>5, <4>1, <5>1
        <5>3. r \in curve   BY <3>5
        <5>4. ASSUME other.level <= rung.level
              PROVE  other.level = rung.level /\ \A t \in built : r.level <= t.level
          BY <1>4, <1>8, <5>1, <5>2, <5>3, <5>4
        <5>5. (\A t \in built : r.level <= t.level) => Hardware!Least(rung)
          BY <1>3, <1>8, <1>11 DEF Hardware!Least
        <5> QED BY <1>10, <5>4, <5>5
      <4> QED BY <1>11, <4>1 DEF Hardware!MayTake
    <3> QED BY <1>1, <3>4, <3>5
  <2> QED BY <2>1, <2>2
<1>13. ASSUME NEW d \in Hardware!Bound \cap doc.driven
       PROVE  Sent(doc, p[1].rung.states)[d] = dev[d]
  <2>1. /\ d \in Frozen /\ d \in DOMAIN entries /\ entries[d].for = Identity(d)
        /\ entries[d].state = dev[d]
    BY BoundIsFrozen
  <2>2. p[1].rung.states[d] = entries[d].state   BY <1>1, <1>5, <2>1
  <2>3. WithinScale(doc, d, entries[d].state) = entries[d].state
    BY <1>2, <2>1 DEF ScaleOK, InScale, Identity
  <2>4. d \in Devices   BY <2>1 DEF TypeOK, IsLog
  <2>5. Sent(doc, p[1].rung.states)[d] = WithinScale(doc, d, p[1].rung.states[d])
    BY <1>2, <1>5, <2>4, SentTyped
  <2> QED BY <2>1, <2>2, <2>3, <2>5
<1> QED BY <1>8, <1>9, <1>12, <1>13

\* What may be taken depends on the document, the devices and the log alone.
LEMMA SameTaken ==
  ASSUME UNCHANGED <<doc, dev, since, blind, entries>>, pc # "down", pc' # "down"
  PROVE  /\ (Hardware!Bound)' = Hardware!Bound
         /\ \A rung : Hardware!MayTake(rung) => (Hardware!MayTake(rung))'
<1>1. Log = entries /\ Log' = entries   BY DEF Log
<1>2. Released' = Released   BY <1>1 DEF Released, Identity
<1>3. (Hardware!Bound)' = Hardware!Bound   BY <1>2 DEF Hardware!Bound
<1>4. (Hardware!Rungs)' = Hardware!Rungs   BY DEF Hardware!Rungs
<1>5. \A rung : (Hardware!Keeps(rung))' <=> Hardware!Keeps(rung)   BY <1>3 DEF Hardware!Keeps
<1>6. \A rung : (Hardware!Least(rung))' <=> Hardware!Least(rung)   BY <1>4 DEF Hardware!Least
<1>7. ASSUME NEW rung, Hardware!MayTake(rung) PROVE (Hardware!MayTake(rung))'
  BY <1>1, <1>4, <1>5, <1>6, <1>7 DEF Hardware!MayTake
<1> QED BY <1>3, <1>7

\* After a dwell a device that is bound keeps its state: the next dwell changes
\* only what has been where it is for its minimum.
LEMMA NextDwell ==
  ASSUME TypeOK, PlanOK, DwellsOK, WindowOK, Dwell, plan' # <<>>
  PROVE  /\ \E rung \in Rungs(doc') : Gives(plan[1], rung)' /\ (Hardware!MayTake(rung))'
         /\ \A d \in (Hardware!Bound)' \cap doc'.driven :
              Sent(doc, plan[1].rung.states)'[d] = dev'[d]
<1>1. /\ pc = "dwelling" /\ UNCHANGED <<doc, dev>> /\ plan' = Tail(plan)
      /\ since' = [d \in DOMAIN since |-> Aged(since[d], plan[1].seconds, Longest)]
  BY DEF Dwell, Pass
<1>2. plan # <<plan[1]>> /\ DOMAIN plan = {1, 2} /\ plan'[1] = plan[2]
  BY <1>1, TailOfPlan DEF PlanOK, InWindow
<1>3. /\ plan[1].seconds \in 0..Cycle
      /\ plan[1].rung.states \in States /\ plan[2].rung.states \in States
  BY <1>1, <1>2 DEF PlanOK, InWindow
<1>4. /\ \E rung \in Rungs(doc) : Gives(plan[2], rung)
      /\ \A d \in Devices : \/ plan[2].rung.states[d] = plan[1].rung.states[d]
                            \/ d \notin doc.driven /\ doc.min[d] <= plan[1].seconds
  BY <1>1, <1>2 DEF DwellsOK, InWindow
<1>5. doc \in Documents /\ \A d \in Devices : doc.min[d] \in 0..Longest
  BY DocumentsAssumption DEF TypeOK
<1>6. ASSUME NEW d \in (Hardware!Bound)'
      PROVE  d \in Devices /\ plan[2].rung.states[d] = plan[1].rung.states[d]
  <2>1. d \in Devices /\ since'[d] < doc.min[d]   BY <1>1, <1>6 DEF Hardware!Bound
  <2>2. since'[d] = Aged(since[d], plan[1].seconds, Longest) /\ since[d] \in 0..Longest
    BY <1>1, <2>1 DEF TypeOK
  <2>3. ~(doc.min[d] <= plan[1].seconds)
    BY <1>3, <1>5, <2>1, <2>2, NumberFacts DEF Aged
  <2> QED BY <1>4, <2>1, <2>3
<1>7. dev = Sent(doc, plan[1].rung.states)   BY <1>1 DEF WindowOK
<1>8. \A d \in Devices : /\ Sent(doc, plan[1].rung.states)[d] = WithinScale(doc, d, plan[1].rung.states[d])
                         /\ Sent(doc, plan[2].rung.states)[d] = WithinScale(doc, d, plan[2].rung.states[d])
                         /\ d \notin doc.driven => dev[d] = plan[1].rung.states[d]
  BY <1>3, <1>5, <1>7, SentTyped
<1>9. PICK rung \in Rungs(doc) : Gives(plan[2], rung)   BY <1>4
<1>10. Gives(plan[1], rung)'   BY <1>1, <1>2, <1>9 DEF Gives
<1>11. (Hardware!Keeps(rung))'
  <2>1. \A d \in (Hardware!Bound)' \ doc.driven : rung.states[d] = dev[d]
    BY <1>6, <1>8, <1>9 DEF Gives
  <2> QED BY <1>1, <2>1 DEF Hardware!Keeps
<1>12. (Hardware!MayTake(rung))'   BY <1>11 DEF Hardware!MayTake
<1>13. ASSUME NEW d \in (Hardware!Bound)' \cap doc'.driven
       PROVE  Sent(doc, plan[1].rung.states)'[d] = dev'[d]
  <2>1. d \in Devices /\ plan[2].rung.states[d] = plan[1].rung.states[d]   BY <1>6
  <2>2. Sent(doc, plan[1].rung.states)' = Sent(doc, plan[2].rung.states)   BY <1>1, <1>2
  <2> QED BY <1>1, <1>7, <1>8, <2>1, <2>2
<1>14. rung \in Rungs(doc')   BY <1>1
<1> QED BY <1>10, <1>12, <1>13, <1>14

\* Every step keeps to what may be asked of the devices.
LEMMA WindowStep ==
  ASSUME TypeOK, PlanOK, DwellsOK, Quiet, LogOK, RoundOK, ScaleOK, WindowOK, [Next]_vars
  PROVE  WindowOK'
<1>1. CASE pc' \notin InWindow   BY <1>1 DEF WindowOK, InWindow
<1>2. CASE UNCHANGED <<doc, pc, todo, done, plan, dev, since, blind, entries>>
  <2>1. (pc = "window" \/ pc = "dwelling" \/ pc' \notin InWindow) => WindowOK'
    BY <1>2 DEF WindowOK, InWindow
  <2>2. CASE pc = "turning"
    <3>1. /\ (Hardware!Bound)' = Hardware!Bound
          /\ \A rung : Hardware!MayTake(rung) => (Hardware!MayTake(rung))'
      BY <1>2, <2>2, SameTaken
    <3>2. PICK rung \in Rungs(doc) : Gives(plan[1], rung) /\ Hardware!MayTake(rung)
      BY <2>2 DEF WindowOK
    <3>3. rung \in Rungs(doc') /\ Gives(plan[1], rung)' /\ (Hardware!MayTake(rung))'
      BY <1>2, <3>1, <3>2 DEF Gives
    <3>4. \A d \in (Hardware!Bound)' \cap doc'.driven : Sent(doc, plan[1].rung.states)'[d] = dev'[d]
      BY <1>2, <2>2, <3>1 DEF WindowOK
    <3> QED BY <1>2, <2>2, <3>3, <3>4 DEF WindowOK
  <2> QED BY <1>2, <2>1, <2>2 DEF InWindow
<1>3. CASE Step
  <2>1. PICK cap \in Caps, demand \in Demands : plan' = Planned(cap, demand)
    BY <1>3 DEF Step
  <2>2. pc = "stepping" /\ pc' = "turning" /\ UNCHANGED <<doc, dev, since, blind, entries>>
    BY <1>3 DEF Step, world
  <2>3. cap \in Int /\ demand \in Int   BY NumbersAssumption
  <2>4. PICK p : p = plan'   OBVIOUS
  <2>5. /\ \E rung \in Rungs(doc) : Gives(p[1], rung) /\ Hardware!MayTake(rung)
        /\ \A d \in Hardware!Bound \cap doc.driven : Sent(doc, p[1].rung.states)[d] = dev[d]
    BY <2>1, <2>2, <2>3, <2>4, PlanMayBeTaken
  <2>6. /\ (Hardware!Bound)' = Hardware!Bound
        /\ \A rung : Hardware!MayTake(rung) => (Hardware!MayTake(rung))'
    BY <2>2, SameTaken
  <2>7. PICK rung \in Rungs(doc) : Gives(p[1], rung) /\ Hardware!MayTake(rung)   BY <2>5
  <2>8. rung \in Rungs(doc') /\ Gives(plan[1], rung)' /\ (Hardware!MayTake(rung))'
    BY <2>2, <2>4, <2>6, <2>7 DEF Gives
  <2>9. \A d \in (Hardware!Bound)' \cap doc'.driven : Sent(doc, plan[1].rung.states)'[d] = dev'[d]
    BY <2>2, <2>4, <2>5, <2>6
  <2> QED BY <2>2, <2>8, <2>9 DEF WindowOK
<1>4. CASE Dwell
  <2>1. CASE plan' = <<>>
    BY <1>1, <1>4, <2>1 DEF Dwell, InWindow
  <2>2. CASE plan' # <<>>
    <3>1. pc' = "turning"   BY <1>4, <2>2 DEF Dwell
    <3> QED BY <1>4, <2>2, <3>1, NextDwell DEF WindowOK
  <2> QED BY <2>1, <2>2
<1>5. CASE Turn
  <2>1. /\ pc = "turning" /\ pc' = "window" /\ UNCHANGED <<doc, plan>>
        /\ todo' = Sent(doc, plan[1].rung.states)
    BY <1>5 DEF Turn, process
  <2>2. plan[1].rung.states \in States   BY <2>1 DEF PlanOK, InWindow
  <2>3. DOMAIN todo' = Devices   BY <2>1, <2>2, SentTyped DEF TypeOK
  <2> QED BY <2>1, <2>3 DEF WindowOK
<1>6. CASE \E d \in Devices : Answered(d)
  <2>1. PICK d \in Devices : Answered(d)   BY <1>6
  <2>2. /\ UNCHANGED <<doc, pc, plan>> /\ pc \in Commanding
        /\ done' = [e \in DOMAIN done \cup {d} |-> IF e = d THEN todo[d] ELSE done[e]]
        /\ todo' = Restrict(todo, DOMAIN todo \ {d}) /\ d \in DOMAIN todo
    BY <2>1 DEF Answered, Due, process
  <2>3. d \notin DOMAIN done   BY <2>2 DEF RoundOK
  <2>4. CASE pc = "window"
    <3>1. ASSUME NEW e \in Devices
          PROVE  \/ e \in DOMAIN todo' /\ todo'[e] = Sent(doc, plan[1].rung.states)[e]
                 \/ e \in DOMAIN done' /\ done'[e] = Sent(doc, plan[1].rung.states)[e]
      BY <2>2, <2>3, <2>4 DEF WindowOK, Restrict
    <3> QED BY <2>2, <2>4, <3>1 DEF WindowOK
  <2> QED BY <1>1, <2>2, <2>4 DEF Commanding, InWindow
<1>7. CASE UNCHANGED <<doc, pc, todo, done, plan>> /\ pc \in Commanding
  BY <1>7 DEF WindowOK, Commanding
<1>8. CASE \E d \in Devices : Unanswered(d)
  BY <1>7, <1>8 DEF Unanswered, process
<1>9. CASE Terminate
  BY <1>1, <1>7, <1>9 DEF Terminate, Leave, Command, process, InWindow
<1>10. CASE RoundEnds
  <2>1. /\ AfterRound /\ UNCHANGED <<doc, dev>> /\ (todo = NoCommands \/ broke # "no")
        /\ pc' = "dwelling" => plan' = plan
    BY <1>10 DEF RoundEnds, Recording
  <2>2. CASE Proceeds("window", "dwelling")
    <3>1. pc = "window" /\ pc' = "dwelling" /\ todo = NoCommands   BY <2>1, <2>2 DEF Proceeds
    <3>2. plan[1].rung.states \in States   BY <3>1 DEF PlanOK, InWindow
    <3>3. Sent(doc, plan[1].rung.states) \in States   BY <3>2, SentTyped DEF TypeOK
    <3>4. \A d \in Devices : d \in DOMAIN done /\ done[d] = Sent(doc, plan[1].rung.states)[d]
      BY <3>1, NoCommandsTyped DEF WindowOK
    <3>5. \A d \in Devices : dev[d] = Sent(doc, plan[1].rung.states)[d]   BY <3>4 DEF RoundOK
    <3>6. dev = Sent(doc, plan[1].rung.states)   BY <3>3, <3>5 DEF TypeOK, States
    <3> QED BY <2>1, <3>1, <3>6 DEF WindowOK
  <2>3. CASE ~Proceeds("window", "dwelling")
    <3>1. pc' \notin InWindow
      BY <2>1, <2>3 DEF AfterRound, Proceeds, FailSafe, Leave, Command, InWindow
    <3> QED BY <1>1, <3>1
  <2> QED BY <2>2, <2>3
<1>11. CASE Start \/ Kill \/ Exits \/ Rest \/ StaysOpen \/ StaysShut \/ Opens \/ Closes
            \/ Unreadable \/ StepFails
  <2>1. pc' \in {"asserting", "deciding", "down", "stepping", "resting", "closing", "failing"}
    BY <1>11 DEF Start, Kill, Exits, Rest, StaysOpen, StaysShut, Opens, Closes, Unreadable,
                 StepFails, FailSafe, Command
  <2> QED BY <1>1, <2>1 DEF InWindow
<1>12. CASE Edit \/ Elapse
  <2>1. pc' = "down"   BY <1>12 DEF Edit, Elapse
  <2> QED BY <1>1, <2>1 DEF InWindow
<1>13. CASE UNCHANGED vars   BY <1>2, <1>13 DEF vars
<1> QED BY <1>3, <1>4, <1>5, <1>6, <1>8, <1>9, <1>10, <1>11, <1>12, <1>13 DEF Next

-----------------------------------------------------------------------------
(***************************************************************************)
(* A control keeps what it promises of minimums.                           *)
(***************************************************************************)
\* Which devices a log leaves free, and which of its entries a disk lacks.
Frees(log, undated) == {d \in Devices : \/ d \in undated
                                        \/ d \notin DOMAIN log
                                        \/ log[d].for # Identity(d)
                                        \/ log[d].forced}

\* Recording a round binds devices and frees none, and leaves unsaved only what
\* was unsaved or free.
LEMMA RecordingBinds ==
  ASSUME TypeOK, RoundOK, pc # "down", NEW forced \in BOOLEAN,
         NEW log, log = Recorded(done, forced)
  PROVE  /\ Frees(log, blind \ Dated) \subseteq Released
         /\ (blind \ Dated) \cap DOMAIN log \subseteq blind \cap DOMAIN entries
         /\ Unsaved(log, saved.devices) \subseteq Unsaved(entries, saved.devices) \cup Released
<1>1. Log = entries   BY DEF Log
<1>2. /\ DOMAIN log = DOMAIN entries \cup DOMAIN done
      /\ \A d \in DOMAIN entries \cup DOMAIN done :
           log[d] = IF d \notin DOMAIN done THEN entries[d]
                    ELSE IF Unchanged(d, done[d]) THEN [entries[d] EXCEPT !.forced = @ /\ forced]
                    ELSE [state |-> done[d], age |-> 0, for |-> Identity(d), forced |-> forced]
  BY RecordedTyped DEF TypeOK
<1>3. DOMAIN log \subseteq Devices   BY <1>2 DEF TypeOK, IsLog, AreCommands
<1>4. \A d \in DOMAIN entries : entries[d] \in Entries   BY DEF TypeOK, IsLog
<1>5. \A d \in DOMAIN done : Unchanged(d, done[d]) => d \in DOMAIN entries
  BY DEF Unchanged
<1>6. \A d \in DOMAIN done : ~Unchanged(d, done[d]) => d \in Dated /\ d \in Released
  <2>1. \A d \in DOMAIN done : d \in Devices   BY DEF TypeOK, AreCommands
  <2> QED BY <2>1 DEF Dated, RoundOK, Released
<1>7. ASSUME NEW d \in DOMAIN done, Unchanged(d, done[d])
      PROVE  /\ log[d].for = Identity(d) /\ (log[d].forced => entries[d].forced)
             /\ log[d] # entries[d] => entries[d].forced
  <2>1. d \in DOMAIN entries /\ log[d] = [entries[d] EXCEPT !.forced = @ /\ forced]
    BY <1>2, <1>5, <1>7
  <2>2. entries[d] \in Entries   BY <1>4, <2>1
  <2>3. log[d].for = entries[d].for /\ log[d].forced = (entries[d].forced /\ forced)
    BY <2>1, <2>2 DEF Entries
  <2>4. ~entries[d].forced => log[d] = entries[d]
    BY <2>1, <2>2 DEF Entries
  <2> QED BY <1>7, <2>3, <2>4 DEF Unchanged
<1>8. ASSUME NEW d \in Frees(log, blind \ Dated) PROVE d \in Released
  <2>1. d \in Devices   BY <1>8 DEF Frees
  <2>2. CASE d \in blind \/ d \notin DOMAIN entries   BY <1>1, <2>1, <2>2 DEF Released
  <2>3. CASE d \notin blind /\ d \in DOMAIN entries
    <3>1. d \in DOMAIN log /\ (log[d].for # Identity(d) \/ log[d].forced)
      BY <1>2, <1>8, <2>3 DEF Frees
    <3>2. CASE d \notin DOMAIN done   BY <1>1, <1>2, <2>1, <3>1, <3>2 DEF Released
    <3>3. CASE d \in DOMAIN done   BY <1>1, <1>6, <1>7, <2>1, <3>1, <3>3 DEF Released
    <3> QED BY <3>2, <3>3
  <2> QED BY <2>2, <2>3
<1>9. ASSUME NEW d \in (blind \ Dated) \cap DOMAIN log PROVE d \in blind \cap DOMAIN entries
  BY <1>2, <1>5, <1>6, <1>9
<1>10. ASSUME NEW d \in Unsaved(log, saved.devices)
       PROVE  d \in Unsaved(entries, saved.devices) \cup Released
  <2>1. d \in DOMAIN log /\ d \in Devices /\ (d \notin DOMAIN saved.devices \/ saved.devices[d] # log[d])
    BY <1>3, <1>10 DEF Unsaved
  <2>2. CASE d \notin DOMAIN entries   BY <1>1, <2>1, <2>2 DEF Released
  <2>3. CASE d \in DOMAIN entries /\ log[d] = entries[d]   BY <2>1, <2>3 DEF Unsaved
  <2>4. CASE d \in DOMAIN entries /\ log[d] # entries[d]
    <3>1. d \in DOMAIN done   BY <1>2, <2>1, <2>4
    <3> QED BY <1>1, <1>6, <1>7, <2>1, <2>4, <3>1 DEF Released
  <2> QED BY <2>2, <2>3, <2>4
<1> QED BY <1>8, <1>9, <1>10

\* Aging leaves alone what a log frees, and what a disk lacks of it.
LEMMA PassMaps ==
  ASSUME TypeOK, NEW n \in 0..Cycle, Pass(n), UNCHANGED <<doc, dev, blind>>,
         (pc # "down")' = (pc # "down"), pc # "window", pc' # "window"
  PROVE  Hardware!Pass
<1>1. n \in Nat   BY NumberFacts
<1>2. /\ entries' = AgedLog(entries, n) /\ saved'.devices = AgedLog(saved.devices, n)
      /\ since' = [d \in Devices |-> Aged(since[d], n, Longest)]
  BY DEF Pass, TypeOK
<1>3. IsLog(entries) /\ IsLog(saved.devices)   BY DEF TypeOK
<1>4. Log' = AgedLog(Log, n) /\ IsLog(Log)   BY <1>2, <1>3 DEF Log
<1>5. /\ DOMAIN Log' = DOMAIN Log
      /\ \A d \in DOMAIN Log : Log'[d].for = Log[d].for /\ Log'[d].forced = Log[d].forced
  BY <1>1, <1>4, AgedLogTyped
<1>6. Released' = Released   BY <1>5 DEF Released, Identity
<1>7. Unsaved(entries, saved.devices)' \subseteq Unsaved(entries, saved.devices)
  BY <1>2 DEF Unsaved, AgedLog
<1>8. since' = [d \in Devices |-> IF since[d] + n < Longest THEN since[d] + n ELSE Longest]
  BY <1>2 DEF Aged
<1>9. (blind \cap DOMAIN Log)' = blind \cap DOMAIN Log   BY <1>5
<1> QED BY <1>6, <1>7, <1>8, <1>9 DEF Hardware!Pass, Hardware!NoTarget, NoCommands

\* The process dies with what it had in memory.
LEMMA DeathMaps ==
  ASSUME TypeOK, NEW log, NEW undated \in SUBSET Devices, pc # "down", pc' = "down",
         UNCHANGED <<doc, dev, since>>, entries' = NoCommands,
         blind' = undated \cup Unsaved(log, saved'.devices), DOMAIN log \subseteq Devices,
         Frees(log, undated) \subseteq Released,
         Unsaved(log, saved'.devices) \subseteq Unsaved(entries, saved.devices) \cup Released
  PROVE  Hardware!Die
<1>1. Log' = saved'.devices   BY DEF Log
<1>2. ASSUME NEW d \in Released' PROVE d \in Released \cup Unsaved(entries, saved.devices)
  <2>1. d \in Devices   BY <1>2 DEF Released
  <2>2. CASE d \in Unsaved(log, saved'.devices)   BY <2>2
  <2>3. CASE d \in undated   BY <2>1, <2>3 DEF Frees
  <2>4. CASE d \notin DOMAIN log   BY <2>1, <2>4 DEF Frees
  <2>5. CASE d \notin Unsaved(log, saved'.devices) /\ d \notin undated /\ d \in DOMAIN log
    <3>1. d \in DOMAIN saved'.devices /\ saved'.devices[d] = log[d] /\ d \notin blind'
      BY <2>5 DEF Unsaved
    <3>2. log[d].for # Identity(d) \/ log[d].forced
      BY <1>1, <1>2, <3>1 DEF Released, Identity
    <3> QED BY <2>1, <3>2 DEF Frees
  <2> QED BY <2>2, <2>3, <2>4, <2>5
<1>3. blind' \subseteq Devices   BY DEF Unsaved
<1>4. (blind \cap DOMAIN Log)' \subseteq Released'   BY <1>3 DEF Released
<1>5. Unsaved(entries, saved.devices)' = {}   BY NoCommandsTyped DEF Unsaved
<1> QED BY <1>2, <1>4, <1>5 DEF Hardware!Die, Hardware!NoTarget, NoCommands

\* A process that has not started promises nothing yet.
LEMMA HardwareInit ==
  ASSUME Init
  PROVE  Hardware!Init
<1>1. /\ doc \in Documents /\ pc = "down" /\ entries = NoCommands /\ saved.devices = NoCommands
      /\ blind = {}
  BY DEF Init, NoLog
<1>2. Log = NoCommands /\ DOMAIN Log = {}   BY <1>1, NoCommandsTyped DEF Log
<1>3. Released = Devices   BY <1>2 DEF Released
<1>4. Unsaved(entries, saved.devices) = {}   BY <1>1, NoCommandsTyped DEF Unsaved
<1> QED BY <1>1, <1>3, <1>4 DEF Hardware!Init, Hardware!NoTarget, NoCommands

\* A step that leaves the log and the devices alone is none of the promise.
LEMMA Stutters ==
  ASSUME UNCHANGED <<doc, dev, since, blind, entries, saved>>, pc # "down" <=> pc' # "down",
         \/ pc' = pc /\ plan' = plan
         \/ pc # "window" /\ pc' # "window"
  PROVE  UNCHANGED Hardware!vars
<1>1. Log' = Log   BY DEF Log
<1>2. Released' = Released   BY <1>1 DEF Released, Identity
<1>3. (pc # "down")' = (pc # "down")   OBVIOUS
<1> QED BY <1>1, <1>2, <1>3 DEF Hardware!vars, Unsaved

\* Start begins: the log read is the one on disk, or none.
LEMMA StartMaps ==
  ASSUME TypeOK, Quiet, Start
  PROVE  Hardware!Begin
<1>1. /\ pc = "down" /\ pc' \in {"asserting", "deciding"}
      /\ UNCHANGED <<doc, saved, dev, since, blind>>
      /\ entries' = saved.devices \/ entries' = NoCommands
  BY DEF Start, Command, world, NoLog
<1>2. Log = saved.devices /\ Log' = entries'   BY <1>1 DEF Log
<1>3. /\ Released' = Released \/ Released' = Devices
      /\ (blind \cap DOMAIN Log)' \subseteq blind \cap DOMAIN Log
  <2>1. CASE entries' = saved.devices   BY <1>1, <1>2, <2>1 DEF Released, Identity
  <2>2. CASE entries' = NoCommands
    <3>1. DOMAIN Log' = {}   BY <1>2, <2>2, NoCommandsTyped
    <3> QED BY <3>1 DEF Released
  <2> QED BY <1>1, <2>1, <2>2
<1>4. Unsaved(entries, saved.devices) = {}   BY <1>1, NoCommandsTyped DEF Unsaved, Quiet
<1>5. Unsaved(entries, saved.devices)' = {}
  BY <1>1, NoCommandsTyped DEF Unsaved
<1> QED BY <1>1, <1>3, <1>4, <1>5 DEF Hardware!Begin

\* Turn plans the rung of the dwell that starts.
LEMMA TurnMaps ==
  ASSUME TypeOK, PlanOK, WindowOK, Turn
  PROVE  Hardware!Plan
<1>1. /\ pc = "turning" /\ pc' = "window" /\ plan' = plan
      /\ UNCHANGED <<doc, dev, since, blind, entries, saved>>
  BY DEF Turn, process, world
<1>2. Log' = Log   BY <1>1 DEF Log
<1>3. Released' = Released   BY <1>1, <1>2 DEF Released, Identity
<1>4. plan[1].rung.states \in States /\ doc \in Documents   BY <1>1 DEF PlanOK, InWindow, TypeOK
<1>5. PICK rung \in Rungs(doc) : Gives(plan[1], rung) /\ Hardware!MayTake(rung)
  BY <1>1 DEF WindowOK
<1>6. /\ DOMAIN Sent(doc, plan[1].rung.states) = Devices
      /\ \A d \in Devices \ doc.driven : Sent(doc, plan[1].rung.states)[d] = rung.states[d]
  BY <1>4, <1>5, SentTyped DEF Gives
<1>7. \A d \in Hardware!Bound \cap doc.driven : Sent(doc, plan[1].rung.states)[d] = dev[d]
  BY <1>1 DEF WindowOK
<1>8. rung \in Hardware!Rungs   BY <1>5 DEF Hardware!Rungs, Rungs
<1>9. (pc # "down")' = (pc # "down") /\ Unsaved(entries, saved.devices)' = Unsaved(entries, saved.devices)
  BY <1>1 DEF Unsaved
<1> QED BY <1>1, <1>2, <1>3, <1>5, <1>6, <1>7, <1>8, <1>9
        DEF Hardware!Plan, Hardware!NoTarget, NoCommands

\* A command that arrives moves a device to its place on the rung, or under
\* force to one of a state the document names.
LEMMA SwitchMaps ==
  ASSUME TypeOK, PlanOK, ForcedOK, RoundOK, WindowOK, NEW d \in Devices, d \in DOMAIN todo,
         Switched(d, todo[d]), pc \in Commanding, UNCHANGED <<doc, pc, plan, entries, saved>>
  PROVE  Hardware!Next \/ UNCHANGED Hardware!vars
<1>1. CASE dev[d] = todo[d] /\ Unchanged(d, todo[d])
  <2>1. UNCHANGED <<dev, since, blind>>   BY <1>1 DEF Switched, TypeOK, States
  <2> QED BY <2>1, Stutters
<1>2. CASE ~(dev[d] = todo[d] /\ Unchanged(d, todo[d]))
  <2>1. /\ dev' = [dev EXCEPT ![d] = todo[d]] /\ since' = [since EXCEPT ![d] = 0]
        /\ blind' = blind \cup {d}
    BY <1>2 DEF Switched
  <2>2. dev'[d] = todo[d] /\ dev' = [dev EXCEPT ![d] = dev'[d]]
    BY <2>1 DEF TypeOK, States
  <2>3. pc # "down"   BY DEF Commanding
  <2>4. Log = entries /\ Log' = entries   BY <2>3 DEF Log
  <2>5. Released' = Released \cup {d}   BY <2>1, <2>4 DEF Released, Identity
  <2>6. (blind \cap DOMAIN Log)' \subseteq ((blind \cap DOMAIN Log) \cup {d}) \cap Released'
    <3>1. (blind \cap DOMAIN Log)' \subseteq (blind \cap DOMAIN Log) \cup {d}   BY <2>1, <2>4
    <3>2. blind' \subseteq Released'   BY <2>1 DEF Released, TypeOK
    <3> QED BY <3>1, <3>2
  <2>7. CASE pc = "window"
    <3>1. plan[1].rung.states \in States   BY <2>7 DEF PlanOK, InWindow
    <3>2. DOMAIN Sent(doc, plan[1].rung.states) = Devices   BY <3>1, SentTyped DEF TypeOK
    <3>3. Sent(doc, plan[1].rung.states) # NoCommands   BY <3>2, NoCommandsTyped
    <3>4. todo[d] = Sent(doc, plan[1].rung.states)[d]   BY <2>7 DEF WindowOK, RoundOK
    <3>5. UNCHANGED <<doc, pc # "down", Unsaved(entries, saved.devices),
                      Sent(doc, plan[1].rung.states)>>
      OBVIOUS
    <3>6. Hardware!Move(d)
      BY <2>1, <2>2, <2>3, <2>5, <2>6, <2>7, <3>3, <3>4, <3>5
      DEF Hardware!Move, Hardware!NoTarget, NoCommands
    <3> QED BY <3>6 DEF Hardware!Next
  <2>8. CASE pc # "window"
    <3>1. todo[d] \in Forced(doc, d)   BY <2>8 DEF ForcedOK
    <3>2. UNCHANGED <<doc, pc # "down", Unsaved(entries, saved.devices)>>   OBVIOUS
    <3>3. Hardware!Move(d)
      BY <2>1, <2>2, <2>3, <2>5, <2>6, <2>8, <3>1, <3>2
      DEF Hardware!Move, Hardware!NoTarget, NoCommands
    <3> QED BY <3>3 DEF Hardware!Next
  <2> QED BY <2>7, <2>8
<1> QED BY <1>1, <1>2

\* The end of a round records it.
LEMMA RoundEndMaps ==
  ASSUME TypeOK, RoundOK, RoundEnds
  PROVE  Hardware!Record
<1>1. /\ pc # "down" /\ pc' \notin {"down", "window"} /\ UNCHANGED <<doc, dev, since>>
      /\ entries' = Recorded(done, pc # "window") /\ blind' = blind \ Dated
      /\ saved' = saved \/ saved'.devices = entries'
  BY DEF RoundEnds, Recording, Save, AfterRound, Proceeds, FailSafe, Leave, Command, Commanding
<1>2. (pc # "window") \in BOOLEAN   OBVIOUS
<1>3. PICK log : log = entries'   OBVIOUS
<1>4. /\ Frees(log, blind \ Dated) \subseteq Released
      /\ (blind \ Dated) \cap DOMAIN log \subseteq blind \cap DOMAIN entries
      /\ Unsaved(log, saved.devices) \subseteq Unsaved(entries, saved.devices) \cup Released
  BY <1>1, <1>2, <1>3, RecordingBinds
<1>5. Log = entries /\ Log' = log   BY <1>1, <1>3 DEF Log
<1>6. Released' = Frees(log, blind \ Dated)
  BY <1>1, <1>5 DEF Released, Frees, Identity
<1>7. Unsaved(entries, saved.devices)' \subseteq Unsaved(entries, saved.devices) \cup Released
  <2>1. CASE saved' = saved   BY <1>3, <1>4, <2>1
  <2>2. CASE saved'.devices = entries'   BY <2>2 DEF Unsaved
  <2> QED BY <1>1, <2>1, <2>2
<1>8. (blind \cap DOMAIN Log)' \subseteq blind \cap DOMAIN Log   BY <1>1, <1>4, <1>5
<1>9. (pc # "down")' = (pc # "down")   BY <1>1
<1> QED BY <1>1, <1>4, <1>6, <1>7, <1>8, <1>9 DEF Hardware!Record, Hardware!NoTarget, NoCommands

\* Step may bring the disk up to date.
LEMMA StepMaps ==
  ASSUME TypeOK, Step
  PROVE  Hardware!Record
<1>1. /\ pc = "stepping" /\ pc' = "turning" /\ UNCHANGED <<doc, dev, since, blind, entries>>
      /\ saved' = saved \/ saved'.devices = entries
  BY DEF Step, Save, world
<1>2. Log' = Log   BY <1>1 DEF Log
<1>3. Released' = Released   BY <1>1, <1>2 DEF Released, Identity
<1>4. Unsaved(entries, saved.devices)' \subseteq Unsaved(entries, saved.devices)
  BY <1>1 DEF Unsaved
<1>5. (pc # "down")' = (pc # "down")   BY <1>1
<1> QED BY <1>1, <1>2, <1>3, <1>4, <1>5 DEF Hardware!Record, Hardware!NoTarget, NoCommands

\* A process that is stopped dies with what it could not save.
LEMMA ExitsMaps ==
  ASSUME TypeOK, RoundOK, Exits
  PROVE  Hardware!Die
<1>1. PICK log : log = Recorded(done, TRUE)   OBVIOUS
<1>2. /\ pc = "leaving" /\ pc' = "down" /\ entries' = NoCommands /\ UNCHANGED <<doc, dev, since>>
      /\ blind' = (blind \ Dated) \cup Unsaved(log, saved'.devices)
      /\ saved' = saved \/ saved'.devices = log
  <2>1. Recording(log) /\ blind' = (blind \ Dated) \cup Unsaved(log, saved'.devices) /\ Gone
    BY <1>1 DEF Exits
  <2>2. pc = "leaving" /\ pc' = "down"   BY DEF Exits
  <2> QED BY <2>1, <2>2 DEF Recording, Save, Gone
<1>3. /\ Frees(log, blind \ Dated) \subseteq Released
      /\ Unsaved(log, saved.devices) \subseteq Unsaved(entries, saved.devices) \cup Released
  BY <1>1, <1>2, RecordingBinds
<1>4. Unsaved(log, saved'.devices) \subseteq Unsaved(entries, saved.devices) \cup Released
  <2>1. CASE saved' = saved   BY <1>3, <2>1
  <2>2. CASE saved'.devices = log   BY <2>2 DEF Unsaved
  <2> QED BY <1>2, <2>1, <2>2
<1>5. DOMAIN log \subseteq Devices /\ blind \ Dated \in SUBSET Devices
  BY <1>1, RecordedTyped DEF TypeOK, IsLog
<1> QED BY <1>2, <1>3, <1>4, <1>5, DeathMaps

\* A process that is killed dies with what it had not saved.
LEMMA KillMaps ==
  ASSUME TypeOK, Kill
  PROVE  Hardware!Die
<1>1. /\ pc # "down" /\ pc' = "down" /\ entries' = NoCommands
      /\ UNCHANGED <<doc, dev, since, saved>>
      /\ blind' = blind \cup Unsaved(entries, saved'.devices)
  BY DEF Kill, Gone
<1>2. Frees(entries, blind) \subseteq Released   BY <1>1 DEF Frees, Released, Log
<1>3. DOMAIN entries \subseteq Devices /\ blind \in SUBSET Devices   BY DEF TypeOK, IsLog
<1> QED BY <1>1, <1>2, <1>3, DeathMaps

\* An edit frees only devices it makes into others.
LEMMA EditMaps ==
  ASSUME TypeOK, Edit
  PROVE  Hardware!Edit
<1>1. /\ pc = "down" /\ pc' = "down" /\ doc' \in Documents
      /\ UNCHANGED <<dev, since, blind, entries, saved>>
  BY DEF Edit, process, world
<1>2. Log' = Log   BY <1>1 DEF Log
<1>3. Released' \ Released \subseteq {d \in Devices : doc'.identity[d] # doc.identity[d]}
  BY <1>1, <1>2 DEF Released, Identity
<1>4. (pc # "down")' = (pc # "down") /\ ~(pc # "down")   BY <1>1
<1> QED BY <1>1, <1>2, <1>3, <1>4 DEF Hardware!Edit, Unsaved

\* Every step is one of the promise, or none.
LEMMA HardwareStep ==
  ASSUME TypeOK, PlanOK, Quiet, ForcedOK, RoundOK, WindowOK, [Next]_vars
  PROVE  [Hardware!Next]_Hardware!vars
<1> SUFFICES Hardware!Next \/ UNCHANGED Hardware!vars   OBVIOUS
<1>1. CASE Start   BY <1>1, StartMaps DEF Hardware!Next
<1>2. CASE Edit   BY <1>2, EditMaps DEF Hardware!Next
<1>3. CASE Kill   BY <1>3, KillMaps DEF Hardware!Next
<1>4. CASE Exits   BY <1>4, ExitsMaps DEF Hardware!Next
<1>5. CASE RoundEnds   BY <1>5, RoundEndMaps DEF Hardware!Next
<1>6. CASE Step   BY <1>6, StepMaps DEF Hardware!Next
<1>7. CASE Turn   BY <1>7, TurnMaps DEF Hardware!Next
<1>8. ASSUME NEW n \in 0..Cycle, Pass(n), UNCHANGED <<doc, dev, blind>>,
             pc' # "down" <=> pc # "down", pc # "window", pc' # "window"
      PROVE  Hardware!Next
  <2>1. (pc # "down")' = (pc # "down")   BY <1>8
  <2> QED BY <1>8, <2>1, PassMaps DEF Hardware!Next
<1>9. CASE Elapse
  <2>1. 1 \in 0..Cycle   BY NumberFacts
  <2> QED BY <1>8, <1>9, <2>1 DEF Elapse
<1>10. CASE Rest
  <2>1. Cycle \in 0..Cycle   BY NumberFacts
  <2> QED BY <1>8, <1>10, <2>1 DEF Rest
<1>11. CASE Dwell
  <2>1. plan[1].seconds \in 0..Cycle   BY <1>11 DEF Dwell, PlanOK, InWindow
  <2> QED BY <1>8, <1>11, <2>1 DEF Dwell
<1>12. CASE \E d \in Devices : Answered(d)
  BY <1>12, SwitchMaps DEF Answered, Due, process
<1>13. CASE \E d \in Devices : Unanswered(d)
  <2>1. PICK d \in Devices : Unanswered(d)   BY <1>13
  <2>2. UNCHANGED <<doc, pc, plan, entries, saved>> /\ pc \in Commanding /\ d \in DOMAIN todo
        /\ (UNCHANGED <<dev, since, blind>> \/ Switched(d, todo[d]))
    BY <2>1 DEF Unanswered, Due, process, world
  <2> QED BY <2>2, SwitchMaps, Stutters
<1>14. CASE Terminate
  <2>1. UNCHANGED <<doc, plan, entries, saved>> /\ pc # "down"   BY <1>14 DEF Terminate, process
  <2>2. CASE pc \in Commanding
    <3>1. pc' = pc /\ (UNCHANGED <<dev, since, blind>>
                       \/ \E d \in Devices : d \in DOMAIN todo /\ Switched(d, todo[d]))
      BY <1>14, <2>2 DEF Terminate, Due, world
    <3> QED BY <2>1, <2>2, <3>1, SwitchMaps, Stutters
  <2>3. CASE pc \notin Commanding
    <3>1. pc' = "leaving" /\ UNCHANGED <<dev, since, blind>> /\ pc # "window"
      BY <1>14, <2>3 DEF Terminate, Leave, Command, Commanding, world
    <3> QED BY <2>1, <3>1, Stutters
  <2> QED BY <2>2, <2>3
<1>15. CASE StaysOpen \/ StaysShut \/ Opens \/ Closes \/ Unreadable \/ StepFails
  <2>1. /\ UNCHANGED <<doc, dev, since, blind, entries, saved>>
        /\ pc \in {"deciding", "stepping"} /\ pc' \notin {"down", "window"}
    BY <1>15 DEF StaysOpen, StaysShut, Opens, Closes, Unreadable, StepFails, Decided, FailSafe,
                 Command, world
  <2> QED BY <2>1, Stutters
<1>16. CASE UNCHANGED vars   BY <1>16, Stutters DEF vars
<1> QED BY <1>1, <1>2, <1>3, <1>4, <1>5, <1>6, <1>7, <1>9, <1>10, <1>11, <1>12, <1>13, <1>14,
           <1>15, <1>16 DEF Next

-----------------------------------------------------------------------------
(***************************************************************************)
(* The theorems.                                                           *)
(***************************************************************************)
\* All of it together.
IInv == /\ TypeOK /\ PlanOK /\ DwellsOK /\ Quiet
        /\ LogOK /\ RoundOK /\ ForcedOK /\ IdleOK /\ HoldOK /\ ScaleOK /\ WindowOK

\* The invariant holds at the start.
LEMMA InitIInv == Init => IInv
<1> SUFFICES ASSUME Init PROVE IInv   OBVIOUS
<1>1. TypeOK   BY TypeInit
<1>2. /\ pc = "down" /\ todo = NoCommands /\ done = NoCommands /\ broke = "no"
      /\ entries = NoCommands /\ saved.devices = NoCommands /\ loop = NoLoop /\ acting = "unknown"
      /\ integral = Fresh /\ held = NotHeld /\ auto
  BY DEF Init, NoLog
<1>3. DOMAIN NoCommands = {}   BY NoCommandsTyped
<1>4. PlanOK /\ DwellsOK /\ Quiet /\ WindowOK /\ ForcedOK /\ IdleOK
  BY <1>2 DEF PlanOK, DwellsOK, Quiet, WindowOK, ForcedOK, IdleOK, InWindow, Commanding
<1>5. LogOK /\ RoundOK /\ ScaleOK   BY <1>2, <1>3 DEF LogOK, RoundOK, ScaleOK, InScale
<1>6. HoldOK   BY <1>2 DEF HoldOK, InWindow
<1> QED BY <1>1, <1>4, <1>5, <1>6 DEF IInv

\* Every step keeps it.
LEMMA NextIInv == IInv /\ [Next]_vars => IInv'
BY TypeStep, PlanStep, QuietStep, LogStep, RoundStep, ForcedStep, IdleStep, HoldStep, ScaleStep,
   WindowStep
   DEF IInv

\* So it always holds.
LEMMA Inductive == Spec => []IInv
BY InitIInv, NextIInv, PTL DEF Spec

\* Every variable keeps to its type.
THEOREM TypesKept == Spec => []TypeOK
<1>1. IInv => TypeOK   BY DEF IInv
<1> QED BY <1>1, Inductive, PTL

\* The log says of every device it dates what the device is really in, whatever
\* failed half way (control_process.py _command_devices, transitions.py record).
THEOREM LogAlwaysTrue == Spec => []LogIsTrue
<1>1. IInv => LogIsTrue   BY DEF IInv, LogIsTrue, LogOK, Right
<1> QED BY <1>1, Inductive, PTL

\* A control that rests with its gate shut has left no device on a rung.
THEOREM ShutAlwaysIdle == Spec => []ShutMeansIdle
<1>1. IInv => ShutMeansIdle
  BY DEF IInv, ShutMeansIdle, IdleOK, LeavesNone
<1> QED BY <1>1, Inductive, PTL

\* No demand is built on an integral that outlived its hold, for any limits and
\* any sequence of holds, failures and restarts.
THEOREM HoldAlwaysBounded == Spec => []HoldIsBounded
<1>1. IInv => HoldIsBounded   BY DEF IInv, HoldIsBounded, HoldOK
<1> QED BY <1>1, Inductive, PTL

\* The process implements what a control promises of minimum times.
THEOREM KeepsMinimums == Spec => MinimumKept
<1>1. Init => Hardware!Init   BY HardwareInit
<1>2. IInv /\ [Next]_vars => [Hardware!Next]_Hardware!vars   BY HardwareStep DEF IInv
<1> QED BY <1>1, <1>2, Inductive, PTL DEF Spec, MinimumKept, Hardware!Spec
=============================================================================
