------------------------- MODULE Collection_proofs -------------------------
(* What is collected and what a control reads of it: the workers, with the   *)
(* watchdog over them, and then the inputs.                                  *)
EXTENDS Collector, Inputs, TLAPS

-----------------------------------------------------------------------------
(* A unit that stopped stays stopped, one that fails is left alone for the   *)
(* delay, and only one that hangs is reported as stuck: for any units,       *)
(* intervals and bounds.                                                     *)

PcTypeOK ==
  /\ pc \in [Units -> {"none", "build", "sleep", "call", "connect", "stream", "probe",
                       "returning", "dead"}]
  /\ stopped \subseteq Units

CollectorInv == PcTypeOK /\ StoppedStays

(* A step that moves one unit only, and stops none but that one, keeps the   *)
(* invariant when it does not bring back a unit that has stopped.            *)
LEMMA OneUnitMoves ==
  ASSUME CollectorInv, NEW u \in Units,
         NEW to \in {"none", "build", "sleep", "call", "connect", "stream", "probe", "returning",
                     "dead"},
         pc' = [pc EXCEPT ![u] = to], stopped' \subseteq stopped \cup {u},
         u \in stopped' => to \in Ended
  PROVE  CollectorInv'
BY DEF CollectorInv, PcTypeOK, StoppedStays

(* How a try ends, of a unit whose thread has not.                           *)
LEMMA Tried ==
  ASSUME CollectorInv, NEW u \in Units, pc[u] \notin Ended, Fails(u) \/ GivesUp(u)
  PROVE  CollectorInv'
<1>1. u \notin stopped
  BY DEF CollectorInv, StoppedStays
<1>2. CASE Fails(u)
  <2>1. AfterTry \in {"sleep", "build"}
    BY DEF AfterTry
  <2> QED
    BY <1>1, <1>2, <2>1, OneUnitMoves DEF Fails, watch
<1>3. CASE GivesUp(u)
  BY <1>1, <1>3, OneUnitMoves DEF GivesUp, Ended
<1> QED
  BY <1>2, <1>3

(* Every step of a worker, the watchdog or the world keeps it.               *)
LEMMA NextInv == CollectorInv /\ [Next]_vars => CollectorInv'
<1> SUFFICES ASSUME CollectorInv, [Next]_vars PROVE CollectorInv'
  OBVIOUS
<1>1. \A u \in Units : pc[u] \notin Ended => u \notin stopped
  BY DEF CollectorInv, StoppedStays
<1>2. ASSUME NEW u \in Units, Worker(u) PROVE CollectorInv'
  <2>1. CASE Builds(u)
    BY <1>1, <2>1, OneUnitMoves DEF Builds, AfterBuild, watch, Ended
  <2>2. CASE BuildGivesUp(u) \/ BuildFails(u)
    BY <2>2, Tried DEF BuildGivesUp, BuildFails, Ended
  <2>3. CASE Wakes(u)
    BY <1>1, <2>3, OneUnitMoves DEF Wakes, AfterSleep, watch, Ended
  <2>4. CASE Collects(u)
    BY <1>1, <2>4, OneUnitMoves DEF Collects, AfterTry, watch, Ended
  <2>5. CASE Connects(u) \/ Probes(u) \/ Snapshot(u)
    BY <1>1, <2>5, OneUnitMoves DEF Connects, Probes, Snapshot, watch, Ended
  <2>6. CASE Message(u)
    BY <2>6 DEF Message, watch, CollectorInv, PcTypeOK, StoppedStays
  <2>7. CASE CallFails(u) \/ CallGivesUp(u)
    BY <2>7, Tried DEF CallFails, CallGivesUp, Calling, Ended
  <2>8. CASE Ends(u)
    BY <2>8, OneUnitMoves DEF Ends, watch, Ended
  <2> QED
    BY <1>2, <2>1, <2>2, <2>3, <2>4, <2>5, <2>6, <2>7, <2>8 DEF Worker
<1>3. ASSUME NEW u \in Units, Watches(u) PROVE CollectorInv'
  <2>1. CASE Replaces(u)
    BY <1>3, <2>1, OneUnitMoves DEF Watches, Replaces, Starts
  <2>2. CASE ~Replaces(u)
    BY <1>3, <2>2 DEF Watches, CollectorInv, PcTypeOK, StoppedStays
  <2> QED
    BY <2>1, <2>2
<1>4. ASSUME NEW u \in Units, Hangs(u) PROVE CollectorInv'
  BY <1>4 DEF Hangs, watch, CollectorInv, PcTypeOK, StoppedStays
<1>5. ASSUME NEW u \in Units, Dies(u) PROVE CollectorInv'
  BY <1>5, OneUnitMoves DEF Dies, watch, Ended
<1>6. CASE Edit \/ Tick
  BY <1>6 DEF Edit, Tick, watch, CollectorInv, PcTypeOK, StoppedStays
<1>7. CASE UNCHANGED vars
  BY <1>7 DEF vars, CollectorInv, PcTypeOK, StoppedStays
<1> QED
  BY <1>2, <1>3, <1>4, <1>5, <1>6, <1>7 DEF Next

(* A unit with a configuration problem is never collected from again,        *)
(* however its end and the watchdog's look interleave.  (run_workers.)       *)
THEOREM StoppedForGood == Spec => []StoppedStays
<1>1. Init => CollectorInv
  BY DEF Init, CollectorInv, PcTypeOK, StoppedStays
<1>2. CollectorInv => StoppedStays
  BY DEF CollectorInv
<1> QED
  BY <1>1, <1>2, NextInv, PTL DEF Spec

-----------------------------------------------------------------------------
(* Time.  What a worker's clocks are, in each place: the ticks since it was  *)
(* last active, those until its next try, and those in its call.             *)

(* The settings the code fixes: no delay is longer than the shortest silence *)
(* that is reported (BACKOFF_MAX_SECONDS, STALL_WARNING_SECONDS).            *)
DelaysAreShort == BackoffMax <= StallWarning

(* The longest wait for a try, and after it: a call, and where the source is *)
(* streamed from, an interval and the first snapshot.  It is to be shorter   *)
(* than the threshold, for an interval that has not outgrown it.             *)
Longer(n) == IF n > BackoffMax THEN n ELSE BackoffMax
Longest(u) == Longer(interval[u])
CallsAreShort ==
  \A u \in Units : \A n \in Intervals[u] :
    n <= Interval[u] \/ n * StallMultiplier <= StallWarning =>
      Longer(n) + CallLimit + (IF u \in Streaming THEN n + CallLimit ELSE 0) <= StallThreshold(u)

Left(u) == IF due[u] > 0 THEN due[u] ELSE 0

ClocksOK ==
  /\ due \in [Units -> Int] /\ age \in [Units -> Int] /\ spent \in [Units -> Int]
  /\ failures \in [Units -> 0..MaxFailures]
  /\ \A u \in Units : spent[u] <= CallLimit
  /\ handler \in [Units -> BOOLEAN]
  /\ written \in [Units -> Nat] /\ interval \in [Units -> Nat]
  /\ \A u \in Units : written[u] \in Intervals[u] /\ interval[u] \in Intervals[u]

(* A worker that failed tries again only when its delay is over.             *)
Delayed(u) ==
  failures[u] > 0 =>
    /\ pc[u] = "sleep" \/ (pc[u] = "build" /\ ~alone)
         => age[u] + Left(u) >= BackoffDelay(failures[u])
    /\ pc[u] \in {"call", "connect"} \/ (pc[u] = "build" /\ alone)
         => age[u] >= BackoffDelay(failures[u])

(* A worker with no call that hangs was active not long ago.  One without a  *)
(* handler does not wait for an interval: it may yet be given another.       *)
Recent(u) ==
  ~alone /\ u \notin hung =>
    /\ pc[u] \in {"build", "sleep"} => age[u] + Left(u) <= Longest(u)
    /\ pc[u] = "build" /\ ~handler[u] => age[u] + Left(u) <= BackoffMax
    /\ pc[u] \in {"call", "connect"} => age[u] <= Longest(u) + spent[u]
    /\ pc[u] = "stream" => age[u] + Left(u) <= Longest(u) + CallLimit + interval[u]
    /\ pc[u] = "probe" => age[u] <= Longest(u) + CallLimit + interval[u] + spent[u]

(* Where a worker can be, and how far off its next try or snapshot is.       *)
Placed(u) ==
  /\ ~alone => /\ pc[u] # "none"
               /\ pc[u] \in {"sleep", "call", "connect", "stream", "probe"} => handler[u]
               /\ pc[u] \in {"connect", "stream", "probe"} => u \in Streaming
               /\ pc[u] = "call" => due[u] <= 0 /\ u \notin Streaming
               /\ pc[u] = "returning" => u \in stopped
  /\ pc[u] \in {"stream", "probe"} => due[u] <= interval[u]

UnitOK(u) == Delayed(u) /\ Recent(u) /\ Placed(u)
TimeInv ==
  /\ CollectorInv /\ ClocksOK /\ alone \in BOOLEAN /\ (alone => unwatched = {})
  /\ \A u \in Units : UnitOK(u)

(* The larger and the smaller of two numbers.                                *)
LEMMA OfTwo ==
  ASSUME NEW m \in Int, NEW n \in Int
  PROVE  /\ Max({m, n}) = IF m >= n THEN m ELSE n
         /\ Min({m, n}) = IF m <= n THEN m ELSE n
<1>1. \E x \in {m, n} : \A y \in {m, n} : x >= y
  OBVIOUS
<1>2. \E x \in {m, n} : \A y \in {m, n} : x <= y
  OBVIOUS
<1>3. Max({m, n}) \in {m, n} /\ \A y \in {m, n} : Max({m, n}) >= y
  BY <1>1 DEF Max
<1>4. Min({m, n}) \in {m, n} /\ \A y \in {m, n} : Min({m, n}) <= y
  BY <1>2 DEF Min
<1> QED
  BY <1>3, <1>4

(* What the settings are.                                                    *)
LEMMA NumberFacts ==
  ASSUME DelaysAreShort, ClocksOK, NEW u \in Units
  PROVE  /\ interval[u] \in Nat /\ StartDelay[u] \in Nat /\ CallLimit \in Nat
         /\ BackoffMax \in Nat /\ Longest(u) \in Nat /\ StallThreshold(u) \in Nat
         /\ interval[u] <= Longest(u) /\ BackoffMax <= Longest(u)
         /\ BackoffMax <= StallThreshold(u)
<1>1. /\ Interval[u] \in Nat /\ StartDelay[u] \in Nat /\ CallLimit \in Nat /\ StallWarning \in Nat
      /\ BackoffMax \in Nat /\ StallMultiplier \in Nat /\ interval[u] \in Nat
  BY CollectorAssumption DEF ClocksOK
<1>2. Interval[u] * StallMultiplier \in Nat
  BY <1>1
<1>3. StallThreshold(u) \in Nat /\ StallWarning <= StallThreshold(u)
  BY <1>1, <1>2, OfTwo DEF StallThreshold
<1> QED
  BY <1>1, <1>3 DEF Longest, Longer, DelaysAreShort

(* No delay is longer than the longest.                                      *)
LEMMA DelayBounded ==
  ASSUME NEW n \in 1..MaxFailures
  PROVE  BackoffDelay(n) \in Int /\ BackoffDelay(n) <= BackoffMax
<1>1. BackoffBase \in Nat /\ BackoffMax \in Nat /\ n - 1 \in Nat
  BY CollectorAssumption
<1>2. 2^(n - 1) \in Int
  BY <1>1
<1>3. BackoffBase * 2^(n - 1) \in Int
  BY <1>1, <1>2
<1>4. CASE BackoffBase = 0
  BY <1>1, <1>4 DEF BackoffDelay
<1>5. CASE BackoffBase # 0
  <2>1. PICK d \in Int : d = BackoffBase * 2^(n - 1)
    BY <1>3
  <2>2. BackoffDelay(n) = Min({BackoffMax, d})
    BY <1>5, <2>1 DEF BackoffDelay
  <2>3. Min({BackoffMax, d}) = IF BackoffMax <= d THEN BackoffMax ELSE d
    BY <1>1, <2>1, OfTwo
  <2> QED
    BY <1>1, <2>2, <2>3
<1> QED
  BY <1>4, <1>5

(* A step of one unit, or of none, keeps the rest.                           *)
LEMMA OneUnit ==
  ASSUME TimeInv, [Next]_vars, NEW u \in Units, ClocksOK', UNCHANGED alone, unwatched' \subseteq unwatched,
         \A v \in Units \ {u} :
           /\ pc'[v] = pc[v] /\ due'[v] = due[v] /\ age'[v] = age[v] /\ spent'[v] = spent[v]
           /\ failures'[v] = failures[v] /\ (v \in hung' <=> v \in hung)
           /\ interval'[v] = interval[v] /\ handler'[v] = handler[v]
           /\ v \in stopped => v \in stopped',
         UnitOK(u)'
  PROVE  TimeInv'
<1>1. CollectorInv'
  BY NextInv DEF TimeInv
<1>2. \A v \in Units \ {u} : UnitOK(v)'
  BY DEF TimeInv, UnitOK, Delayed, Recent, Placed, Left, Longest
<1> QED
  BY <1>1, <1>2 DEF TimeInv

(* A failure: what is left to wait is the whole delay.                       *)
LEMMA FailureKeeps ==
  ASSUME TimeInv, [Next]_vars, DelaysAreShort, NEW u \in Units, pc[u] \notin {"none"},
         Fails(u), hung' \subseteq hung, hung \ {u} \subseteq hung', UNCHANGED settings
  PROVE  TimeInv'
<1> DEFINE n == failures'[u]
           d == BackoffDelay(n)
<1>1. /\ MaxFailures \in Nat \ {0} /\ failures[u] \in 0..MaxFailures
      /\ failures \in [Units -> 0..MaxFailures] /\ n = Min({failures[u] + 1, MaxFailures})
  BY CollectorAssumption DEF TimeInv, ClocksOK, Fails
<1>2. n \in 1..MaxFailures
  <2>1. PICK k \in Int, m \in Int : k = failures[u] + 1 /\ k >= 1 /\ m = MaxFailures
    BY <1>1
  <2>2. Min({k, m}) = IF k <= m THEN k ELSE m
    BY OfTwo
  <2>3. n = Min({k, m})
    BY <1>1, <2>1
  <2> QED
    BY <1>1, <2>1, <2>2, <2>3
<1>3. d \in Int /\ d <= BackoffMax
  BY <1>2, DelayBounded
<1>4. /\ due' = [due EXCEPT ![u] = d] /\ age' = [age EXCEPT ![u] = 0]
      /\ failures' = [failures EXCEPT ![u] = n] /\ pc' = [pc EXCEPT ![u] = AfterTry]
      /\ handler' = [handler EXCEPT ![u] = FALSE]
      /\ UNCHANGED <<alone, spent, stopped, unwatched, written, interval>>
  BY <1>1 DEF Fails, watch, settings
<1>5. pc \in [Units -> {"none", "build", "sleep", "call", "connect", "stream", "probe",
                        "returning", "dead"}]
      /\ AfterTry = (IF alone THEN "sleep" ELSE "build")
  BY DEF TimeInv, CollectorInv, PcTypeOK, AfterTry
<1> HIDE DEF n, d
<1>6. ClocksOK'
  BY <1>2, <1>3, <1>4 DEF TimeInv, ClocksOK
<1>7. due'[u] = d /\ age'[u] = 0 /\ failures'[u] = n /\ pc'[u] = AfterTry
  BY <1>4, <1>5 DEF TimeInv, ClocksOK
<1>8. Left(u)' = (IF d > 0 THEN d ELSE 0)
  BY <1>7 DEF Left
<1>9. /\ Longest(u) \in Nat /\ BackoffMax <= Longest(u) /\ BackoffMax \in Nat
  BY NumberFacts DEF TimeInv
<1>10. Delayed(u)'
  BY <1>3, <1>4, <1>5, <1>7, <1>8 DEF Delayed, d
<1>11. Recent(u)'
  BY <1>3, <1>4, <1>5, <1>7, <1>8, <1>9 DEF Recent, Longest, Longer
<1>12. Placed(u)'
  BY <1>4, <1>5, <1>7 DEF Placed
<1>13. \A v \in Units \ {u} :
           /\ pc'[v] = pc[v] /\ due'[v] = due[v] /\ age'[v] = age[v] /\ spent'[v] = spent[v]
           /\ failures'[v] = failures[v] /\ (v \in hung' <=> v \in hung)
           /\ interval'[v] = interval[v] /\ handler'[v] = handler[v]
           /\ v \in stopped => v \in stopped'
  BY <1>4, <1>5 DEF TimeInv, ClocksOK
<1> QED
  BY <1>4, <1>6, <1>10, <1>11, <1>12, <1>13, OneUnit DEF UnitOK

(* A step that leaves a unit's clocks alone, and moves it at most.           *)
Same(v) ==
  /\ due'[v] = due[v] /\ age'[v] = age[v] /\ spent'[v] = spent[v] /\ failures'[v] = failures[v]
  /\ interval'[v] = interval[v] /\ handler'[v] = handler[v]

(* Each step of a worker keeps it.                                           *)
LEMMA WorkerKeeps ==
  ASSUME TimeInv, [Next]_vars, DelaysAreShort, NEW u \in Units, Worker(u)
  PROVE  TimeInv'
<1> DEFINE places == {"none", "build", "sleep", "call", "connect", "stream", "probe", "returning", "dead"}
<1>1. /\ pc \in [Units -> places] /\ due \in [Units -> Int] /\ age \in [Units -> Int]
      /\ spent \in [Units -> Int] /\ failures \in [Units -> 0..MaxFailures] /\ alone \in BOOLEAN
      /\ \A v \in Units : spent[v] <= CallLimit
      /\ handler \in [Units -> BOOLEAN]
      /\ written \in [Units -> Nat] /\ interval \in [Units -> Nat]
      /\ \A v \in Units : written[v] \in Intervals[v] /\ interval[v] \in Intervals[v]
  BY DEF TimeInv, CollectorInv, PcTypeOK, ClocksOK
<1>2. /\ interval[u] \in Nat /\ CallLimit \in Nat /\ Longest(u) \in Nat /\ interval[u] <= Longest(u)
      /\ BackoffMax \in Nat /\ MaxFailures \in Nat /\ 0 \in 0..MaxFailures
  BY NumberFacts, CollectorAssumption DEF TimeInv
<1>3. Delayed(u) /\ Recent(u) /\ Placed(u)
  BY DEF TimeInv, UnitOK
<1>4. failures[u] > 0 => BackoffDelay(failures[u]) \in Int
  BY <1>1, <1>2, DelayBounded
<1>5. ASSUME NEW to \in places, pc' = [pc EXCEPT ![u] = to], ClocksOK', UNCHANGED <<alone, unwatched>>,
             \A v \in Units \ {u} : Same(v) /\ (v \in hung' <=> v \in hung),
             stopped \subseteq stopped', UnitOK(u)'
      PROVE  TimeInv'
  BY <1>1, <1>5, OneUnit DEF Same
<1>6. CASE Builds(u)
  <2>1. pc'[u] = AfterBuild(u) /\ AfterBuild(u) \in {"sleep", "connect", "call"} /\ pc[u] = "build"
        /\ (~alone => AfterBuild(u) = "sleep") /\ (alone => AfterBuild(u) # "sleep")
    BY <1>1, <1>6 DEF Builds, AfterBuild
  <2>2. /\ pc' = [pc EXCEPT ![u] = AfterBuild(u)] /\ spent' = [spent EXCEPT ![u] = 0]
        /\ handler' = [handler EXCEPT ![u] = TRUE]
        /\ interval' = IF handler[u] THEN interval ELSE [interval EXCEPT ![u] = written[u]]
        /\ UNCHANGED <<alone, failures, due, hung, age, stopped, unwatched, written>>
    BY <1>6 DEF Builds, watch
  <2>3. ClocksOK' /\ spent'[u] = 0 /\ Left(u)' = Left(u)
    BY <1>1, <1>2, <2>2 DEF ClocksOK, Left
  <2>7. /\ interval'[u] \in Nat /\ (handler[u] => interval'[u] = interval[u])
        /\ \A v \in Units \ {u} : interval'[v] = interval[v] /\ handler'[v] = handler[v]
    BY <1>1, <2>2
  <2>4. Delayed(u)'
    BY <1>1, <1>3, <2>1, <2>2, <2>3 DEF Delayed
  <2>5. Recent(u)'
    <3>1. ASSUME ~alone, u \notin hung PROVE age[u] + Left(u) <= Longer(interval'[u])
      <4>1. CASE handler[u]
        BY <1>3, <2>1, <2>7, <3>1, <4>1 DEF Recent, Longest
      <4>2. CASE ~handler[u]
        <5>1. age[u] + Left(u) <= BackoffMax /\ age[u] \in Int /\ Left(u) \in Int
          BY <1>1, <1>3, <2>1, <3>1, <4>2 DEF Recent, Left
        <5> QED
          BY <1>2, <2>7, <5>1 DEF Longer
      <4> QED
        BY <4>1, <4>2
    <3> QED
      BY <1>1, <2>1, <2>2, <2>3, <3>1 DEF Recent, Longest
  <2>6. Placed(u)'
    BY <1>1, <1>3, <2>1, <2>2, <2>3 DEF Placed
  <2> QED
    BY <1>1, <1>5, <2>1, <2>2, <2>3, <2>4, <2>5, <2>6, <2>7 DEF UnitOK, Same
<1>7. CASE BuildGivesUp(u) \/ CallGivesUp(u)
  <2>1. /\ pc' = [pc EXCEPT ![u] = "returning"] /\ pc'[u] = "returning"
        /\ UNCHANGED <<alone, failures, due, age, spent, unwatched, written, interval, handler>>
        /\ hung' \in {hung, hung \ {u}} /\ stopped \subseteq stopped' /\ (~alone => u \in stopped')
    BY <1>1, <1>7 DEF BuildGivesUp, CallGivesUp, GivesUp, watch, settings
  <2>2. ClocksOK'
    BY <2>1 DEF TimeInv, ClocksOK
  <2>3. Delayed(u)' /\ Recent(u)' /\ Placed(u)'
    BY <2>1 DEF Delayed, Recent, Placed
  <2> QED
    BY <1>5, <2>1, <2>2, <2>3 DEF UnitOK, Same
<1>8. CASE BuildFails(u) \/ CallFails(u)
  BY <1>8, FailureKeeps DEF BuildFails, CallFails, Calling
<1>9. CASE Wakes(u)
  <2>1. pc'[u] = AfterSleep(u) /\ AfterSleep(u) \in {"build", "connect", "call"} /\ pc[u] = "sleep"
        /\ (alone => AfterSleep(u) = "build") /\ due[u] <= 0 /\ Left(u) = 0
        /\ (~alone => AfterSleep(u) = IF u \in Streaming THEN "connect" ELSE "call")
    BY <1>1, <1>9 DEF Wakes, AfterSleep, Left
  <2>2. /\ pc' = [pc EXCEPT ![u] = AfterSleep(u)] /\ spent' = [spent EXCEPT ![u] = 0]
        /\ UNCHANGED <<alone, failures, due, hung, age, stopped, unwatched, written, interval, handler>>
    BY <1>9 DEF Wakes, watch, settings
  <2>3. ClocksOK' /\ spent'[u] = 0 /\ Left(u)' = Left(u)
    BY <1>1, <1>2, <2>2 DEF ClocksOK, Left
  <2>4. Delayed(u)' /\ Recent(u)' /\ Placed(u)'
    BY <1>1, <1>2, <1>3, <1>4, <2>1, <2>2, <2>3 DEF Delayed, Recent, Placed, Longest
  <2> QED
    BY <1>1, <1>5, <2>1, <2>2, <2>3, <2>4 DEF UnitOK, Same
<1>10. CASE Collects(u)
  <2>1. pc'[u] = AfterTry /\ AfterTry = (IF alone THEN "sleep" ELSE "build") /\ pc[u] = "call"
        /\ pc' = [pc EXCEPT ![u] = AfterTry] /\ due' = [due EXCEPT ![u] = due[u] + interval[u]]
        /\ failures' = [failures EXCEPT ![u] = 0] /\ age' = [age EXCEPT ![u] = 0]
        /\ UNCHANGED <<alone, spent, stopped, unwatched, written, interval, handler>> /\ hung' = hung \ {u}
    BY <1>1, <1>10 DEF Collects, AfterTry, watch, settings
  <2>2. /\ ClocksOK' /\ due'[u] = due[u] + interval[u] /\ age'[u] = 0 /\ failures'[u] = 0
        /\ ~alone => Left(u)' <= interval[u] /\ Left(u)' \in Int
    BY <1>1, <1>2, <1>3, <2>1 DEF ClocksOK, Left, Placed
  <2>3. Delayed(u)' /\ Placed(u)'
    BY <1>1, <1>3, <2>1, <2>2 DEF Delayed, Placed
  <2>4. Recent(u)'
    BY <1>1, <1>2, <1>3, <2>1, <2>2 DEF Recent, Placed, Longest
  <2> QED
    BY <1>1, <1>5, <2>1, <2>2, <2>3, <2>4 DEF UnitOK, Same
<1>11. CASE Connects(u)
  <2>1. pc'[u] = "stream" /\ pc[u] = "connect" /\ pc' = [pc EXCEPT ![u] = "stream"]
        /\ due' = [due EXCEPT ![u] = interval[u]]
        /\ UNCHANGED <<alone, failures, age, spent, stopped, unwatched, hung, written, interval,
                      handler>>
    BY <1>1, <1>11 DEF Connects, watch, settings
  <2>2. ClocksOK' /\ due'[u] = interval[u] /\ Left(u)' = interval[u] /\ spent[u] <= CallLimit
    BY <1>1, <1>2, <2>1 DEF ClocksOK, Left
  <2>3. Delayed(u)' /\ Recent(u)' /\ Placed(u)'
    BY <1>1, <1>2, <1>3, <2>1, <2>2 DEF Delayed, Recent, Placed, Longest
  <2> QED
    BY <1>1, <1>5, <2>1, <2>2, <2>3 DEF UnitOK, Same
<1>12. CASE Message(u) \/ Snapshot(u)
  <2>1. /\ pc'[u] = "stream" /\ pc[u] \in {"stream", "probe"} /\ pc' = [pc EXCEPT ![u] = "stream"]
        /\ due' \in {due, [due EXCEPT ![u] = interval[u]]} /\ age' = [age EXCEPT ![u] = 0]
        /\ UNCHANGED <<alone, failures, spent, stopped, unwatched, written, interval, handler>> /\ hung' = hung \ {u}
    BY <1>1, <1>12 DEF Message, Snapshot, watch, settings
  <2>2. /\ ClocksOK' /\ due'[u] <= interval[u] /\ age'[u] = 0
        /\ Left(u)' \in Int /\ Left(u)' <= interval[u]
    BY <1>1, <1>2, <1>3, <2>1 DEF ClocksOK, Left, Placed
  <2>3. Delayed(u)' /\ Recent(u)' /\ Placed(u)'
    BY <1>1, <1>2, <1>3, <2>1, <2>2 DEF Delayed, Recent, Placed, Longest
  <2> QED
    BY <1>1, <1>5, <2>1, <2>2, <2>3 DEF UnitOK, Same
<1>13. CASE Probes(u)
  <2>1. /\ pc'[u] = "probe" /\ pc[u] = "stream" /\ pc' = [pc EXCEPT ![u] = "probe"]
        /\ spent' = [spent EXCEPT ![u] = 0] /\ due[u] <= 0
        /\ UNCHANGED <<alone, failures, due, age, stopped, unwatched, hung, written, interval,
                      handler>>
    BY <1>1, <1>13 DEF Probes, watch, settings
  <2>2. ClocksOK' /\ spent'[u] = 0 /\ Left(u) = 0
    BY <1>1, <1>2, <2>1 DEF ClocksOK, Left
  <2>3. Delayed(u)' /\ Recent(u)' /\ Placed(u)'
    BY <1>1, <1>2, <1>3, <2>1, <2>2 DEF Delayed, Recent, Placed, Longest
  <2> QED
    BY <1>1, <1>5, <2>1, <2>2, <2>3 DEF UnitOK, Same
<1>14. CASE Ends(u)
  <2>1. /\ pc'[u] = "dead" /\ pc' = [pc EXCEPT ![u] = "dead"]
        /\ UNCHANGED <<alone, failures, due, age, spent, stopped, unwatched, hung, written, interval,
                      handler>>
    BY <1>1, <1>14 DEF Ends, watch, settings
  <2>2. ClocksOK'
    BY <2>1 DEF TimeInv, ClocksOK
  <2>3. Delayed(u)' /\ Recent(u)' /\ Placed(u)'
    BY <2>1 DEF Delayed, Recent, Placed
  <2> QED
    BY <1>5, <2>1, <2>2, <2>3 DEF UnitOK, Same
<1> QED
  BY <1>6, <1>7, <1>8, <1>9, <1>10, <1>11, <1>12, <1>13, <1>14 DEF Worker

(* So does each look of the watchdog, each event and each tick.              *)
LEMMA WatchKeeps ==
  ASSUME TimeInv, [Next]_vars, DelaysAreShort, NEW u \in Units, Watches(u)
  PROVE  TimeInv'
<1>1. u \in unwatched /\ ~alone
  BY DEF Watches, TimeInv
<1>2. StartDelay \in [Units -> Nat] /\ Longest(u) \in Nat /\ MaxFailures \in Nat /\ BackoffMax \in Nat
  BY NumberFacts, CollectorAssumption DEF TimeInv
<1>3. CASE Replaces(u)
  <2>1. /\ pc' = [pc EXCEPT ![u] = "build"] /\ failures' = [failures EXCEPT ![u] = 0]
        /\ due' = [due EXCEPT ![u] = StartDelay[u]] /\ age' = [age EXCEPT ![u] = -StartDelay[u]]
        /\ handler' = [handler EXCEPT ![u] = FALSE]
        /\ UNCHANGED <<alone, spent, hung, stopped, written, interval>> /\ unwatched' \subseteq unwatched
    BY <1>3 DEF Watches, Starts, settings
  <2>2. /\ ClocksOK' /\ pc'[u] = "build" /\ failures'[u] = 0 /\ age'[u] = -StartDelay[u]
        /\ due'[u] = StartDelay[u]
    BY <1>2, <2>1 DEF TimeInv, ClocksOK, CollectorInv, PcTypeOK
  <2>3. Left(u)' = StartDelay[u] /\ age'[u] + Left(u)' = 0
    BY <1>2, <2>2 DEF Left
  <2>4. UnitOK(u)'
    BY <1>1, <1>2, <2>1, <2>2, <2>3 DEF UnitOK, Delayed, Recent, Placed, Longest
  <2> QED
    BY <2>1, <2>2, <2>4, OneUnit DEF TimeInv, ClocksOK, CollectorInv, PcTypeOK
<1>4. CASE ~Replaces(u)
  <2>1. UNCHANGED <<pc, failures, due, age, alone, spent, hung, stopped, written, interval, handler>>
        /\ unwatched' \subseteq unwatched
    BY <1>4 DEF Watches, settings
  <2>2. ClocksOK' /\ UnitOK(u)'
    BY <2>1 DEF TimeInv, ClocksOK, UnitOK, Delayed, Recent, Placed, Left, Longest
  <2> QED
    BY <2>1, <2>2, OneUnit
<1> QED
  BY <1>3, <1>4

(* Hanging and dying move no clock.                                          *)
LEMMA EventsKeep ==
  ASSUME TimeInv, [Next]_vars, NEW u \in Units, Hangs(u) \/ Dies(u)
  PROVE  TimeInv'
<1>1. /\ UNCHANGED <<alone, failures, due, age, spent, stopped, unwatched, written, interval, handler>>
      /\ (pc' = pc /\ hung' = hung \cup {u})
           \/ (pc' = [pc EXCEPT ![u] = "dead"] /\ hung' = hung \ {u} /\ ~alone)
  BY DEF Hangs, Dies, watch
<1>2. ClocksOK' /\ pc \in [Units -> {"none", "build", "sleep", "call", "connect", "stream", "probe",
                                     "returning", "dead"}]
  BY <1>1 DEF TimeInv, ClocksOK, CollectorInv, PcTypeOK
<1>3. UnitOK(u)'
  BY <1>1, <1>2 DEF TimeInv, UnitOK, Delayed, Recent, Placed, Left, Longest
<1>4. \A v \in Units \ {u} : pc'[v] = pc[v] /\ (v \in hung' <=> v \in hung)
  BY <1>1, <1>2
<1> QED
  BY <1>1, <1>2, <1>3, <1>4, OneUnit

(* Time passes only while each worker waits, or is in a call that may take   *)
(* as long.                                                                  *)
LEMMA TickKeeps ==
  ASSUME TimeInv, [Next]_vars, DelaysAreShort, Tick
  PROVE  TimeInv'
<1>1. /\ due \in [Units -> Int] /\ age \in [Units -> Int] /\ spent \in [Units -> Int]
      /\ failures \in [Units -> 0..MaxFailures] /\ CallLimit \in Nat
      /\ \A u \in Units : spent[u] <= CallLimit
      /\ handler \in [Units -> BOOLEAN]
      /\ written \in [Units -> Nat] /\ interval \in [Units -> Nat]
      /\ \A u \in Units : written[u] \in Intervals[u] /\ interval[u] \in Intervals[u]
  BY CollectorAssumption DEF TimeInv, ClocksOK
<1>2. UNCHANGED <<alone, pc, failures, hung, stopped, written, interval, handler>>
      /\ (alone => unwatched' = {})
  BY DEF Tick, settings
<1>3. ASSUME NEW u \in Units
      PROVE  /\ due'[u] \in Int /\ age'[u] \in Int /\ spent'[u] \in Int /\ spent'[u] <= CallLimit
             /\ due'[u] <= due[u] - 1 \/ (due'[u] <= 0 /\ due[u] - 1 <= due'[u])
             /\ age'[u] \in {age[u] + 1, StallThreshold(u) + 1} /\ age'[u] <= age[u] + 1
             /\ spent'[u] \in {spent[u] + 1, CallLimit} /\ spent'[u] <= spent[u] + 1
             /\ due[u] > 0 => due'[u] = due[u] - 1
             /\ due[u] <= 0 => due'[u] <= 0
             /\ spent[u] < CallLimit => spent'[u] = spent[u] + 1
  <2>1. /\ due[u] - 1 \in Int /\ age[u] + 1 \in Int /\ spent[u] + 1 \in Int
        /\ Late \in Int /\ Late < 0 /\ StallThreshold(u) + 1 \in Int
    BY <1>1, NumberFacts DEF Late, TimeInv
  <2>2. /\ due'[u] = Max({due[u] - 1, Late}) /\ age'[u] = Min({age[u] + 1, StallThreshold(u) + 1})
        /\ spent'[u] = Min({spent[u] + 1, CallLimit})
    BY DEF Tick
  <2>3. /\ due'[u] = (IF due[u] - 1 >= Late THEN due[u] - 1 ELSE Late)
        /\ age'[u] = (IF age[u] + 1 <= StallThreshold(u) + 1 THEN age[u] + 1 ELSE StallThreshold(u) + 1)
        /\ spent'[u] = (IF spent[u] + 1 <= CallLimit THEN spent[u] + 1 ELSE CallLimit)
    <3>1. PICK a \in Int, b \in Int, c \in Int, l \in Int, t \in Int, k \in Int :
            a = due[u] - 1 /\ b = age[u] + 1 /\ c = spent[u] + 1 /\ l = Late /\ t = StallThreshold(u) + 1
              /\ k = CallLimit
      BY <1>1, <2>1
    <3>2. due'[u] = Max({a, l}) /\ age'[u] = Min({b, t}) /\ spent'[u] = Min({c, k})
      BY <2>2, <3>1
    <3>3. Max({a, l}) = (IF a >= l THEN a ELSE l)
      BY OfTwo
    <3>4. Min({b, t}) = IF b <= t THEN b ELSE t
      BY OfTwo
    <3>5. Min({c, k}) = IF c <= k THEN c ELSE k
      BY OfTwo
    <3> QED
      BY <3>1, <3>2, <3>3, <3>4, <3>5
  <2> QED
    BY <1>1, <2>1, <2>3
<1>4. ClocksOK'
  <2>1. /\ DOMAIN due' = Units /\ due' = [u \in Units |-> due'[u]]
        /\ age' = [u \in Units |-> age'[u]] /\ spent' = [u \in Units |-> spent'[u]]
    BY DEF Tick
  <2> QED
    BY <1>1, <1>2, <1>3, <2>1 DEF ClocksOK
<1>5. ASSUME NEW u \in Units PROVE UnitOK(u)'
  <2>1. Delayed(u) /\ Recent(u) /\ Placed(u) /\ ~Busy(u)
    BY DEF TimeInv, UnitOK, Tick
  <2>2. /\ due'[u] \in Int /\ age'[u] \in Int /\ spent'[u] \in Int /\ due[u] \in Int /\ age[u] \in Int
        /\ spent[u] \in Int /\ age'[u] \in {age[u] + 1, StallThreshold(u) + 1} /\ age'[u] <= age[u] + 1
        /\ spent'[u] \in {spent[u] + 1, CallLimit} /\ spent[u] <= CallLimit
        /\ due[u] > 0 => due'[u] = due[u] - 1
        /\ due[u] <= 0 => due'[u] <= 0
        /\ spent[u] < CallLimit => spent'[u] = spent[u] + 1
    BY <1>1, <1>3
  <2>3. /\ StallThreshold(u) \in Nat /\ BackoffMax <= StallThreshold(u) /\ BackoffMax \in Nat
        /\ Longest(u) \in Nat /\ interval[u] \in Nat /\ CallLimit \in Nat
        /\ failures[u] > 0 => BackoffDelay(failures[u]) \in Int /\ BackoffDelay(failures[u]) <= BackoffMax
    BY <1>1, NumberFacts, DelayBounded, CollectorAssumption DEF TimeInv
  <2>4. /\ due[u] > 0 => Left(u) = due[u] /\ Left(u)' = due[u] - 1
        /\ due[u] <= 0 => Left(u) = 0 /\ Left(u)' = 0
    BY <2>2 DEF Left
  <2>5. /\ pc[u] # "build"
        /\ pc[u] \in {"sleep", "stream"} => due[u] > 0
        /\ pc[u] \in {"call", "connect", "probe"} /\ u \notin hung => spent'[u] = spent[u] + 1
    <3>1. pc[u] # "build"
      BY <2>1 DEF Busy
    <3>2. ASSUME pc[u] \in {"sleep", "stream"} PROVE due[u] > 0
      BY <2>1, <2>2, <3>2 DEF Busy
    <3>3. ASSUME pc[u] \in {"call", "connect", "probe"}, u \notin hung PROVE spent'[u] = spent[u] + 1
      <4>1. spent[u] # CallLimit
        BY <2>1, <3>3 DEF Busy, Calling
      <4> QED
        BY <2>2, <2>3, <4>1
    <3> QED
      BY <3>1, <3>2, <3>3
  <2>6. Delayed(u)'
    BY <1>2, <2>1, <2>2, <2>3, <2>4, <2>5 DEF Delayed
  <2>7. Recent(u)'
    BY <1>2, <2>1, <2>2, <2>3, <2>4, <2>5 DEF Recent, Longest
  <2>8. Placed(u)'
    BY <1>2, <2>1, <2>2, <2>3, <2>4, <2>5 DEF Placed
  <2> QED
    BY <2>6, <2>7, <2>8 DEF UnitOK
<1> QED
  BY <1>2, <1>4, <1>5, NextInv DEF TimeInv

(* At the start each worker is off by its own delay, and counts as active    *)
(* until then.                                                               *)
LEMMA InitTime == ASSUME DelaysAreShort, Init PROVE TimeInv
<1>1. CollectorInv /\ alone \in BOOLEAN /\ unwatched = {}
  BY DEF Init, CollectorInv, PcTypeOK, StoppedStays
<1>2. /\ StartDelay \in [Units -> Nat] /\ CallLimit \in Nat /\ MaxFailures \in Nat
      /\ Interval \in [Units -> Nat] /\ \A u \in Units : Interval[u] \in Intervals[u]
  BY CollectorAssumption
<1>3. ClocksOK
  BY <1>2 DEF Init, ClocksOK
<1>5. BackoffMax \in Nat /\ \A u \in Units : Longest(u) \in Nat
  <2>1. BackoffMax \in Nat
    BY CollectorAssumption
  <2> QED
    BY <1>3, <2>1, NumberFacts
<1>4. ASSUME NEW u \in Units PROVE UnitOK(u)
  <2>1. failures[u] = 0
    BY DEF Init
  <2>2. CASE ~alone
    <3>1. pc[u] = "build" /\ due[u] = StartDelay[u] /\ age[u] = -StartDelay[u]
      BY <2>2 DEF Init
    <3>2. age[u] + Left(u) <= Longest(u) /\ age[u] + Left(u) <= BackoffMax
      BY <1>2, <1>5, <3>1 DEF Left
    <3> QED
      BY <2>1, <3>1, <3>2 DEF UnitOK, Delayed, Recent, Placed
  <2>3. CASE alone
    <3>1. pc[u] \in {"build", "none"}
      BY <2>3 DEF Init
    <3> QED
      BY <2>1, <2>3, <3>1 DEF UnitOK, Delayed, Recent, Placed
  <2> QED
    BY <2>2, <2>3
<1> QED
  BY <1>1, <1>3, <1>4 DEF TimeInv

(* An edit moves no clock: no handler is constructed by it.                  *)
LEMMA EditKeeps ==
  ASSUME TimeInv, [Next]_vars, Edit
  PROVE  TimeInv'
<1>1. UNCHANGED <<alone, pc, handler, failures, due, age, spent, hung, stopped, unwatched, interval>>
  BY DEF Edit, watch
<1>2. written' \in [Units -> Nat] /\ \A u \in Units : written'[u] \in Intervals[u]
  BY CollectorAssumption DEF Edit, TimeInv, ClocksOK
<1>3. ClocksOK'
  BY <1>1, <1>2 DEF TimeInv, ClocksOK
<1>4. \A u \in Units : UnitOK(u)'
  BY <1>1 DEF TimeInv, UnitOK, Delayed, Recent, Placed, Left, Longest
<1> QED
  BY <1>1, <1>3, <1>4, NextInv DEF TimeInv

(* Every step keeps it.                                                      *)
LEMMA NextTime ==
  ASSUME DelaysAreShort, TimeInv, [Next]_vars
  PROVE  TimeInv'
<1>1. CASE UNCHANGED vars
  BY <1>1 DEF vars, TimeInv, CollectorInv, PcTypeOK, StoppedStays, ClocksOK, UnitOK, Delayed, Recent, Placed,
              Left, Longest
<1>2. CASE Edit
  BY <1>2, EditKeeps
<1> QED
  BY <1>1, <1>2, WorkerKeeps, WatchKeeps, EventsKeep, TickKeeps DEF Next

(* A source that fails is left alone for the delay that was announced: two   *)
(* failures with no success between them are that far apart, as long as a    *)
(* handler could be constructed, in either loop.  The one fact about the     *)
(* settings it needs, the code fixes.                                        *)
THEOREM FailuresAreApart ==
  ASSUME DelaysAreShort
  PROVE  Spec => BacksOffFromSource
<1>1. Init => TimeInv
  BY InitTime
<1>2. TimeInv /\ [Next]_vars => TimeInv'
  BY NextTime
<1>3. TimeInv => [\A u \in Units : alone \/ handler[u] => Apart(u)]_vars
  <2> SUFFICES ASSUME TimeInv, NEW u \in Units, alone \/ handler[u], BuildFails(u) \/ CallFails(u),
                      failures[u] > 0, pc[u] # "probe"
               PROVE  age[u] >= BackoffDelay(failures[u])
    BY DEF Apart
  <2>1. Delayed(u) /\ alone \in BOOLEAN
    BY DEF TimeInv, UnitOK
  <2>2. CASE BuildFails(u)
    BY <2>1, <2>2 DEF BuildFails, Delayed
  <2>3. CASE CallFails(u)
    BY <2>1, <2>3 DEF CallFails, Calling, Delayed
  <2> QED
    BY <2>2, <2>3
<1> QED
  BY <1>1, <1>2, <1>3, PTL DEF Spec, BacksOffFromSource

(* A unit that is reported as stuck has a call that hangs, or an interval    *)
(* that outgrew the threshold, whatever the mix of start delays, intervals,  *)
(* edits of them, back-offs and slow calls.                                  *)
THEOREM OnlyHungIsReported ==
  ASSUME DelaysAreShort, CallsAreShort
  PROVE  Spec => OnlyOutgrownAlarms
<1>1. Init => TimeInv
  BY InitTime
<1>2. TimeInv /\ [Next]_vars => TimeInv'
  BY NextTime
<1>3. TimeInv /\ [Next]_vars => [\A u \in stalled' \ stalled : u \in hung' \/ Outgrown(u)]_vars
  <2> SUFFICES ASSUME TimeInv, [Next]_vars, NEW u \in stalled', u \notin stalled
               PROVE  u \in hung' \/ Outgrown(u)
    OBVIOUS
  <2>1. PICK v \in Units : Watches(v)
    <3>1. \A v \in Units : ~Worker(v)
      BY DEF Worker, Builds, BuildGivesUp, BuildFails, Wakes, Collects, Connects, Message, Probes,
             Snapshot, CallFails, CallGivesUp, Ends, Fails, GivesUp, watch
    <3>2. \A v \in Units : ~Hangs(v) /\ ~Dies(v)
      BY DEF Hangs, Dies, watch
    <3>3. ~Edit /\ ~Tick /\ ~UNCHANGED vars
      BY DEF Edit, Tick, watch, vars
    <3> QED
      BY <3>1, <3>2, <3>3 DEF Next
  <2>2. u = v /\ u \notin stopped /\ age'[u] > StallThreshold(u)
    BY <2>1 DEF Watches, Reported
  <2>3. u \in Units /\ u \in unwatched /\ ~alone
    BY <2>1, <2>2 DEF Watches, TimeInv
  <2>4. /\ StartDelay[u] \in Nat /\ StallThreshold(u) \in Nat /\ Longest(u) \in Nat
        /\ CallLimit \in Nat /\ interval[u] \in Nat
    BY <2>3, NumberFacts DEF TimeInv
  <2>5. /\ age[u] \in Int /\ due[u] \in Int /\ spent[u] \in Int /\ spent[u] <= CallLimit
        /\ age \in [Units -> Int] /\ Recent(u) /\ Placed(u)
        /\ pc[u] \in {"none", "build", "sleep", "call", "connect", "stream", "probe", "returning", "dead"}
    BY <2>3 DEF TimeInv, ClocksOK, UnitOK, CollectorInv, PcTypeOK
  <2>6. ~Replaces(u)
    <3>1. ASSUME Replaces(u) PROVE age'[u] = -StartDelay[u]
      BY <2>1, <2>2, <2>5, <3>1 DEF Watches, Starts
    <3> QED
      BY <2>2, <2>4, <3>1
  <2>7. age[u] > StallThreshold(u) /\ UNCHANGED hung
    BY <2>1, <2>2, <2>6 DEF Watches
  <2>8. pc[u] \notin {"none", "returning", "dead"}
    BY <2>2, <2>3, <2>5, <2>6 DEF Placed, Replaces
  <2>12. SUFFICES ASSUME u \notin hung, ~Outgrown(u) PROVE FALSE
    BY <2>7
  <2>16. PICK n \in Intervals[u] : n = interval[u]
    BY <2>3 DEF TimeInv, ClocksOK
  <2>17. n <= Interval[u] \/ n * StallMultiplier <= StallWarning
    <3>1. interval[u] \in Nat /\ Interval[u] \in Nat /\ StallMultiplier \in Nat /\ StallWarning \in Nat
      BY <2>3, <2>4, CollectorAssumption
    <3>2. interval[u] * StallMultiplier \in Nat
      BY <3>1
    <3> QED
      BY <2>12, <2>16, <3>1, <3>2 DEF Outgrown
  <2>18. Longest(u) + CallLimit + (IF u \in Streaming THEN interval[u] + CallLimit ELSE 0)
           <= StallThreshold(u)
    BY <2>3, <2>16, <2>17 DEF CallsAreShort, Longest
  <2>9. Longest(u) + CallLimit <= StallThreshold(u)
    BY <2>4, <2>18
  <2>10. u \in Streaming => Longest(u) + CallLimit + interval[u] + CallLimit <= StallThreshold(u)
    BY <2>4, <2>18
  <2>11. Left(u) \in Nat
    BY <2>5 DEF Left
  <2>13. CASE pc[u] \in {"build", "sleep"}
    BY <2>3, <2>4, <2>5, <2>7, <2>9, <2>11, <2>12, <2>13 DEF Recent
  <2>14. CASE pc[u] \in {"call", "connect"}
    BY <2>3, <2>4, <2>5, <2>7, <2>9, <2>12, <2>14 DEF Recent
  <2>15. CASE pc[u] \in {"stream", "probe"}
    BY <2>3, <2>4, <2>5, <2>7, <2>10, <2>11, <2>12, <2>15 DEF Recent, Placed
  <2> QED
    BY <2>5, <2>8, <2>13, <2>14, <2>15
<1> QED
  BY <1>1, <1>2, <1>3, PTL DEF Spec, OnlyOutgrownAlarms

-----------------------------------------------------------------------------
(* No control acts on a value past its max_age, and none reads the source    *)
(* within the minimum interval of a read that has landed: for any controls,  *)
(* ages, intervals, budgets and clocks.                                      *)

(* What the code holds its settings to: all of them are numbers.             *)
Numbers ==
  /\ MaxAge \in [Controls -> Int] /\ Minimum \in Int
  /\ Budget \in Int /\ Skews \subseteq Int /\ Tolerance \in Int

Readings == [time : Int, age : Int]
AtMostOne(S) == \A x, y \in S : x = y

PlacesOK ==
  /\ now \in Int
  /\ stored \subseteq Int /\ AtMostOne(stored)
  /\ unsent \subseteq Int
  /\ at \in [Controls -> {"idle", "lock", "again", "fetch", "judge", "acting"}]
  /\ reading \in [Controls -> SUBSET Readings]
  /\ \A c \in Controls : AtMostOne(reading[c])

(* A value a control goes on looking past is too old for it, whatever        *)
(* becomes of the search: it was too old when its age was taken.             *)
TooOld(r, c) == r.age > Trigger(c)
(* A value it decides on is that, or no time has passed since it was read.   *)
Current(r) == now - r.time <= r.age

SearchOK ==
  \A c \in Controls : \A r \in reading[c] :
    /\ at[c] \in {"lock", "again", "fetch"} => TooOld(r, c)
    /\ at[c] = "judge" => TooOld(r, c) \/ Current(r)

InputsInv == PlacesOK /\ SearchOK /\ ActsOnFresh

(* The larger of two numbers, or of those there are, is one of them.         *)
LEMMA MaxOfTwo ==
  ASSUME NEW m \in Int, NEW n \in Int
  PROVE  Max({m, n}) \in {m, n} /\ Max({m, n}) >= m /\ Max({m, n}) >= n
<1>1. \E x \in {m, n} : \A y \in {m, n} : x >= y
  OBVIOUS
<1> QED
  BY <1>1 DEF Max

(* A control looks for a fresher value only when what it has is older than   *)
(* its own max_age.                                                          *)
LEMMA TriggerCovers ==
  ASSUME Numbers, NEW c \in Controls
  PROVE  Trigger(c) \in Int /\ MaxAge[c] <= Trigger(c)
<1>1. MaxAge[c] \in Int /\ Minimum \in Int
  BY DEF Numbers
<1> QED
  BY <1>1, MaxOfTwo DEF Trigger

(* What is read is one value at most, no younger than its age says.          *)
LEMMA WhatIsRead ==
  ASSUME Numbers, PlacesOK
  PROVE  /\ HandlerReading \subseteq Readings
         /\ AtMostOne(HandlerReading)
         /\ \A r \in HandlerReading : Current(r)
<1>1. ASSUME NEW r \in HandlerReading
      PROVE  /\ r \in Readings /\ r.time \in stored /\ r.age = Max({now - r.time, 0})
             /\ Current(r)
  <2>1. PICK time \in stored : \E old \in UsableAge(time) : r = Reading(time, old)
    BY <1>1 DEF HandlerReading
  <2>2. time \in Int /\ now - time \in Int /\ 0 \in Int
    BY <2>1 DEF PlacesOK
  <2>3. r = Reading(time, Max({now - time, 0}))
    BY <2>1 DEF UsableAge
  <2>4. Max({now - time, 0}) \in Int /\ Max({now - time, 0}) >= now - time
    BY <2>2, MaxOfTwo
  <2> QED
    BY <2>1, <2>2, <2>3, <2>4 DEF Reading, Readings, Current
<1>2. \A r, s \in HandlerReading : r = s
  <2>1. ASSUME NEW r \in HandlerReading, NEW s \in HandlerReading PROVE r = s
    <3>1. r.time = s.time /\ r.age = s.age
      BY <1>1 DEF PlacesOK, AtMostOne
    <3>2. r \in Readings /\ s \in Readings
      BY <1>1
    <3> QED
      BY <3>1, <3>2 DEF Readings
  <2> QED
    BY <2>1
<1> QED
  BY <1>1, <1>2 DEF AtMostOne

(* A control that moves alone, with what it then has read, keeps the         *)
(* invariant if it keeps its own part of it.                                 *)
LEMMA OneControlMoves ==
  ASSUME InputsInv, NEW c \in Controls,
         NEW to \in {"idle", "lock", "again", "fetch", "judge", "acting"},
         NEW readings \in SUBSET Readings, AtMostOne(readings),
         at' = [at EXCEPT ![c] = to], reading' = [reading EXCEPT ![c] = readings],
         now' = now, stored' = stored, unsent' \subseteq Int,
         \A r \in readings :
           /\ to \in {"lock", "again", "fetch"} => TooOld(r, c)
           /\ to = "judge" => TooOld(r, c) \/ Current(r)
           /\ to = "acting" => now - r.time <= MaxAge[c]
  PROVE  InputsInv'
<1>1. PlacesOK'
  BY DEF InputsInv, PlacesOK, AtMostOne
<1>2. \A d \in Controls : IF d = c THEN at'[d] = to /\ reading'[d] = readings
                          ELSE at'[d] = at[d] /\ reading'[d] = reading[d]
  BY DEF InputsInv, PlacesOK
<1>3. SearchOK'
  BY <1>2 DEF InputsInv, SearchOK, TooOld, Current, Trigger
<1>4. ActsOnFresh'
  BY <1>2 DEF InputsInv, ActsOnFresh
<1> QED
  BY <1>1, <1>3, <1>4 DEF InputsInv

(* The same, of a control that only changes place.                           *)
LEMMA OneGoes ==
  ASSUME InputsInv, NEW c \in Controls,
         NEW to \in {"idle", "lock", "again", "fetch", "judge", "acting"}, Goes(c, to),
         UNCHANGED <<reading, now, stored>>, unsent' \subseteq Int,
         \A r \in reading[c] :
           /\ to \in {"lock", "again", "fetch"} => TooOld(r, c)
           /\ to = "judge" => TooOld(r, c) \/ Current(r)
           /\ to = "acting" => now - r.time <= MaxAge[c]
  PROVE  InputsInv'
<1>1. reading[c] \in SUBSET Readings /\ AtMostOne(reading[c])
  BY DEF InputsInv, PlacesOK
<1>2. reading' = [reading EXCEPT ![c] = reading[c]]
  BY DEF InputsInv, PlacesOK
<1> QED
  BY <1>1, <1>2, OneControlMoves DEF Goes

(* Each step of a control keeps it.                                          *)
LEMMA ControlInv ==
  ASSUME Numbers, InputsInv, NEW c \in Controls, Control(c)
  PROVE  InputsInv'
<1> DEFINE places == {"idle", "lock", "again", "fetch", "judge", "acting"}
<1>1. unsent \subseteq Int /\ now \in Int /\ Trigger(c) \in Int /\ MaxAge[c] <= Trigger(c)
      /\ MaxAge[c] \in Int
  BY TriggerCovers DEF InputsInv, PlacesOK, Numbers
<1>2. /\ HandlerReading \in SUBSET Readings /\ AtMostOne(HandlerReading)
      /\ \A r \in HandlerReading : Current(r)
  BY WhatIsRead DEF InputsInv
<1>3. /\ Fresh(c) \in SUBSET Readings /\ AtMostOne(Fresh(c))
      /\ \A r \in Fresh(c) : Current(r)
  BY <1>2 DEF Fresh, AtMostOne
<1>4. Fresh(c) = {} => \A r \in HandlerReading : TooOld(r, c)
  BY <1>1, <1>2 DEF Fresh, TooOld, Readings
<1>5. /\ at[c] \in {"lock", "again", "fetch"} => \A r \in reading[c] : TooOld(r, c)
      /\ at[c] = "judge" => \A r \in reading[c] : TooOld(r, c) \/ Current(r)
  BY DEF InputsInv, SearchOK
<1>6. CASE Reads(c)
  <2>1. PICK to \in places : Goes(c, to) /\ (to = "lock" => Fresh(c) = {}) /\ to # "acting"
                             /\ to \notin {"again", "fetch"}
    BY <1>6 DEF Reads
  <2> QED
    BY <1>1, <1>2, <1>4, <1>6, <2>1, OneControlMoves DEF Reads, Goes, Has, database
<1>7. CASE Locks(c)
  BY <1>1, <1>5, <1>7, OneGoes DEF Locks, database
<1>8. CASE StopsWaiting(c) \/ FetchFails(c)
  <2>1. PICK to \in {"idle", "judge"} : Goes(c, to)
    BY <1>8 DEF StopsWaiting, FetchFails, Require
  <2> QED
    BY <1>1, <1>5, <1>8, <2>1, OneGoes DEF StopsWaiting, FetchFails, database
<1>9. CASE LooksAgain(c)
  <2>1. CASE Fresh(c) # {} /\ Has(c, Fresh(c)) /\ Goes(c, "judge")
    BY <1>1, <1>3, <1>9, <2>1, OneControlMoves DEF LooksAgain, Goes, Has, database
  <2>2. CASE Fresh(c) = {} /\ Goes(c, "fetch") /\ UNCHANGED reading
    BY <1>1, <1>5, <1>9, <2>2, OneGoes DEF LooksAgain, database
  <2> QED
    BY <1>9, <2>1, <2>2 DEF LooksAgain
<1>10. CASE Fetches(c)
  <2>1. /\ {Reading(now, 0)} \in SUBSET Readings /\ AtMostOne({Reading(now, 0)})
        /\ \A r \in {Reading(now, 0)} : Current(r)
    BY <1>1 DEF Reading, Readings, AtMostOne, Current
  <2> QED
    BY <1>1, <1>10, <2>1, OneControlMoves DEF Fetches, Goes, Has
<1>11. CASE Judges(c)
  <2>1. CASE Acts(c)
    <3>1. \A r \in reading[c] : r.age <= MaxAge[c] /\ r \in Readings
      BY <2>1 DEF Acts, InputMaxAge, InputsInv, PlacesOK, AtMostOne
    <3>2. \A r \in reading[c] : now - r.time <= MaxAge[c]
      <4>1. ASSUME NEW r \in reading[c] PROVE now - r.time <= MaxAge[c]
        <5>1. r.age \in Int /\ r.time \in Int /\ r.age <= MaxAge[c]
          BY <3>1 DEF Readings
        <5>2. ~(r.age > Trigger(c))
          BY <1>1, <5>1
        <5>3. now - r.time <= r.age
          BY <1>5, <1>11, <5>2 DEF Judges, TooOld, Current
        <5> QED
          BY <1>1, <5>1, <5>3
      <4> QED
        BY <4>1
    <3> QED
      BY <1>1, <1>11, <2>1, <3>2, OneGoes DEF Judges, database
  <2>2. CASE ~Acts(c)
    BY <1>1, <1>11, <2>2, OneGoes DEF Judges, database
  <2> QED
    BY <2>1, <2>2
<1>12. CASE Rests(c) \/ Unreadable(c) \/ Killed(c)
  BY <1>1, <1>12, OneGoes DEF Rests, Unreadable, Killed, database
<1> QED
  BY <1>6, <1>7, <1>8, <1>9, <1>10, <1>11, <1>12 DEF Control

(* The newest of a point and those stored is one of them, and no older.      *)
LEMMA NewestOfTwo ==
  ASSUME PlacesOK, NEW time \in unsent
  PROVE  /\ Max({time} \cup stored) \in {time} \cup stored
         /\ \A s \in {time} \cup stored : Max({time} \cup stored) >= s
<1>1. time \in Int /\ stored \subseteq Int /\ AtMostOne(stored)
  BY DEF PlacesOK
<1>2. CASE stored = {}
  <2>1. {time} \cup stored = {time, time}
    BY <1>2
  <2> QED
    BY <1>1, <2>1, MaxOfTwo
<1>3. CASE stored # {}
  <2>1. PICK other \in stored : stored = {other}
    BY <1>1, <1>3 DEF AtMostOne
  <2>2. other \in Int /\ {time} \cup stored = {time, other}
    BY <1>1, <2>1
  <2> QED
    BY <1>1, <2>2, MaxOfTwo
<1> QED
  BY <1>2, <1>3

(* A writer that sends a point and a collector that reads one change what is *)
(* stored, and no control's part.                                            *)
LEMMA PointsInv ==
  ASSUME Numbers, InputsInv, Lands \/ Collected
  PROVE  InputsInv'
<1>1. UNCHANGED <<now, at, reading>>
  BY DEF Lands, Collected
<1>2. stored' \subseteq Int /\ AtMostOne(stored)' /\ unsent' \subseteq Int
  <2>1. CASE Lands
    <3>1. PICK time \in unsent : unsent' = unsent \ {time} /\ stored' = {Max({time} \cup stored)}
      BY <2>1 DEF Lands
    <3>2. Max({time} \cup stored) \in Int
      BY <3>1, NewestOfTwo DEF InputsInv, PlacesOK
    <3> QED
      BY <3>1, <3>2 DEF InputsInv, PlacesOK, AtMostOne
  <2>2. CASE Collected
    BY <2>2 DEF Collected, InputsInv, PlacesOK, AtMostOne, Numbers
  <2> QED
    BY <2>1, <2>2
<1>3. PlacesOK'
  BY <1>1, <1>2 DEF InputsInv, PlacesOK, AtMostOne
<1>4. SearchOK' /\ ActsOnFresh'
  BY <1>1 DEF InputsInv, SearchOK, ActsOnFresh, TooOld, Current, Trigger
<1> QED
  BY <1>3, <1>4 DEF InputsInv

(* Time passes for no control that decides or acts.                          *)
LEMMA TickInv ==
  ASSUME Numbers, InputsInv, Elapses
  PROVE  InputsInv'
<1>1. now' = now + 1 /\ UNCHANGED <<stored, unsent, at, reading>>
  BY DEF Elapses, database
<1>2. \A c \in Controls : at[c] \notin {"judge", "acting"}
  BY DEF Elapses, Waiting
<1>3. PlacesOK'
  BY <1>1 DEF InputsInv, PlacesOK, AtMostOne
<1>4. SearchOK' /\ ActsOnFresh'
  BY <1>1, <1>2 DEF InputsInv, SearchOK, ActsOnFresh, TooOld, Trigger
<1> QED
  BY <1>3, <1>4 DEF InputsInv

(* No control acts on a value older than its max_age, on whichever of the    *)
(* ways it came by it.  (read_input of inputs.py, gather of                  *)
(* control_process.py.)                                                      *)
THEOREM FreshAlways ==
  ASSUME Numbers
  PROVE  InputSpec => []ActsOnFresh
<1>1. InputInit => InputsInv
  BY DEF InputInit, InputsInv, PlacesOK, SearchOK, ActsOnFresh, AtMostOne
<1>2. InputsInv /\ [InputNext]_inputVars => InputsInv'
  <2> SUFFICES ASSUME InputsInv, [InputNext]_inputVars PROVE InputsInv'
    OBVIOUS
  <2>1. CASE UNCHANGED inputVars
    BY <2>1
    DEF inputVars, database, InputsInv, PlacesOK, SearchOK, ActsOnFresh, AtMostOne, TooOld, Current,
                Trigger
  <2>2. CASE InputNext
    BY <2>2, ControlInv, PointsInv, TickInv DEF InputNext
  <2> QED
    BY <2>1, <2>2
<1>3. InputsInv => ActsOnFresh
  BY DEF InputsInv
<1> QED
  BY <1>1, <1>2, <1>3, PTL DEF InputSpec

-----------------------------------------------------------------------------
(* The minimum interval.                                                     *)

(* The collector's clock is not ahead by more than a point's age allows for. *)
(* (FUTURE_TOLERANCE_SECONDS, which the code fixes.)                         *)
ClocksAgree == Tolerance \in Nat /\ \A ahead \in Skews : ahead <= Tolerance

(* What a live read wrote is yet to be sent, or the newest point is no older.*)
Accounted(time) == time \in unsent \/ \E s \in stored : s >= time
LandedOK ==
  /\ fetched \subseteq Int
  /\ \A time \in fetched : time <= now /\ Accounted(time)
  /\ \A time \in stored \cup unsent : time <= now + Tolerance
FloorInv == InputsInv /\ LandedOK

(* A point that landed within the minimum interval is fresh to everybody.    *)
LEMMA LandedIsFresh ==
  ASSUME Numbers, ClocksAgree, FloorInv, NEW c \in Controls, NEW time \in fetched,
         now - time <= Minimum, time \notin unsent
  PROVE  Fresh(c) # {}
<1>1. PICK s \in stored : s >= time
  BY DEF FloorInv, LandedOK, Accounted
<1>2. /\ now \in Int /\ s \in Int /\ time \in Int /\ time <= now /\ s <= now + Tolerance
      /\ Tolerance \in Nat /\ Minimum \in Int /\ MaxAge[c] \in Int
  BY <1>1 DEF FloorInv, InputsInv, PlacesOK, LandedOK, ClocksAgree, Numbers
<1>3. Minimum <= Trigger(c) /\ Trigger(c) \in Int
  BY <1>2, MaxOfTwo DEF Trigger
<1>4. PICK d \in Int, zero \in Int : d = now - s /\ zero = 0
  BY <1>2
<1>5. Max({d, zero}) \in {d, zero}
  BY MaxOfTwo
<1>6. Max({d, zero}) <= Trigger(c)
  BY <1>1, <1>2, <1>3, <1>4, <1>5
<1>7. Max({d, zero}) \in UsableAge(s)
  <2>1. ~(now - s < -Tolerance)
    BY <1>2
  <2>2. UsableAge(s) = {Max({now - s, 0})}
    BY <2>1 DEF UsableAge
  <2>3. Max({now - s, 0}) = Max({d, zero})
    BY <1>4
  <2> QED
    BY <2>2, <2>3
<1>8. Reading(s, Max({d, zero})) \in HandlerReading
  BY <1>1, <1>7 DEF HandlerReading
<1>9. Reading(s, Max({d, zero})).age = Max({d, zero})
  BY DEF Reading
<1> QED
  BY <1>6, <1>8, <1>9 DEF Fresh

(* Every step keeps it.                                                      *)
LEMMA LandedKept ==
  ASSUME Numbers, ClocksAgree, FloorInv, InputNext
  PROVE  LandedOK'
<1>1. /\ now \in Int /\ stored \subseteq Int /\ unsent \subseteq Int /\ AtMostOne(stored)
      /\ fetched \subseteq Int /\ Tolerance \in Nat /\ Skews \subseteq Int
      /\ \A time \in fetched : time <= now /\ Accounted(time)
      /\ \A time \in stored \cup unsent : time <= now + Tolerance
  BY DEF FloorInv, InputsInv, PlacesOK, LandedOK, ClocksAgree, Numbers
<1>2. ASSUME NEW c \in Controls, Control(c), ~Fetches(c) PROVE LandedOK'
  <2>1. UNCHANGED <<now, stored, unsent, fetched>>
    BY <1>2 DEF Control, Reads, Locks, StopsWaiting, LooksAgain, FetchFails, Judges, Rests, Unreadable,
                Killed, database
  <2> QED
    BY <1>1, <2>1 DEF LandedOK, Accounted
<1>3. ASSUME NEW c \in Controls, Fetches(c) PROVE LandedOK'
  BY <1>1, <1>3 DEF Fetches, LandedOK, Accounted
<1>4. CASE Lands
  <2>1. PICK time \in unsent : unsent' = unsent \ {time} /\ stored' = {Max({time} \cup stored)}
                               /\ UNCHANGED <<now, fetched>>
    BY <1>4 DEF Lands
  <2>2. PICK m \in {time} \cup stored : m = Max({time} \cup stored) /\ \A s \in {time} \cup stored : m >= s
    BY <2>1, NewestOfTwo DEF FloorInv, InputsInv
  <2>3. stored' = {m} /\ m \in Int /\ m <= now + Tolerance /\ m >= time
    BY <1>1, <2>1, <2>2
  <2>4. ASSUME NEW t \in fetched PROVE t \in unsent' \/ m >= t
    <3>1. t \in Int /\ (t \in unsent \/ \E s \in stored : s >= t)
      BY <1>1 DEF Accounted
    <3>2. CASE t \in unsent
      BY <2>1, <2>3, <3>2
    <3>3. ASSUME NEW s \in stored, s >= t PROVE m >= t
      <4>1. m >= s /\ s \in Int
        BY <1>1, <2>2
      <4> QED
        BY <2>3, <3>1, <3>3, <4>1
    <3> QED
      BY <3>1, <3>2, <3>3
  <2> QED
    BY <1>1, <2>1, <2>3, <2>4 DEF LandedOK, Accounted
<1>5. CASE Collected
  <2>1. PICK ahead \in Skews : unsent' = unsent \cup {now + ahead} /\ UNCHANGED <<now, stored, fetched>>
    BY <1>5 DEF Collected
  <2>2. ahead \in Int /\ ahead <= Tolerance
    BY <1>1 DEF ClocksAgree
  <2> QED
    BY <1>1, <2>1, <2>2 DEF LandedOK, Accounted
<1>6. CASE Elapses
  BY <1>1, <1>6 DEF Elapses, database, LandedOK, Accounted
<1> QED
  BY <1>2, <1>3, <1>4, <1>5, <1>6 DEF InputNext

(* The minimum interval binds across the processes as soon as a point has    *)
(* landed: the control that takes the lock within it finds the point, and    *)
(* does not read the source.  (read_input, _live_reading.)                   *)
THEOREM MinimumBinds ==
  ASSUME Numbers, ClocksAgree
  PROVE  InputSpec => FloorBindsLate
<1>1. InputInit => FloorInv
  BY DEF InputInit, FloorInv, InputsInv, PlacesOK, SearchOK, ActsOnFresh, AtMostOne, LandedOK
<1>2. FloorInv /\ [InputNext]_inputVars => FloorInv'
  <2> SUFFICES ASSUME FloorInv, [InputNext]_inputVars PROVE FloorInv'
    OBVIOUS
  <2>1. CASE UNCHANGED inputVars
    BY <2>1
    DEF inputVars, database, FloorInv, InputsInv, PlacesOK, SearchOK, ActsOnFresh, AtMostOne, TooOld, Current,
        Trigger, LandedOK, Accounted
  <2>2. CASE InputNext
    <3>1. InputsInv'
      BY <2>2, ControlInv, PointsInv, TickInv DEF InputNext, FloorInv
    <3>2. LandedOK'
      BY <2>2, LandedKept
    <3> QED
      BY <3>1, <3>2 DEF FloorInv
  <2> QED
    BY <2>1, <2>2
<1>3. FloorInv /\ [InputNext]_inputVars =>
        [\A c \in Controls, time \in fetched :
           Fetching(c) /\ now - time <= Minimum => time \in unsent]_inputVars
  <2> SUFFICES ASSUME FloorInv, InputNext, NEW c \in Controls, NEW time \in fetched, Fetching(c),
                      now - time <= Minimum, time \notin unsent
               PROVE  FALSE
    BY DEF Fetching
  <2>1. at \in [Controls -> {"idle", "lock", "again", "fetch", "judge", "acting"}]
    BY DEF FloorInv, InputsInv, PlacesOK
  <2>2. PICK d \in Controls : Control(d)
    BY DEF InputNext, Lands, Collected, Elapses, Fetching
  <2>3. LooksAgain(d) /\ d = c
    BY <2>1, <2>2 DEF Fetching, Control, Reads, Locks, StopsWaiting, LooksAgain, Fetches, FetchFails,
                      Judges, Rests, Unreadable, Killed, Goes, Require
  <2>4. Fresh(c) # {}
    BY LandedIsFresh
  <2> QED
    BY <2>1, <2>3, <2>4 DEF LooksAgain, Goes, Fetching
<1> QED
  BY <1>1, <1>2, <1>3, PTL DEF InputSpec, FloorBindsLate

=============================================================================
