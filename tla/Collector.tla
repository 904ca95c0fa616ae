----------------------------- MODULE Collector -----------------------------
(***************************************************************************)
(* The workers of src/sendtoinflux.py: one thread for each unit (a source, *)
(* or one instance of it) that polls or streams, fails and backs off or    *)
(* stops for good, and the main thread's watchdog, which replaces a thread *)
(* that died and reports one that is stuck.  A single unit runs on the     *)
(* main thread itself, alone, in a loop of its own that sleeps elsewhere.  *)
(*                                                                         *)
(* Time passes in ticks.  What a worker does between two waits takes none; *)
(* a call to a source takes up to CallLimit of them, unless it hangs.      *)
(***************************************************************************)
EXTENDS Integers, FiniteSets, FiniteSetsExt

CONSTANTS
  Units,          \* the (source, instance) pairs that are collected from
  Streaming,      \* the units whose source pushes messages
  Interval,       \* the interval of each unit's source in the settings read at the start
  Intervals,      \* what edits may make of it
  StartDelay,     \* the stagger of each unit
  BackoffBase, BackoffMax, StallWarning, StallMultiplier,
  CallLimit,      \* the ticks a call takes at most, if it returns at all
  MaxFailures,    \* the bound on the failures counted
  MaxEvents       \* the bound on edits, hangs and deaths of threads

ASSUME CollectorAssumption ==
  /\ Streaming \subseteq Units
  /\ Intervals \in [Units -> SUBSET (Nat \ {0})] /\ \A u \in Units : Interval[u] \in Intervals[u]
  /\ Interval \in [Units -> Nat \ {0}] /\ StartDelay \in [Units -> Nat]
  /\ BackoffBase \in Nat /\ BackoffMax \in Nat /\ StallWarning \in Nat
  /\ StallMultiplier \in Nat /\ CallLimit \in Nat
  /\ MaxFailures \in Nat \ {0} /\ MaxEvents \in Nat

VARIABLES
  alone,      \* whether there is one unit, run on the main thread
  running,    \* whether the process is
  file,       \* what reading the settings file meets
  written,    \* the interval of each unit's source in that file
  interval,   \* the one each unit's latest handler was constructed with
  pc,         \* where the worker of each unit is
  handler,    \* whether it has a handler for its source
  failures,   \* its failures since it last succeeded
  due,        \* ticks until its next collection
  spent,      \* ticks in the call it is in
  hung,       \* the units with a call longer than any should be in this cycle
  age,        \* ticks since its last finished cycle, as the watchdog reckons
  stopped,    \* the units that gave up for good
  stalled,    \* the units reported as stuck
  status,     \* the last heartbeat written for each unit
  unwatched,  \* the units the watchdog has yet to look at in this tick
  events      \* the edits, hangs and deaths so far

settings == <<file, written, interval, events>>
watch == <<stopped, stalled, unwatched>>
vars == <<alone, running, file, written, interval, pc, handler, failures, due, spent, hung, age,
          stopped, stalled, status, unwatched, events>>

\* A call to the source: a poll, the connection of a stream, its health probe.
Calling == {"call", "connect", "probe"}
\* The thread of a unit has ended, or has nothing left to do but end.
Ended == {"returning", "dead"}

\* The plausible bug of a threshold that forgets the interval.
FlatThreshold(u) == StallWarning
\* The watchdog goes by the settings read at the start, whatever a handler read since.
StallThreshold(u) == Max({StallWarning, Interval[u] * StallMultiplier})

BackoffDelay(n) ==
  IF BackoffBase = 0 THEN 0 ELSE Min({BackoffMax, BackoffBase * 2^(n - 1)})

\* The two loops: the one alone sleeps after it tried, the others before.
AfterBuild(u) ==
  IF ~alone THEN "sleep" ELSE IF u \in Streaming THEN "connect" ELSE "call"
AfterSleep(u) ==
  IF alone THEN "build" ELSE IF u \in Streaming THEN "connect" ELSE "call"
AfterTry == IF alone THEN "sleep" ELSE "build"

-----------------------------------------------------------------------------
\* How a try ends.

\* A heartbeat needs a handler to go through: without one nothing is written.
Heartbeat(u, ok) == status' = IF handler[u] THEN [status EXCEPT ![u] = ok] ELSE status

\* Any failure is retried, after a delay that grows, with a new handler.
FailsAtOnce(u) ==
  /\ failures' = [failures EXCEPT ![u] = Min({@ + 1, MaxFailures})]
  /\ Heartbeat(u, "failing")
  /\ handler' = [handler EXCEPT ![u] = FALSE]
  /\ due' = [due EXCEPT ![u] = 0]
  /\ age' = [age EXCEPT ![u] = 0]
  /\ pc' = [pc EXCEPT ![u] = AfterTry]
  /\ UNCHANGED <<alone, running, spent, watch>>
Fails(u) ==
  /\ failures' = [failures EXCEPT ![u] = Min({@ + 1, MaxFailures})]
  /\ Heartbeat(u, "failing")
  /\ handler' = [handler EXCEPT ![u] = FALSE]
  /\ due' = [due EXCEPT ![u] = BackoffDelay(failures'[u])]
  /\ age' = [age EXCEPT ![u] = 0]
  /\ pc' = [pc EXCEPT ![u] = AfterTry]
  /\ UNCHANGED <<alone, running, spent, watch>>

\* A configuration problem is not: the unit stops for good, or the process
\* exits where it is the only one.
GivesUp(u) ==
  /\ Heartbeat(u, "failing")
  /\ IF alone THEN running' = FALSE /\ UNCHANGED stopped
              ELSE stopped' = stopped \cup {u} /\ UNCHANGED running
  /\ pc' = [pc EXCEPT ![u] = "returning"]
  /\ UNCHANGED <<alone, handler, failures, due, spent, age, stalled, unwatched>>

-----------------------------------------------------------------------------
\* One worker.

\* The top of the loop: a worker without a handler constructs one, which reads
\* the settings file, and the interval in it.
Builds(u) ==
  /\ pc[u] = "build" /\ (handler[u] \/ file = "good")
  /\ handler' = [handler EXCEPT ![u] = TRUE]
  /\ interval' = IF handler[u] THEN interval ELSE [interval EXCEPT ![u] = written[u]]
  /\ pc' = [pc EXCEPT ![u] = AfterBuild(u)]
  /\ spent' = [spent EXCEPT ![u] = 0]
  /\ UNCHANGED <<alone, running, file, written, events, failures, due, hung, age, watch, status>>
\* A settings file that is not valid is a configuration problem; one that
\* cannot be read is like any failure.
BuildGivesUp(u) ==
  pc[u] = "build" /\ ~handler[u] /\ file = "invalid" /\ GivesUp(u) /\ UNCHANGED <<settings, hung>>
BuildFails(u) ==
  pc[u] = "build" /\ ~handler[u] /\ file = "unreadable" /\ Fails(u) /\ UNCHANGED <<settings, hung>>

Wakes(u) ==
  /\ pc[u] = "sleep" /\ due[u] <= 0
  /\ pc' = [pc EXCEPT ![u] = AfterSleep(u)]
  /\ spent' = [spent EXCEPT ![u] = 0]
  /\ UNCHANGED <<alone, running, settings, handler, failures, due, hung, age, watch, status>>

\* A poll: its data goes to the writer, and the next is due an interval after
\* this one was.
Collects(u) ==
  /\ pc[u] = "call"
  /\ due' = [due EXCEPT ![u] = @ + interval[u]]
  /\ failures' = [failures EXCEPT ![u] = 0]
  /\ Heartbeat(u, "ok")
  /\ age' = [age EXCEPT ![u] = 0]
  /\ pc' = [pc EXCEPT ![u] = AfterTry]
  /\ hung' = hung \ {u}
  /\ UNCHANGED <<alone, running, settings, handler, spent, watch>>

\* A stream: it is connected, and from then on takes a snapshot each interval,
\* counted from the end of the last.
Connects(u) ==
  /\ pc[u] = "connect"
  /\ due' = [due EXCEPT ![u] = interval[u]]
  /\ pc' = [pc EXCEPT ![u] = "stream"]
  /\ UNCHANGED <<alone, running, settings, handler, failures, spent, hung, age, watch, status>>
Message(u) ==
  /\ pc[u] = "stream"
  /\ age' = [age EXCEPT ![u] = 0]
  /\ hung' = hung \ {u}
  /\ UNCHANGED <<alone, running, settings, pc, handler, failures, due, spent, watch, status>>
Probes(u) ==
  /\ pc[u] = "stream" /\ due[u] <= 0
  /\ pc' = [pc EXCEPT ![u] = "probe"]
  /\ spent' = [spent EXCEPT ![u] = 0]
  /\ UNCHANGED <<alone, running, settings, handler, failures, due, hung, age, watch, status>>
\* A probe that cannot reach the source is reported, and the stream goes on.
Snapshot(u) ==
  /\ pc[u] = "probe"
  /\ \E ok \in {"ok", "failing"} : Heartbeat(u, ok)
  /\ age' = [age EXCEPT ![u] = 0]
  /\ due' = [due EXCEPT ![u] = interval[u]]
  /\ pc' = [pc EXCEPT ![u] = "stream"]
  /\ hung' = hung \ {u}
  /\ UNCHANGED <<alone, running, settings, handler, failures, spent, watch>>

\* The call fails, or meets a configuration problem.
CallFails(u) == pc[u] \in Calling /\ Fails(u) /\ hung' = hung \ {u} /\ UNCHANGED settings
CallGivesUp(u) == pc[u] \in Calling /\ GivesUp(u) /\ hung' = hung \ {u} /\ UNCHANGED settings

\* The thread of a worker that returned ends a moment later.
Ends(u) ==
  /\ pc[u] = "returning" /\ ~alone
  /\ pc' = [pc EXCEPT ![u] = "dead"]
  /\ UNCHANGED <<alone, running, settings, handler, failures, due, spent, hung, age, watch, status>>

-----------------------------------------------------------------------------
\* The watchdog looks at the units in turn, once a tick here.

\* A worker's first lines: it starts over, and counts as active until its
\* staggered start.
Starts(u) ==
  /\ pc' = [pc EXCEPT ![u] = "build"]
  /\ handler' = [handler EXCEPT ![u] = FALSE]
  /\ failures' = [failures EXCEPT ![u] = 0]
  /\ due' = [due EXCEPT ![u] = StartDelay[u]]
  /\ age' = [age EXCEPT ![u] = -StartDelay[u]]

\* The plausible bug of a watchdog that replaces every thread that ended.
ReplacesAny(u) == pc[u] = "dead"
Replaces(u) == pc[u] = "dead" /\ u \notin stopped

\* A unit is reported once, and again only after it was active in between.
Reported(u) ==
  IF u \in stopped THEN stalled
  ELSE IF age'[u] > StallThreshold(u) THEN stalled \cup {u} ELSE stalled \ {u}

Watches(u) ==
  /\ u \in unwatched
  /\ unwatched' = unwatched \ {u}
  /\ IF Replaces(u) THEN Starts(u) ELSE UNCHANGED <<pc, handler, failures, due, age>>
  /\ stalled' = Reported(u)
  /\ UNCHANGED <<alone, running, settings, spent, hung, stopped, status>>

-----------------------------------------------------------------------------
\* What happens to a worker, and time.

Event == events < MaxEvents /\ events' = events + 1

\* Someone edits the settings file, the interval of a source in it, or makes it
\* unreadable.
Edit ==
  /\ Event
  /\ \/ file' \in {"good", "invalid", "unreadable"} \ {file} /\ UNCHANGED written
     \/ /\ \E u \in Units : \E to \in Intervals[u] \ {written[u]} :
             written' = [written EXCEPT ![u] = to]
        /\ UNCHANGED file
  /\ UNCHANGED <<alone, running, interval, pc, handler, failures, due, spent, hung, age, watch, status>>
\* A call does not return.
Hangs(u) ==
  /\ Event
  /\ pc[u] \in Calling /\ u \notin hung
  /\ hung' = hung \cup {u}
  /\ UNCHANGED <<alone, running, file, written, interval, pc, handler, failures, due, spent, age, watch,
                 status>>
\* A thread dies of what is no Exception.
Dies(u) ==
  /\ Event
  /\ ~alone /\ pc[u] \in Calling
  /\ pc' = [pc EXCEPT ![u] = "dead"]
  /\ hung' = hung \ {u}
  /\ UNCHANGED <<alone, running, file, written, interval, handler, failures, due, spent, age, watch,
                 status>>

\* A worker that would go on at once, and does before time passes.
Busy(u) ==
  \/ pc[u] \in {"build", "returning"}
  \/ pc[u] \in {"sleep", "stream"} /\ due[u] <= 0
  \/ pc[u] \in Calling /\ u \notin hung /\ spent[u] = CallLimit

\* The counters stop where nothing more can come of them.
Late == -(CallLimit + 1)
Tick ==
  /\ unwatched = {} /\ \A u \in Units : ~Busy(u)
  /\ due' = [u \in Units |-> Max({due[u] - 1, Late})]
  /\ age' = [u \in Units |-> Min({age[u] + 1, StallThreshold(u) + 1})]
  /\ spent' = [u \in Units |-> Min({spent[u] + 1, CallLimit})]
  /\ unwatched' = IF alone THEN {} ELSE Units
  /\ UNCHANGED <<alone, running, settings, pc, handler, failures, hung, stopped, stalled, status>>

-----------------------------------------------------------------------------
Init ==
  /\ running = TRUE /\ file = "good" /\ events = 0
  /\ written = Interval /\ interval = Interval
  /\ handler = [u \in Units |-> FALSE] /\ failures = [u \in Units |-> 0]
  /\ spent = [u \in Units |-> 0] /\ hung = {}
  /\ stopped = {} /\ stalled = {} /\ status = [u \in Units |-> "none"]
  /\ unwatched = {}
  /\ \/ /\ alone = FALSE
        /\ pc = [u \in Units |-> "build"]
        /\ due = StartDelay
        /\ age = [u \in Units |-> -StartDelay[u]]
     \/ \E one \in Units :
          /\ alone = TRUE
          /\ pc = [u \in Units |-> IF u = one THEN "build" ELSE "none"]
          /\ due = [u \in Units |-> 0]
          /\ age = [u \in Units |-> 0]

Worker(u) ==
  \/ Builds(u) \/ BuildGivesUp(u) \/ BuildFails(u) \/ Wakes(u)
  \/ Collects(u) \/ Connects(u) \/ Message(u) \/ Probes(u) \/ Snapshot(u)
  \/ CallFails(u) \/ CallGivesUp(u) \/ Ends(u)

Next ==
  /\ running
  /\ \/ \E u \in Units : Worker(u) \/ Watches(u) \/ Hangs(u) \/ Dies(u)
     \/ Edit \/ Tick

Spec == Init /\ [][Next]_vars

-----------------------------------------------------------------------------
(* A worker that is reported as stuck has a call that hangs: as              *)
(* sendtoinflux.py:44-48 has it, the threshold is such that a source that    *)
(* sleeps for its full interval is never flagged.  An edit of the interval   *)
(* makes it untrue: the handler constructed after the next failure goes by   *)
(* the new one, the watchdog by the old.  (check_for_stalled_sources.)       *)
NoFalseAlarm == [][\A u \in stalled' \ stalled : u \in hung']_vars

\* An edit has given a unit an interval longer than the threshold allows for.
Outgrown(u) == interval[u] > Interval[u] /\ interval[u] * StallMultiplier > StallWarning

(* It is true of every other: whatever the mix of start delays, intervals,   *)
(* edits of them, back-offs, snapshots and slow calls, a new report is of a  *)
(* call that hangs, or of a unit whose interval has outgrown the threshold.  *)
(* (check_for_stalled_sources, _stall_threshold_seconds, _stamp_activity.)   *)
OnlyOutgrownAlarms == [][\A u \in stalled' \ stalled : u \in hung' \/ Outgrown(u)]_vars

(* A unit with a configuration problem never touches its source again: the   *)
(* watchdog, which replaces any other thread that ended, never replaces that *)
(* one, whichever of the two is seen first, the thread's end or the unit's   *)
(* name among the stopped.  (create_source_worker, run_workers.)             *)
StoppedStays == \A u \in stopped : pc[u] \in Ended

\* A failure that follows a failure comes no sooner than the delay after it
\* that the log announced.  A stream that breaks was connected in between.
Apart(u) ==
  (BuildFails(u) \/ CallFails(u)) /\ failures[u] > 0 /\ pc[u] # "probe" =>
    age[u] >= BackoffDelay(failures[u])

(* A source that fails is left alone for the delay, in either loop, as long  *)
(* as a handler for it could be constructed; and alone, always.              *)
(* (get_backoff_delay, create_source_worker, run_one_worker.)                *)
BacksOffFromSource == [][\A u \in Units : alone \/ handler[u] => Apart(u)]_vars

(* Every failure is, as README.md has it: a failed source "is automatically  *)
(* restarted with exponential backoff ... to avoid tight failure loops".     *)
BacksOff == [][\A u \in Units : Apart(u)]_vars
=============================================================================
