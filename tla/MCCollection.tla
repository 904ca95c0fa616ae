---------------------------- MODULE MCCollection ----------------------------
(* The two ways a reading comes in, one in each behaviour: the collector's   *)
(* workers and their watchdog, or controls that read an input themselves.    *)
(* What either shows is about its own variables; the other stands still.     *)
EXTENDS Collector, Inputs

VARIABLE controls  \* whether the behaviour is one of controls

MCInterval == [hue |-> 1, nuki |-> 2]
MCIntervals == [hue |-> {1, 4}, nuki |-> {1, 2}]
MCDelay == [hue |-> 0, nuki |-> 1]
MCMaxAge == [boiler |-> 1, fan |-> 3]

MCInit == Init /\ InputInit /\ controls \in BOOLEAN /\ (IF controls THEN ~alone ELSE live)

OfCollector == running /\ ~controls /\ UNCHANGED <<controls, inputVars>>
OfControls == controls /\ UNCHANGED <<controls, vars>>
MCNext ==
  \/ \E u \in Units :
       \/ OfCollector /\ Builds(u)
       \/ OfCollector /\ BuildGivesUp(u)
       \/ OfCollector /\ BuildFails(u)
       \/ OfCollector /\ Wakes(u)
       \/ OfCollector /\ Collects(u)
       \/ OfCollector /\ Connects(u)
       \/ OfCollector /\ Message(u)
       \/ OfCollector /\ Probes(u)
       \/ OfCollector /\ Snapshot(u)
       \/ OfCollector /\ CallFails(u)
       \/ OfCollector /\ CallGivesUp(u)
       \/ OfCollector /\ Ends(u)
       \/ OfCollector /\ Watches(u)
       \/ OfCollector /\ Hangs(u)
       \/ OfCollector /\ Dies(u)
  \/ OfCollector /\ Edit
  \/ OfCollector /\ Tick
  \/ \E c \in Controls :
       \/ OfControls /\ Reads(c)
       \/ OfControls /\ Locks(c)
       \/ OfControls /\ StopsWaiting(c)
       \/ OfControls /\ LooksAgain(c)
       \/ OfControls /\ Fetches(c)
       \/ OfControls /\ FetchFails(c)
       \/ OfControls /\ Judges(c)
       \/ OfControls /\ Rests(c)
       \/ OfControls /\ Unreadable(c)
       \/ OfControls /\ Killed(c)
  \/ OfControls /\ Lands
  \/ OfControls /\ Collected
  \/ OfControls /\ Elapses

MCSpec == MCInit /\ [][MCNext]_<<vars, inputVars, controls>>
=============================================================================
