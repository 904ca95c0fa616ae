----------------------------- MODULE Decisions ------------------------------
(***************************************************************************)
(* What a control decides from its document alone: whether its window of   *)
(* the day is open, how a window of the cycle is planned, whether the      *)
(* document is one to store and run.  A behaviour asks one question of     *)
(* given sets and holds the answer.                                        *)
(***************************************************************************)
EXTENDS Staging, Schedule

CONSTANTS
  Zones,       \* clocks over some instants
  Plans,       \* what a window is planned from
  Window,      \* the seconds of a window
  Documents,   \* control documents, sound ones and not
  Sources, Actuating, Drivable, Enabled, TimeZones

Store == INSTANCE Documents

ASSUME ZonesAssumption ==
  \A zone \in Zones : \A i \in DOMAIN zone : i \in Int /\ zone[i] \in Int

\* A cycle takes time, a ladder has rungs, and a rung says something of every
\* device, as what is validated does.
ASSUME WindowAssumption == Window \in Nat \ {0}
ASSUME PlansAssumption ==
  \A p \in Plans :
    /\ p.demand \in Int /\ p.cap \in Int
    /\ DOMAIN p.stages \subseteq Nat /\ IsFiniteSet(DOMAIN p.stages) /\ DOMAIN p.stages # {}
    /\ \A i \in DOMAIN p.stages :
         p.stages[i].level \in Int /\ p.stages[i].states \in [DOMAIN p.min -> Int]
    /\ p.driven \subseteq DOMAIN p.min /\ p.frozen \subseteq DOMAIN p.min

\* The shares of a window are whole seconds: the program's are reals.
ASSUME SharesAssumption ==
  \A p \in Plans : \A i, j \in DOMAIN p.stages :
    LET span == p.stages[j].level - p.stages[i].level
    IN span > 0 => (Window * (p.demand - p.stages[i].level)) % span = 0

VARIABLES question, answer
vars == <<question, answer>>

Asks(kind, of) == question' = [kind |-> kind, of |-> of]

-----------------------------------------------------------------------------
Init == question = [kind |-> "none", of |-> "none"] /\ answer = "none"

\* A window is asked whether it is open at every instant.
TellsTime ==
  \E period \in ActivePeriods, zone \in Zones :
    /\ Asks("period", [period |-> period, zone |-> zone])
    /\ answer' = [i \in DOMAIN zone |-> IsInside(period, i, zone)]
\* A window is planned on the rungs the cap and the frozen devices leave.  The
\* driven devices take their values off the capped curve, and none of them is
\* frozen here: what it holds is pinned afterwards.
PlansWindow ==
  \E p \in Plans :
    LET curve == CapLadder(BuildLadder(p.stages), p.cap)
        ladder == ReachableLadder(curve, p.frozen \ p.driven, p.states)
    IN /\ Asks("plan", [plan |-> p, ladder |-> ladder])
       /\ answer' = PlanWindow(ladder, p.demand, Window, p.min, p.driven, curve)

\* A document is validated, as it is before it is stored and before it is run.
ValidatesDocument ==
  \E d \in Documents : Asks("document", d) /\ answer' = Store!ValidateControl(d)

Decides ==
  /\ question.kind = "none"
  /\ TellsTime \/ PlansWindow \/ ValidatesDocument
DecisionSpec == Init /\ [][Decides]_vars

-----------------------------------------------------------------------------
Of(kind) == question.kind = kind

(* Windows that meet hand over: at every instant, on both sides of a change  *)
(* of daylight saving and of midnight, exactly one of the windows that cut   *)
(* the day at three times is open, so no two controls claim a heater and     *)
(* none is left without.  (schedule.py: ActivePeriod, is_inside.)            *)
HandOver ==
  Of("period") =>
    LET p == question.of.period
        zone == question.of.zone
    IN \A cut \in 0..(Day - 1) \ {p.start, p.end}, i \in DOMAIN zone :
         LET before == [start |-> cut, end |-> p.start]
             after == [start |-> p.end, end |-> cut]
             inOrder == IsInside([start |-> p.end, end |-> p.start], cut, [j \in {cut} |-> 0])
         IN inOrder => Cardinality({w \in {before, p, after} : IsInside(w, i, zone)}) = 1

(* A document that is accepted runs: its process can be constructed from it, *)
(* and both states its gate may ask for can be given to its devices.         *)
(* CONTROLS.md leaves nothing else to the start but what needs the far end.  *)
(* (controls.py: validate_control; gating.py; controller.py; schedule.py.)   *)
AcceptedRuns ==
  Of("document") /\ answer =>
    Store!Starts(question.of) /\ Store!ReachesItsStates(question.of)

(* As AcceptedRuns, but for the one thing the checks leave out: a window     *)
(* whose two times are the same.                                             *)
AcceptedRunsUnlessEmpty ==
  Of("document") /\ answer =>
    LET d == question.of
        empty == Store!IsMapping(d.active_period)
                   /\ d.active_period.of.from = d.active_period.of.to
    IN Store!ReachesItsStates(d) /\ (Store!Starts(d) <=> ~empty)

\* What a plan does to the devices that are switched.
Changing(plan, driven) ==
  IF Len(plan) = 1 THEN {}
  ELSE {d \in DOMAIN plan[1].rung.states \ driven :
          plan[1].rung.states[d] # plan[2].rung.states[d]}

\* No device is asked to change and back within its minimum time: each part of
\* a window that changes it is at least that long.  A frozen one the log has a
\* state for does not change at all while a rung leaves it where it is, and a
\* driven one holds a single value all window.
MinimumsKept ==
  LET p == question.of.plan
      states(i) == answer[i].rung.states
      leaves(r) == \A d \in (p.frozen \cap DOMAIN p.states) \ p.driven : r.states[d] = p.states[d]
  IN /\ \A d \in Changing(answer, p.driven), i \in DOMAIN answer : answer[i].seconds >= p.min[d]
     /\ (\E r \in question.of.ladder : leaves(r)) => \A i \in DOMAIN answer : leaves(answer[i].rung)
     /\ \A d \in p.driven, i \in DOMAIN answer : states(i)[d] = states(1)[d]

(* A window delivers what was asked of it as nearly as the ladder can: split *)
(* in two it averages out at the demand exactly, whole it commands what a    *)
(* rung does that no other is nearer than, and nothing above a cap is ever   *)
(* switched on unless the lowest rung is; and it keeps every minimum while   *)
(* it does.  (staging.py: plan_window, bracket, cap_ladder,                  *)
(* reachable_ladder, _minimum_transition; controller.py: step.)              *)
WindowDelivers ==
  /\ Of("plan") => MinimumsKept
  /\ Of("plan") /\ question.of.plan.driven = {} =>
    LET p == question.of.plan
        ladder == question.of.ladder
        away(level) == Magnitude(level - p.demand)
        nearest(r) == \A s \in ladder : away(r.level) <= away(s.level)
    IN /\ Length(answer) = Window
       /\ \A i \in DOMAIN answer : answer[i].rung \in ladder
       /\ \A i \in DOMAIN answer : answer[i].level <= p.cap \/ answer[i].rung = Bottom(ladder)
       /\ Len(answer) = 2 => DeliveredLevel(answer) = p.demand * Window
       /\ Len(answer) = 1 => \E r \in ladder : nearest(r) /\ r.states = answer[1].rung.states
=============================================================================
