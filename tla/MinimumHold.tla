---------------------------- MODULE MinimumHold ----------------------------
(***************************************************************************)
(* What a control promises of min_transition_seconds.  A device stays      *)
(* where it is until its minimum has passed, over any number of windows,   *)
(* stops and crashes, unless                                               *)
(*   - a forced state moved it, or it has become another device,           *)
(*   - no rung that a cap allows leaves every device bound like it where   *)
(*     it is, or it is another device whose log entry is out of date,      *)
(*   - its last change was never answered, or never reached the disk       *)
(*     before the process died, or the log could not be read.              *)
(* Everything else is free: which rung, when, and in what order devices    *)
(* move towards it.                                                        *)
(***************************************************************************)
EXTENDS Integers, FiniteSets

CONSTANTS
  Devices,
  Documents,
  Forced(_, _),  \* what a document's named states put a device in
  Ticks,    \* how long time may pass at once
  Longest   \* the age past which ages are not told apart

VARIABLES
  doc,      \* the document in force: its rungs and its minimum per device
  up,       \* whether a control is running
  state,    \* what each device is in
  age,      \* ticks since it got there
  free,     \* devices no minimum binds
  unsaved,  \* devices whose last change is not on disk
  misdated, \* free devices that the log has an older entry of
  target    \* the rung being commanded, or none

vars == <<doc, up, state, age, free, unsaved, misdated, target>>
NoTarget == [d \in {} |-> 0]

Bound == {d \in Devices \ free : age[d] < doc.min[d]}
Rungs == {doc.stages[i] : i \in DOMAIN doc.stages}
Keeps(rung) == \A d \in Bound \ doc.driven : rung.states[d] = state[d]

Least(rung) == \A other \in Rungs : rung.level <= other.level

\* A rung that moves a bound device is taken only where no rung below it keeps
\* them all, and no other of its level unless that is the lowest there is; or
\* where the log misleads.
MayTake(rung) ==
  \/ Keeps(rung)
  \/ misdated # {}
  \/ \A other \in Rungs :
       Keeps(other) => \/ other.level > rung.level
                       \/ other.level = rung.level /\ Least(rung)

Init ==
  /\ doc \in Documents /\ up = FALSE
  /\ free = Devices /\ unsaved = {} /\ misdated = {} /\ target = NoTarget

Begin ==
  /\ ~up /\ up' = TRUE
  /\ free' \in {free, Devices} /\ misdated' \subseteq misdated
  /\ UNCHANGED <<doc, state, age, unsaved, target>>

\* A rung is planned, a driven device at the value it has where it is bound.
Plan ==
  /\ up /\ target = NoTarget
  /\ DOMAIN target' = Devices
  /\ \E rung \in Rungs : /\ MayTake(rung)
                         /\ \A d \in Devices \ doc.driven : target'[d] = rung.states[d]
  /\ \A d \in Bound \cap doc.driven : target'[d] = state[d]
  /\ UNCHANGED <<doc, up, state, age, free, unsaved, misdated>>

\* A device is put where the rung has it, or under force in a named state.
\* Until it is recorded nothing binds it.
Move(d) ==
  /\ up
  /\ state' = [state EXCEPT ![d] = state'[d]]
  /\ IF target = NoTarget THEN state'[d] \in Forced(doc, d) ELSE state'[d] = target[d]
  /\ \/ age' = age /\ state' = state
     \/ age' = [age EXCEPT ![d] = 0] /\ d \in free'
  /\ free' \subseteq free \cup {d} /\ free \subseteq free'
  /\ misdated' \subseteq (misdated \cup {d}) \cap free'
  /\ UNCHANGED <<doc, up, unsaved, target>>

\* What moved is recorded, in memory if not on disk, and may bind again.
Record ==
  /\ up /\ target' = NoTarget
  /\ free' \subseteq free /\ misdated' \subseteq misdated
  /\ unsaved' \subseteq unsaved \cup free
  /\ UNCHANGED <<doc, up, state, age>>

Pass ==
  /\ target = NoTarget
  /\ \E n \in Ticks :
       age' = [d \in Devices |-> IF age[d] + n < Longest THEN age[d] + n ELSE Longest]
  /\ unsaved' \subseteq unsaved
  /\ UNCHANGED <<doc, up, state, free, misdated, target>>

\* The process ends: what was not on disk is forgotten, and nothing else.
Die ==
  /\ up /\ up' = FALSE
  /\ free' \subseteq free \cup unsaved /\ misdated' \subseteq free'
  /\ unsaved' = {} /\ target' = NoTarget
  /\ UNCHANGED <<doc, state, age>>

Edit ==
  /\ ~up /\ doc' \in Documents
  /\ free' \ free \subseteq {d \in Devices : doc'.identity[d] # doc.identity[d]}
  /\ UNCHANGED <<up, state, age, unsaved, misdated, target>>

Next == Begin \/ Plan \/ (\E d \in Devices : Move(d)) \/ Record \/ Pass \/ Die \/ Edit

Spec == Init /\ [][Next]_vars
=============================================================================
