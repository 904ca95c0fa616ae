---------------------------- MODULE ControlLoop ----------------------------
(***************************************************************************)
(* One control's process: src/toinflux/control_process.py with the gate    *)
(* and the device guard (gating.py), the transition log (transitions.py)   *)
(* and the loop's hold and resume (controller.py), over the planner of     *)
(* staging.py.                                                             *)
(*                                                                         *)
(* The process starts, asserts a starting state, and then cycles: decide,  *)
(* and spend a window on the rungs planned, or rest.  Devices are          *)
(* commanded one at a time, each command may go unanswered, the process    *)
(* may be stopped or killed between any two steps, and a write of the log  *)
(* may fail.  The PID's arithmetic is left out: a demand is any level, and *)
(* the integral is known by the document and the moment it was built in.   *)
(*                                                                         *)
(* Time passes where the process sleeps or is down.  Ages count the ticks  *)
(* since an event and stop at the first value past every limit.            *)
(***************************************************************************)
EXTENDS Integers, Sequences, FiniteSets, Functions, Staging

CONSTANTS
  Devices,       \* the devices of the control
  Documents,     \* what the control's document may say
  Cycle,         \* cycle_seconds
  Longest,       \* the longest minimum: ages past it are not told apart
  ResumeWithin,  \* how old a recorded loop may be: RESUMABLE_CYCLES cycles
  HoldBound,     \* how long a hold may be: RESUMABLE_HOLD_SECONDS
  Demands,       \* the levels the PID may ask for
  Caps,          \* what max_level may evaluate to
  MaxFaults      \* bounds the commands and writes that fail and the stops

(***************************************************************************)
(* What validate_control leaves of a document: a ladder whose rungs say    *)
(* what every device is put in, and a minimum for each, driven or not.  A  *)
(* device's identity is everything its declaration says but the minimum,   *)
(* so how it is driven goes with it.                                       *)
(***************************************************************************)
States == [Devices -> Int]
Rungs(document) == {document.stages[i] : i \in DOMAIN document.stages}

ASSUME DocumentsAssumption ==
  \A d \in Documents :
    /\ d.driven \subseteq Devices /\ d.full \in Nat
    /\ DOMAIN d.min = Devices /\ \A e \in Devices : d.min[e] \in 0..Longest
    /\ DOMAIN d.stages \subseteq Nat /\ IsFiniteSet(DOMAIN d.stages) /\ DOMAIN d.stages # {}
    /\ \A rung \in Rungs(d) : rung.level \in Int /\ rung.states \in States
    /\ d.period \in BOOLEAN /\ d.gated \in BOOLEAN
    /\ \A state \in {d.safe, d.end} :
         /\ state.kind \in {"unenergised", "energised", "value", "leave_unchanged"}
         /\ state.value \in Int
ASSUME IdentityAssumption ==
  \A p, q \in Documents, d \in Devices :
    p.identity[d] = q.identity[d] =>
      p.full = q.full /\ (d \in p.driven <=> d \in q.driven)
ASSUME NumbersAssumption ==
  /\ Cycle \in Nat \ {0} /\ Longest \in Nat /\ ResumeWithin \in Nat /\ HoldBound \in Nat
  /\ MaxFaults \in Nat /\ Demands \subseteq Int /\ Caps \subseteq Int

VARIABLES
  doc,       \* the document in force
  pc,        \* what the process is doing
  acting,    \* the gate's _acting: "unknown", "yes", "no"
  todo,      \* commands still to send: device -> state
  done,      \* commands answered, to be recorded: device -> state
  broke,     \* what ended a round of commands early
  plan,      \* dwells of this window still to come, the current one first
  entries,   \* the transition log in memory: device -> entry
  loop,      \* its pid section in memory
  saved,     \* the log on disk
  integral,  \* what the PID's integral was built from
  held,      \* the controller's _held: ticks since, or NotHeld
  auto,      \* whether the PID is in automatic
  dev,       \* what each device is really in
  since,     \* ticks since each really changed
  blind,     \* devices whose last change the log does not date
  failed,    \* whether the last cycle ended in the fail-safe
  outside,   \* whether the last decision found the window closed
  faults     \* failures and stops so far

vars == <<doc, pc, acting, todo, done, broke, plan, entries, loop, saved, integral,
          held, auto, dev, since, blind, failed, outside, faults>>
process == <<acting, plan, loop, integral, held, auto, failed, outside>>
pid == <<integral, held, auto>>
world == <<dev, since, blind>>

Commanding == {"asserting", "closing", "window", "failing", "leaving"}
NotHeld == -1
Fresh == [from |-> "nothing", idle |-> 0]
NoLoop == [from |-> "nothing", age |-> 0]
NoCommands == [d \in {} |-> 0]
NoLog == [devices |-> NoCommands, pid |-> NoLoop]

(***************************************************************************)
(* What a document says of a device and of its loop: all that makes a      *)
(* recorded state or integral mean something else is kept as one value.    *)
(* The states it names, and the commands they come to: a named state is a  *)
(* kind with, for a number, its value.                                     *)
(***************************************************************************)
Identity(d) == doc.identity[d]
MinTransition(d) == doc.min[d]
LoopMaterial == doc.fingerprint

Leaves(state) == state.kind = "leave_unchanged"
WithinScale(document, d, v) ==
  IF d \notin document.driven THEN v
  ELSE IF v < 0 THEN 0 ELSE IF v > document.full THEN document.full ELSE v

CommandsFor(document, state) ==
  [d \in Devices |->
     CASE state.kind = "unenergised" -> 0
       [] state.kind = "energised" -> IF d \in document.driven THEN document.full ELSE 1
       [] state.kind = "value" -> IF d \in document.driven THEN state.value
                                  ELSE IF state.value > 0 THEN 1 ELSE 0]

\* What is sent to the devices, and in what order: bridge by bridge, and on one
\* bridge as they were asked for.
Sent(document, commands) ==
  [d \in DOMAIN commands |-> WithinScale(document, d, commands[d])]
Sooner(d, e) == \/ doc.bridge[d] < doc.bridge[e]
                \/ doc.bridge[d] = doc.bridge[e] /\ doc.place[d] < doc.place[e]
Due(d) == d \in DOMAIN todo /\ \A e \in DOMAIN todo : ~Sooner(e, d)

StartingState(inside) == IF doc.period /\ ~inside THEN doc.end ELSE doc.safe
ClosingState == IF doc.period THEN doc.end ELSE doc.safe

\* The states a document names for not acting, and what they put a device in.
Named(document) == {document.safe} \cup (IF document.period THEN {document.end} ELSE {})
Forced(document, d) ==
  {Sent(document, CommandsFor(document, state))[d] :
     state \in {s \in Named(document) : ~Leaves(s)}}

(***************************************************************************)
(* The transition log.                                                     *)
(***************************************************************************)
LastStates == [d \in DOMAIN entries |-> entries[d].state]
Unchanged(d, v) == /\ d \in DOMAIN entries
                   /\ entries[d].state = v
                   /\ entries[d].for = Identity(d)

\* The plausible bug: a device already in the log keeps its entry.
RecordedOnce(commands, forced) ==
  [d \in DOMAIN entries \cup DOMAIN commands |->
     IF d \in DOMAIN entries THEN entries[d]
     ELSE [state |-> commands[d], age |-> 0, for |-> Identity(d), forced |-> forced]]

\* record: an entry is new where the state or the device changed; an ordinary
\* command of the state a forced one left ends the exemption.
Recorded(commands, forced) ==
  [d \in DOMAIN entries \cup DOMAIN commands |->
     IF d \notin DOMAIN commands THEN entries[d]
     ELSE IF Unchanged(d, commands[d])
          THEN [entries[d] EXCEPT !.forced = @ /\ forced]
          ELSE [state |-> commands[d], age |-> 0, for |-> Identity(d), forced |-> forced]]

\* The plausible bug: a minimum that ends within the window counts as over.
FrozenByTheEnd ==
  {d \in DOMAIN entries :
     /\ entries[d].for = Identity(d)
     /\ ~entries[d].forced
     /\ entries[d].age + Cycle < MinTransition(d)}

Frozen ==
  {d \in DOMAIN entries :
     /\ entries[d].for = Identity(d)
     /\ ~entries[d].forced
     /\ entries[d].age < MinTransition(d)}

\* _write: the whole log replaces the one on disk, or nothing does.
Save(log, section) ==
  \/ saved' = [devices |-> log, pid |-> section] /\ faults' = faults
  \/ saved' = saved /\ faults < MaxFaults /\ faults' = faults + 1

(***************************************************************************)
(* The loop's hold and resume.                                             *)
(***************************************************************************)
\* The plausible bug of a hold that every cycle of a run stamps anew.
HoldRestamped == /\ held' = 0
                 /\ auto' = FALSE
                 /\ UNCHANGED integral

Hold == /\ held' = IF held = NotHeld THEN 0 ELSE held
        /\ auto' = FALSE
        /\ UNCHANGED integral

Resume == /\ integral' = IF auto \/ held \in 0..HoldBound THEN integral ELSE Fresh
          /\ auto' = TRUE
          /\ held' = NotHeld

Resumable(section) == section.from = LoopMaterial /\ section.age <= ResumeWithin

(***************************************************************************)
(* The passing of n ticks.                                                 *)
(***************************************************************************)
Aged(age, n, limit) == IF age + n < limit THEN age + n ELSE limit
AgedLog(log, n) == [d \in DOMAIN log |-> [log[d] EXCEPT !.age = Aged(@, n, Longest)]]
AgedLoop(section, n) == IF section = NoLoop THEN section
                        ELSE [section EXCEPT !.age = Aged(@, n, ResumeWithin + 1)]
Idled(n) ==
  integral' = IF integral = Fresh THEN Fresh
              ELSE [integral EXCEPT !.idle = Aged(@, n, HoldBound + 1)]

Pass(n) ==
  /\ entries' = AgedLog(entries, n)
  /\ loop' = AgedLoop(loop, n)
  /\ saved' = [devices |-> AgedLog(saved.devices, n), pid |-> AgedLoop(saved.pid, n)]
  /\ held' = IF held = NotHeld THEN NotHeld ELSE Aged(held, n, HoldBound + 1)
  /\ since' = [d \in DOMAIN since |-> Aged(since[d], n, Longest)]

Init ==
  /\ doc \in Documents
  /\ dev \in [Devices -> {0, 1}]
  /\ pc = "down" /\ acting = "unknown" /\ todo = NoCommands /\ done = NoCommands
  /\ broke = "no" /\ plan = <<>> /\ entries = NoCommands /\ loop = NoLoop
  /\ saved = NoLog
  /\ integral = Fresh /\ held = NotHeld /\ auto = TRUE
  /\ since = [d \in Devices |-> Longest] /\ blind = {}
  /\ failed = FALSE /\ outside = FALSE /\ faults = 0

(***************************************************************************)
(* Starting: the log is read, a loop left recently is taken up held, and   *)
(* the devices are put in the starting state before anything is read.      *)
(***************************************************************************)
Command(state, next, otherwise) ==
  IF Leaves(state) THEN pc' = otherwise /\ todo' = NoCommands
  ELSE pc' = next /\ todo' = Sent(doc, CommandsFor(doc, state))

\* _load: a log that cannot be read counts as none.
Loaded(log) ==
  \/ log = saved /\ faults' = faults
  \/ log = NoLog /\ faults < MaxFaults /\ faults' = faults + 1

ResumesFrom(section) ==
  IF Resumable(section)
  THEN /\ integral' = [from |-> section.from, idle |-> Aged(section.age, 0, HoldBound + 1)]
       /\ held' = integral'.idle
       /\ auto' = FALSE
  ELSE integral' = Fresh /\ held' = NotHeld /\ auto' = TRUE

Start ==
  /\ pc = "down"
  /\ \E log \in {saved, NoLog} : /\ Loaded(log)
                                 /\ entries' = log.devices
                                 /\ loop' = log.pid
                                 /\ ResumesFrom(log.pid)
  /\ acting' = "unknown" /\ failed' = FALSE
  /\ \E inside \in (IF doc.period THEN BOOLEAN ELSE {TRUE}) :
       /\ outside' = ~inside
       /\ Command(StartingState(inside), "asserting", "deciding")
  /\ UNCHANGED <<doc, done, broke, plan, saved, world>>

(***************************************************************************)
(* A cycle's decision.  The readings are asked for only inside the window, *)
(* and before the window is spent only by a document with an enable_when.  *)
(***************************************************************************)
\* The plausible bug: only the first of a run of failures is made safe.
FailSafeOnce ==
  /\ Hold
  /\ failed' = TRUE
  /\ IF failed THEN pc' = "resting" /\ todo' = NoCommands
     ELSE Command(doc.safe, "failing", "resting")

FailSafe ==
  /\ Hold
  /\ failed' = TRUE
  /\ Command(doc.safe, "failing", "resting")

Decided(inside, act) ==
  /\ pc = "deciding"
  /\ inside \in (IF doc.period THEN BOOLEAN ELSE {TRUE})
  /\ act \in (IF inside THEN (IF doc.gated THEN BOOLEAN ELSE {TRUE}) ELSE {FALSE})
  /\ outside' = ~inside
  /\ UNCHANGED <<doc, done, broke, plan, entries, loop, saved, faults, world>>

\* The answer is what it was, or the first one: no edge.
StaysOpen ==
  /\ acting \in {"unknown", "yes"} /\ Decided(TRUE, TRUE)
  /\ acting' = "yes" /\ pc' = "stepping"
  /\ Resume /\ UNCHANGED <<todo, failed>>

StaysShut ==
  /\ acting \in {"unknown", "no"} /\ \E inside \in BOOLEAN : Decided(inside, FALSE)
  /\ acting' = "no" /\ pc' = "resting" /\ failed' = FALSE
  /\ Hold /\ UNCHANGED todo

Opens ==
  /\ acting = "no" /\ Decided(TRUE, TRUE)
  /\ acting' = "yes" /\ pc' = "stepping"
  /\ Resume /\ UNCHANGED <<todo, failed>>

\* The plausible bug: the edge is spent before its command is applied.
ClosesAtOnce ==
  /\ acting = "yes" /\ \E inside \in BOOLEAN : Decided(inside, FALSE)
  /\ Hold
  /\ Command(ClosingState, "closing", "resting")
  /\ acting' = "no"
  /\ failed' = IF Leaves(ClosingState) THEN FALSE ELSE failed

\* The edge is spent only once its command has been applied.
Closes ==
  /\ acting = "yes" /\ \E inside \in BOOLEAN : Decided(inside, FALSE)
  /\ Hold
  /\ Command(ClosingState, "closing", "resting")
  /\ acting' = IF Leaves(ClosingState) THEN "no" ELSE acting
  /\ failed' = IF Leaves(ClosingState) THEN FALSE ELSE failed

Unreadable ==
  /\ pc = "deciding" /\ doc.gated
  /\ outside' = FALSE
  /\ FailSafe
  /\ UNCHANGED <<doc, acting, done, broke, plan, entries, loop, saved, faults, world>>

(***************************************************************************)
(* The window: the readings, unless the decision asked for them, the plan, *)
(* and the record of the loop before any command.                          *)
(***************************************************************************)
StepFails ==
  /\ pc = "stepping" /\ ~(doc.gated /\ doc.total)
  /\ FailSafe
  /\ UNCHANGED <<doc, acting, done, broke, plan, entries, loop, saved, outside, faults, world>>

\* _hold: the values of the driven devices that may not move yet.
Pinned == Restrict(LastStates, Frozen \cap doc.driven)

Planned(cap, demand) ==
  LET curve == CapLadder(BuildLadder(doc.stages), cap)
      ladder == ReachableLadder(curve, Frozen \ doc.driven, LastStates)
  IN PinnedPlan(PlanWindow(ladder, demand, Cycle, doc.min, doc.driven, curve),
                Pinned, curve, doc.driven)

Captured == [from |-> LoopMaterial, age |-> 0]

Step ==
  /\ pc = "stepping"
  /\ \E cap \in Caps, demand \in Demands : plan' = Planned(cap, demand)
  /\ integral' = [from |-> LoopMaterial, idle |-> 0]
  /\ loop' = Captured
  /\ Save(entries, loop')
  /\ pc' = "turning"
  /\ UNCHANGED <<doc, acting, todo, done, broke, entries, held, auto, failed, outside, world>>

Turn ==
  /\ pc = "turning"
  /\ pc' = "window" /\ todo' = Sent(doc, plan[1].rung.states)
  /\ UNCHANGED <<doc, done, broke, entries, saved, faults, process, world>>

(***************************************************************************)
(* A round of commands.                                                    *)
(***************************************************************************)
\* A command arrives.  A device that has become another one counts as changed.
Switched(d, v) ==
  /\ dev' = [dev EXCEPT ![d] = v]
  /\ IF dev[d] = v /\ Unchanged(d, v)
     THEN UNCHANGED <<since, blind>>
     ELSE since' = [since EXCEPT ![d] = 0] /\ blind' = blind \cup {d}

Answered(d) ==
  /\ pc \in Commanding /\ broke = "no" /\ Due(d)
  /\ Switched(d, todo[d])
  /\ done' = [e \in DOMAIN done \cup {d} |-> IF e = d THEN todo[d] ELSE done[e]]
  /\ todo' = Restrict(todo, DOMAIN todo \ {d})
  /\ UNCHANGED <<doc, pc, broke, entries, saved, faults, process>>

\* The bridge is away or its answer is lost; or it knows no such device.
Unanswered(d) ==
  /\ pc \in Commanding /\ broke = "no" /\ Due(d)
  /\ faults < MaxFaults /\ faults' = faults + 1
  /\ \/ broke' = "away" /\ UNCHANGED world
     \/ broke' = "away" /\ Switched(d, todo[d])
     \/ broke' = "refused" /\ UNCHANGED world
  /\ UNCHANGED <<doc, pc, todo, done, entries, saved, process>>

\* The guard's stop: the safe state, and then the process is gone.
Leave == Command(doc.safe, "leaving", "leaving")

Gone ==
  /\ acting' = "unknown" /\ plan' = <<>> /\ entries' = NoCommands /\ loop' = NoLoop
  /\ integral' = Fresh /\ held' = NotHeld /\ auto' = TRUE
  /\ failed' = FALSE /\ outside' = FALSE

\* The devices whose change the log on disk does not have.
Unsaved(log, disk) == {d \in DOMAIN log : d \notin DOMAIN disk \/ disk[d] # log[d]}

\* What follows a round: the next phase, or where its failure leads.
Proceeds(phase, next) ==
  /\ pc = phase /\ broke = "no"
  /\ pc' = next /\ todo' = NoCommands
  /\ UNCHANGED <<pid, acting, failed>>

AfterRound ==
  \/ Proceeds("asserting", "deciding")
  \/ Proceeds("window", "dwelling")
  \/ /\ pc = "closing" /\ broke = "no"
     /\ pc' = "resting" /\ todo' = NoCommands /\ acting' = "no" /\ failed' = FALSE
     /\ UNCHANGED pid
  \/ /\ pc \in {"closing", "window"} /\ broke = "away"
     /\ FailSafe /\ UNCHANGED acting
  \/ /\ pc = "failing" /\ broke # "stopped"
     /\ pc' = "resting" /\ todo' = NoCommands /\ UNCHANGED <<pid, acting, failed>>
  \/ /\ \/ pc = "asserting" /\ broke # "no"
        \/ pc \in {"closing", "window"} /\ broke \in {"refused", "stopped"}
        \/ pc = "failing" /\ broke = "stopped"
     /\ Leave /\ UNCHANGED <<pid, acting, failed>>

\* What was answered is recorded, whatever ended the round.
Recording(log) ==
  /\ IF log = entries THEN UNCHANGED <<saved, faults>> ELSE Save(log, loop)
  /\ done' = NoCommands /\ broke' = "no"
  /\ UNCHANGED <<doc, dev, since>>

Dated == {d \in DOMAIN done : ~Unchanged(d, done[d])}

RoundEnds ==
  /\ pc \in Commanding \ {"leaving"} /\ (todo = NoCommands \/ broke # "no")
  /\ entries' = Recorded(done, pc # "window")
  /\ Recording(entries')
  /\ AfterRound
  /\ blind' = blind \ Dated
  /\ plan' = IF pc' = "dwelling" THEN plan ELSE <<>>
  /\ UNCHANGED <<loop, outside>>

Exits ==
  /\ pc = "leaving" /\ (todo = NoCommands \/ broke # "no")
  /\ LET log == Recorded(done, TRUE)
     IN /\ Recording(log)
        /\ blind' = (blind \ Dated) \cup Unsaved(log, saved'.devices)
  /\ pc' = "down" /\ todo' = NoCommands
  /\ Gone

(***************************************************************************)
(* Sleeping.                                                               *)
(***************************************************************************)
Dwell ==
  /\ pc = "dwelling"
  /\ Pass(plan[1].seconds)
  /\ plan' = Tail(plan)
  /\ IF plan' = <<>>
     THEN pc' = "deciding" /\ failed' = FALSE
     ELSE pc' = "turning" /\ failed' = failed
  /\ UNCHANGED <<doc, acting, todo, done, broke, integral, auto, outside, faults, dev, blind>>

Rest ==
  /\ pc = "resting"
  /\ Pass(Cycle) /\ Idled(Cycle)
  /\ pc' = "deciding"
  /\ UNCHANGED <<doc, acting, todo, done, broke, plan, auto, failed, outside, faults, dev, blind>>

(***************************************************************************)
(* Stopping.  SIGTERM raises where the process is, mid-command included,   *)
(* and so does an error no cycle expects; SIGKILL and a power cut take the *)
(* memory with them.                                                       *)
(***************************************************************************)
Terminate ==
  /\ pc # "down" /\ broke = "no"
  /\ faults < MaxFaults /\ faults' = faults + 1
  /\ IF pc \in Commanding
     THEN /\ broke' = "stopped" /\ UNCHANGED <<pc, todo>>
          /\ \/ UNCHANGED world
             \/ \E d \in Devices : Due(d) /\ Switched(d, todo[d])
     ELSE Leave /\ UNCHANGED <<broke, world>>
  /\ UNCHANGED <<doc, done, entries, saved, process>>

Kill ==
  /\ pc # "down"
  /\ faults < MaxFaults /\ faults' = faults + 1
  /\ pc' = "down" /\ todo' = NoCommands /\ done' = NoCommands /\ broke' = "no"
  /\ blind' = blind \cup Unsaved(entries, saved.devices)
  /\ Gone
  /\ UNCHANGED <<doc, saved, dev, since>>

Elapse ==
  /\ pc = "down"
  /\ Pass(1)
  /\ UNCHANGED <<doc, pc, acting, todo, done, broke, plan, integral, auto, dev, blind, failed, outside, faults>>

Edit ==
  /\ pc = "down"
  /\ doc' \in Documents \ {doc}
  /\ UNCHANGED <<pc, todo, done, broke, entries, saved, faults, process, world>>

Next ==
  \/ Start \/ Edit \/ Elapse \/ Kill \/ Terminate
  \/ StaysOpen \/ StaysShut \/ Opens \/ Closes \/ Unreadable
  \/ StepFails \/ Step \/ Turn
  \/ (\E d \in Devices : Answered(d) \/ Unanswered(d)) \/ RoundEnds \/ Exits
  \/ Dwell \/ Rest

(***************************************************************************)
(* The process runs on while it is up, and a device asked again and again  *)
(* answers in the end.                                                     *)
(***************************************************************************)
Fairness ==
  /\ WF_vars(StaysOpen \/ StaysShut \/ Opens \/ Closes \/ Unreadable)
  /\ WF_vars(StepFails \/ Step \/ Turn)
  /\ WF_vars((\E d \in Devices : Answered(d)) \/ RoundEnds \/ Exits)
  /\ WF_vars(Dwell \/ Rest)

Spec == Init /\ [][Next]_vars /\ Fairness

(***************************************************************************)
(* The properties.                                                         *)
(***************************************************************************)
\* The log says what every device is in: a round that fails half way on one
\* bridge still records what the other bridge's devices were put in.
LogIsTrue ==
  pc # "down" =>
    \A d \in DOMAIN entries \ blind : entries[d].state = dev[d]

\* A control that rests because its gate is shut has left no device on a rung:
\* each is in a state the document names for not acting, however the edge, a
\* failure and a restart fell together, unless one is to leave devices alone.
ShutMeansIdle ==
  (pc = "resting" /\ acting = "no") =>
    \/ \A d \in Devices : dev[d] \in Forced(doc, d)
    \/ \E state \in Named(doc) : Leaves(state)

\* A demand is never built on an integral of another document's loop, nor on
\* one that has idled past what a hold may last, across any number of holds,
\* failed cycles and restarts.
NoStaleIntegral ==
  pc = "stepping" /\ integral # Fresh =>
    integral.from = LoopMaterial /\ integral.idle <= HoldBound

\* The same, where a cycle can only fail before the loop is taken up: a document
\* with an enable_when reads its inputs to decide, and these rules never fail.
HoldIsBounded ==
  pc = "stepping" /\ integral # Fresh =>
    integral.from = LoopMaterial /\ (doc.gated /\ doc.total => integral.idle <= HoldBound)

\* A device whose minimum has not passed is left where it is.
Log == IF pc = "down" THEN saved.devices ELSE entries
Released == {d \in Devices : \/ d \in blind
                             \/ d \notin DOMAIN Log
                             \/ Log[d].for # Identity(d)
                             \/ Log[d].forced}
Hardware == INSTANCE MinimumHold WITH
  up <- pc # "down", state <- dev, age <- since, free <- Released,
  unsaved <- Unsaved(entries, saved.devices),
  misdated <- blind \cap DOMAIN Log,
  target <- IF pc = "window" THEN Sent(doc, plan[1].rung.states) ELSE NoCommands,
  Ticks <- 0..Cycle
MinimumKept == Hardware!Spec

\* A cycle that failed is followed by the safe state, or by one that did not.
FailureIsMadeSafe ==
  failed ~> (~failed \/ \A d \in Devices : dev[d] = Sent(doc, CommandsFor(doc, doc.safe))[d])

\* Outside its window a control's devices are in its end state.
EndStateOutside ==
  (pc = "resting" /\ outside /\ ~failed) =>
    \A d \in Devices : dev[d] = Sent(doc, CommandsFor(doc, doc.end))[d]
=============================================================================
