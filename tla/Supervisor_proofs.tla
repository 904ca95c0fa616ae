------------------------- MODULE Supervisor_proofs -------------------------
(* What holds of the supervisor and the tools that write documents for any   *)
(* controls, devices, callers, documents and bounds.                         *)
(*                                                                           *)
(* First the store, under the callers' lock; then the two threads and the    *)
(* children they handle; then, as long as no join has timed out, what the    *)
(* processes are doing and who answers for a device left on; then, as long   *)
(* as no document has changed, that no two controls share a device; last,    *)
(* where nothing is edited by hand, that what is asked for takes effect.     *)
EXTENDS Supervisor, FiniteSetTheorems, SequenceTheorems, WellFoundedInduction, TLAPS

-----------------------------------------------------------------------------
(* The store, under _WRITE_LOCK.                                             *)

(* A caller that is between its check and the end of its write.              *)
Writing(c) == calls[c].step \in {"checked", "written"}

(* A document in the place of a control's leaves each device one enabled     *)
(* owner.                                                                    *)
MayBeStored(n, d) ==
  ControlIsEnabled(d) =>
    \A m \in Controls \ {n} : ControlIsEnabled(store[m]) => ~MayShare(d, store[m])

CallsOK ==
  /\ store \in [Controls -> Documents \cup {Missing, Broken}]
  /\ calls \in [Callers -> Call]
  /\ \A c, d \in Callers : Writing(c) /\ Writing(d) => c = d
  /\ \A c \in Callers :
       calls[c].step = "checked" =>
         /\ calls[c].name \in Controls /\ calls[c].doc \in Documents
         /\ MayBeStored(calls[c].name, calls[c].doc)

StoreInv == CallsOK /\ OneEnabledStored

(* Whether two documents may share a device does not depend on which is      *)
(* asked first.                                                              *)
LEMMA SharingIsMutual == ASSUME NEW d, NEW e PROVE MayShare(d, e) <=> MayShare(e, d)
BY DEF MayShare, MayBeOne

(* A call that begins finds no other between its check and its write.        *)
LEMMA NoneWrites ==
  ASSUME NEW c \in Callers, Begins(c)
  PROVE  \A d \in Callers : ~Writing(d)
BY DEF Begins, LockFree, Writing

(* What save and set_control_enabled are about to store is right to store.   *)
LEMMA CheckedIsRight ==
  ASSUME SupervisorAssumption, StoreInv, NEW c \in Callers, NEW n \in Controls, Begins(c),
         NEW d \in Documents, NEW on \in BOOLEAN, on => ~EnabledOwnerElsewhere(n, d),
         calls' = [calls EXCEPT ![c] = [name |-> n, step |-> "checked",
                                        doc |-> [d EXCEPT !.enabled = on]]],
         UNCHANGED store
  PROVE  StoreInv'
<1> DEFINE doc == [d EXCEPT !.enabled = on]
<1>1. doc \in Documents /\ doc.enabled = on /\ doc.specs = d.specs
  BY DEF SupervisorAssumption
<1>2. MayBeStored(n, doc)
  BY <1>1 DEF MayBeStored, ControlIsEnabled, EnabledOwnerElsewhere, MayShare
<1>3. calls' \in [Callers -> Call]
  BY <1>1 DEF StoreInv, CallsOK, Call
<1>4. \A e \in Callers : calls'[e] = IF e = c THEN [name |-> n, step |-> "checked", doc |-> doc]
                                     ELSE calls[e]
  BY DEF StoreInv, CallsOK
<1>5. CallsOK'
  BY <1>1, <1>2, <1>3, <1>4, NoneWrites DEF StoreInv, CallsOK, Writing, MayBeStored
<1> QED
  BY <1>5 DEF StoreInv, OneEnabledStored

(* The write itself.                                                         *)
LEMMA StoringKeeps ==
  ASSUME StoreInv, NEW c \in Callers, StoreControl(c)
  PROVE  StoreInv'
<1> DEFINE n == calls[c].name
           doc == calls[c].doc
<1>1. n \in Controls /\ doc \in Documents /\ MayBeStored(n, doc) /\ calls[c] \in Call
  BY DEF StoreInv, CallsOK, StoreControl
<1>2. \A m \in Controls : store'[m] = IF m = n THEN doc ELSE store[m]
  BY <1>1 DEF StoreInv, CallsOK, StoreControl
<1>3. \A e \in Callers : calls'[e] = IF e = c THEN [calls[c] EXCEPT !.step = "written"] ELSE calls[e]
  BY DEF StoreInv, CallsOK, StoreControl
<1>4. calls' \in [Callers -> Call]
  BY <1>1 DEF StoreInv, CallsOK, StoreControl, Call
<1>5. store' \in [Controls -> Documents \cup {Missing, Broken}]
  BY <1>1 DEF StoreInv, CallsOK, StoreControl
<1>6. \A e \in Callers : calls'[e].step # "checked"
  BY <1>1, <1>3 DEF StoreInv, CallsOK, StoreControl, Writing, Call
<1>7. \A e, f \in Callers : Writing(e)' /\ Writing(f)' => e = f
  BY <1>1, <1>3 DEF StoreInv, CallsOK, StoreControl, Writing, Call
<1>8. OneEnabledStored'
  BY <1>1, <1>2, SharingIsMutual DEF StoreInv, OneEnabledStored, MayBeStored
<1> QED
  BY <1>4, <1>5, <1>6, <1>7, <1>8 DEF StoreInv, CallsOK

(* A call that ends, or one that deletes.                                    *)
LEMMA EndingKeeps ==
  ASSUME StoreInv, NEW c \in Callers, calls' = [calls EXCEPT ![c] = NoCall], UNCHANGED store
  PROVE  StoreInv'
<1>1. \A e \in Callers : calls'[e] = IF e = c THEN NoCall ELSE calls[e]
  BY DEF StoreInv, CallsOK
<1>2. calls' \in [Callers -> Call]
  BY DEF StoreInv, CallsOK, NoCall, Call
<1> QED
  BY <1>1, <1>2 DEF StoreInv, CallsOK, OneEnabledStored, Writing, NoCall, MayBeStored

(* A deletion takes a document away, which cannot make two clash.            *)
LEMMA DeletingKeeps ==
  ASSUME SupervisorAssumption, StoreInv, NEW c \in Callers, NEW n \in Controls,
         DeleteControl(c, n)
  PROVE  StoreInv'
<1>1. \A e \in Callers : calls'[e] = IF e = c THEN [name |-> n, doc |-> Missing, step |-> "deleted"]
                                     ELSE calls[e]
  BY DEF StoreInv, CallsOK, DeleteControl
<1>2. calls' \in [Callers -> Call]
  BY DEF StoreInv, CallsOK, DeleteControl, Call
<1>3. \A m \in Controls : store'[m] = IF m = n THEN Missing ELSE store[m]
  BY DEF StoreInv, CallsOK, DeleteControl
<1>4. ~ControlIsEnabled(Missing)
  BY DEF SupervisorAssumption, ControlIsEnabled
<1>5. OneEnabledStored'
  BY <1>3, <1>4 DEF StoreInv, OneEnabledStored
<1>6. store' \in [Controls -> Documents \cup {Missing, Broken}]
  BY DEF StoreInv, CallsOK, DeleteControl
<1>7. \A e \in Callers : calls'[e].step # "checked" /\ ~Writing(e)'
  BY <1>1, NoneWrites DEF DeleteControl, Writing
<1> QED
  BY <1>2, <1>5, <1>6, <1>7 DEF StoreInv, CallsOK

(* The callers' steps keep it.                                               *)
LEMMA ToolsKeep ==
  ASSUME SupervisorAssumption, StoreInv, Tools
  PROVE  StoreInv'
<1>1. PICK c \in Callers :
        \/ \E n \in Controls : \/ \E d \in Documents : Save(c, n, d)
                               \/ SetEnabled(c, n) \/ DeleteControl(c, n)
        \/ StoreControl(c) \/ StoreFails(c) \/ RequestReload(c)
  BY DEF Tools
<1>2. ASSUME NEW n \in Controls, NEW d \in Documents, Save(c, n, d) PROVE StoreInv'
  <2>1. d.enabled \in BOOLEAN
    BY DEF SupervisorAssumption
  <2> DEFINE on == d.enabled /\ ~EnabledOwnerElsewhere(n, d)
  <2>2. on \in BOOLEAN /\ (on => ~EnabledOwnerElsewhere(n, d))
    OBVIOUS
  <2>3. [d EXCEPT !.enabled = @ /\ ~EnabledOwnerElsewhere(n, d)] = [d EXCEPT !.enabled = on]
    OBVIOUS
  <2>4. calls' = [calls EXCEPT ![c] = [name |-> n, step |-> "checked",
                                       doc |-> [d EXCEPT !.enabled = on]]]
    BY <1>2, <2>3 DEF Save
  <2>5. Begins(c) /\ UNCHANGED store
    BY <1>2 DEF Save
  <2> HIDE DEF on
  <2> QED
    BY <2>2, <2>4, <2>5, CheckedIsRight
<1>3. ASSUME NEW n \in Controls, SetEnabled(c, n) PROVE StoreInv'
  <2> DEFINE d == store[n]
             on == ~d.enabled
  <2>1. d \in Documents
    BY <1>3 DEF SetEnabled, Usable
  <2>2. on \in BOOLEAN /\ (on => ~EnabledOwnerElsewhere(n, d))
    BY <1>3 DEF SetEnabled
  <2>3. [d EXCEPT !.enabled = ~@] = [d EXCEPT !.enabled = on]
    OBVIOUS
  <2>4. calls' = [calls EXCEPT ![c] = [name |-> n, step |-> "checked",
                                       doc |-> [d EXCEPT !.enabled = on]]]
    BY <1>3, <2>3 DEF SetEnabled
  <2>5. Begins(c) /\ UNCHANGED store
    BY <1>3 DEF SetEnabled
  <2> HIDE DEF d, on
  <2> QED
    BY <2>1, <2>2, <2>4, <2>5, CheckedIsRight
<1>4. CASE StoreFails(c) \/ RequestReload(c)
  BY <1>4, EndingKeeps DEF StoreFails, RequestReload
<1> QED
  BY <1>1, <1>2, <1>3, <1>4, StoringKeeps, DeletingKeeps

(* Nobody but the callers, and a user who edits by hand, writes a document   *)
(* or is in a call.                                                          *)
LEMMA OthersLeaveTheStore ==
  ASSUME [Next]_vars, ~Tools, ~EditByHand
  PROVE  UNCHANGED <<store, calls>>
<1>1. CASE UNCHANGED vars
  BY <1>1 DEF vars, mcpVars
<1>2. CASE Polls
  BY <1>2 DEF Polls, StartAll, StartsPolling, Drain, ReloadRemoves, ReloadFails, ReloadStarts,
    ReloadRestarts, Select, ReadEof, Scan, ScanStalled, ScanDue, ScanPasses, PollEnds, LoopStops,
    mcpVars
<1>3. CASE Shutdown \/ Exits
  BY <1>3 DEF Shutdown, Exits, Joined, JoinTimesOut, JoinedAgain, mcpVars
<1>4. ASSUME NEW t \in Threads, Handles(t) PROVE UNCHANGED <<store, calls>>
  BY <1>4 DEF Handles, Ended, EndedElsewhere, MakeSafe, Walk, WalkBreaks, WalkEnds, mcpVars
<1>5. ASSUME NEW n \in Controls, Runs(n) \/ BackoffEnds(n) PROVE UNCHANGED <<store, calls>>
  BY <1>5 DEF Runs, Load, AssertStart, Cycle, Terminated, Leave, Fails, Crash, Hang, Wake,
    BackoffEnds, othersVars, mcpVars
<1>6. ASSUME NEW d \in Devices, Outage(d) \/ Recovers(d) PROVE UNCHANGED <<store, calls>>
  BY <1>6 DEF Outage, Recovers, othersVars, mcpVars
<1> QED
  BY <1>1, <1>2, <1>3, <1>4, <1>5, <1>6 DEF Next

(* Nor does anything but an edit count as one.                               *)
LEMMA EditsStay ==
  ASSUME [Next]_vars, ~EditByHand, DOMAIN spent = DOMAIN Bounds
  PROVE  spent'["edits"] = spent["edits"] /\ DOMAIN spent' = DOMAIN Bounds
<1> DEFINE Kept == UNCHANGED spent \/ \E what \in {"writes", "faults", "outages", "wedges"} : Spend(what)
<1>1. Kept => spent'["edits"] = spent["edits"] /\ DOMAIN spent' = DOMAIN Bounds
  BY DEF Spend, Bounds
<1>2. CASE UNCHANGED vars
  BY <1>1, <1>2 DEF vars
<1>3. CASE Tools
  <2>1. Kept
    BY <1>3 DEF Tools, Save, SetEnabled, DeleteControl, StoreControl, StoreFails, RequestReload
  <2> QED
    BY <1>1, <2>1
<1>4. CASE Polls
  <2>1. \A n \in Controls : Restart(n) => Kept
    BY DEF Restart
  <2>2. Kept
    BY <1>4, <2>1 DEF Polls, StartAll, StartsPolling, Drain, ReloadRemoves, ReloadFails,
      ReloadStarts, ReloadRestarts, Select, ReadEof, Scan, ScanStalled, ScanDue, ScanPasses,
      PollEnds, LoopStops, Restart
  <2> QED
    BY <1>1, <2>2
<1>5. CASE Shutdown \/ Exits
  <2>1. Kept
    BY <1>5 DEF Shutdown, Exits, Joined, JoinTimesOut, JoinedAgain
  <2> QED
    BY <1>1, <2>1
<1>6. ASSUME NEW t \in Threads, Handles(t) PROVE Kept
  BY <1>6 DEF Handles, Ended, EndedElsewhere, MakeSafe, Walk, WalkBreaks, WalkEnds
<1>7. ASSUME NEW n \in Controls, Runs(n) \/ BackoffEnds(n) PROVE Kept
  BY <1>7 DEF Runs, Load, AssertStart, Cycle, Terminated, Leave, Fails, Crash, Hang, Wake,
    BackoffEnds
<1>8. ASSUME NEW d \in Devices, Outage(d) \/ Recovers(d) PROVE Kept
  BY <1>8 DEF Outage, Recovers
<1> QED
  BY <1>1, <1>2, <1>3, <1>4, <1>5, <1>6, <1>7, <1>8 DEF Next

(* Where no document is edited by hand, before the start or later, at most   *)
(* one enabled control of a device is ever stored, however the callers of    *)
(* the tools overlap (_WRITE_LOCK, save_control, set_control_enabled).       *)
THEOREM OneEnabledAlways ==
  ASSUME SupervisorAssumption, StartClean, MaxEdits = 0
  PROVE  Safety => []OneEnabledStored
<1> DEFINE IInv == StoreInv /\ spent["edits"] = 0 /\ DOMAIN spent = DOMAIN Bounds
<1>1. Init => IInv
  BY DEF Init, StoreInv, CallsOK, NoCall, Call, Writing, Bounds
<1>2. IInv /\ [Next]_vars => IInv'
  <2> SUFFICES ASSUME IInv, [Next]_vars PROVE IInv'
    OBVIOUS
  <2>1. ~EditByHand
    BY DEF EditByHand, Spend, Bounds
  <2>2. StoreInv'
    <3>1. CASE Tools
      BY <3>1, ToolsKeep
    <3>2. CASE ~Tools
      BY <2>1, <3>2, OthersLeaveTheStore
         DEF StoreInv, CallsOK, OneEnabledStored, Writing, MayBeStored
    <3> QED
      BY <3>1, <3>2
  <2> QED
    BY <2>1, <2>2, EditsStay
<1>3. IInv => OneEnabledStored
  BY DEF StoreInv
<1> QED
  BY <1>1, <1>2, <1>3, PTL DEF Safety

-----------------------------------------------------------------------------
(* The threads and the children.                                             *)

Fields == {"phase", "step", "cur", "then", "left", "seen"}

FramesOK ==
  /\ at = [t \in Threads |-> at[t]]
  /\ \A t \in Threads : at[t] = [f \in Fields |-> at[t][f]]
  /\ DOMAIN stop = {"asked", "stopped", "finished"}

ChildrenOK ==
  /\ children = [n \in Controls |-> children[n]]
  /\ \A n \in Existing : /\ children[n] = [f \in {"doc", "restart", "held"} |-> children[n][f]]
                         /\ children[n].held \in BOOLEAN
                         /\ children[n].held => children[n].restart = "no"

(* Whoever walks the children has stopped the supervisor first.              *)
WalksOK == \A t \in Threads : at[t].phase = "walk" => stop.stopped

(* Children with neither a process nor a time to be started at.              *)
Unattended ==
  {n \in Existing : n \notin Held /\ children[n].restart \notin {"waiting", "due"}}

(* Until the service is told to stop, a child is unattended only before its  *)
(* first start and while it is being removed.                                *)
LoopOK ==
  at[Exit].phase = "idle" =>
    /\ at[Exit].step = "next" /\ ~stop.asked
    /\ at[Loop].phase \in {"start_all", "top", "reload", "read", "scan"}
    /\ at[Loop].step \in {"next", "ending", "safe", "restart"}
    /\ at[Loop].phase = "start_all" => at[Loop].step = "next" /\ Unattended \subseteq at[Loop].left
    /\ at[Loop].phase # "start_all" /\ at[Loop].step # "safe" => Unattended = {}
    /\ at[Loop].step \in {"ending", "safe"} => at[Loop].then \in {"reap", "remove", "restart"}
    /\ at[Loop].step = "ending" => at[Loop].cur \in Held
    /\ at[Loop].step = "safe" =>
         Unattended \subseteq IF at[Loop].then = "remove" THEN {at[Loop].cur} ELSE {}

ThreadInv == FramesOK /\ ChildrenOK /\ WalksOK /\ OneWalk /\ LoopOK

(* The three ways a thread moves on.                                         *)
LEMMA MovesOn ==
  ASSUME FramesOK, NEW t \in Threads, NEW n, NextChild(t, n)
  PROVE  /\ at' = [s \in Threads |-> at'[s]]
         /\ \A s \in Threads : at'[s] = [f \in Fields |-> at'[s][f]]
         /\ at'[t].phase = at[t].phase /\ at'[t].step = "next" /\ at'[t].then = "nothing"
         /\ at'[t].left = at[t].left \ {n} /\ at'[t].seen = at[t].seen
         /\ \A s \in Threads \ {t} : at'[s] = at[s]
<1> DEFINE frame == [f \in Fields |-> at[t][f]]
<1>1. at[t] = frame
  BY DEF FramesOK
<1>2. at'[t] = [frame EXCEPT !.step = "next", !.cur = NoOne, !.then = "nothing",
                             !.left = at[t].left \ {n}]
  <2>2. at'[t] = [at[t] EXCEPT !.step = "next", !.cur = NoOne, !.then = "nothing",
                               !.left = at[t].left \ {n}]
    BY DEF FramesOK, NextChild
  <2> HIDE DEF frame
  <2> QED
    BY <1>1, <2>2
<1>3. /\ at'[t] = [f \in Fields |-> at'[t][f]]
      /\ at'[t].phase = frame["phase"] /\ at'[t].step = "next" /\ at'[t].then = "nothing"
      /\ at'[t].left = at[t].left \ {n} /\ at'[t].seen = frame["seen"]
  BY <1>2 DEF Fields
<1>4. /\ at' = [s \in Threads |-> at'[s]]
      /\ \A s \in Threads \ {t} : at'[s] = at[s]
  BY DEF FramesOK, NextChild
<1>5. \A s \in Threads : at'[s] = [f \in Fields |-> at'[s][f]]
  BY <1>3, <1>4 DEF FramesOK
<1> QED
  BY <1>1, <1>3, <1>4, <1>5

(* What a thread turning to one child changes of it.                         *)
LEMMA Handling ==
  ASSUME FramesOK, NEW t \in Threads, NEW n, NEW step, NEW then, Handle(t, n, step, then)
  PROVE  /\ at' = [s \in Threads |-> at'[s]]
         /\ \A s \in Threads : at'[s] = [f \in Fields |-> at'[s][f]]
         /\ at'[t].phase = at[t].phase /\ at'[t].step = step /\ at'[t].cur = n
         /\ at'[t].then = then /\ at'[t].left = at[t].left /\ at'[t].seen = at[t].seen
         /\ \A s \in Threads \ {t} : at'[s] = at[s]
BY DEF FramesOK, Handle, Fields

(* What a thread entering a loop or a walk changes of it.                    *)
LEMMA GoingTo ==
  ASSUME FramesOK, NEW t \in Threads, NEW phase, NEW left, Goto(t, phase, left)
  PROVE  /\ at' = [s \in Threads |-> at'[s]]
         /\ \A s \in Threads : at'[s] = [f \in Fields |-> at'[s][f]]
         /\ at'[t].phase = phase /\ at'[t].step = "next" /\ at'[t].then = "nothing"
         /\ at'[t].left = left /\ (phase = "walk" => at'[t].seen = left)
         /\ \A s \in Threads \ {t} : at'[s] = at[s]
BY DEF FramesOK, Goto, Fields

(* A start leaves the child with a process, or a time to be tried again.     *)
LEMMA RestartAttends ==
  ASSUME ChildrenOK, NEW n, Restart(n)
  PROVE  ChildrenOK' /\ Unattended' \subseteq Unattended \ {n}
<1> DEFINE is(d, restart, held) ==
             /\ children' = [children EXCEPT ![n] = [doc |-> d, restart |-> restart, held |-> held]]
             /\ restart = IF held THEN "no" ELSE "waiting"
<1>1. PICK d, restart : \E held \in BOOLEAN : is(d, restart, held)
  <2>1. \/ is(children[n].doc, "waiting", FALSE) \/ is(Refreshed(n), "waiting", FALSE)
        \/ is(Refreshed(n), "no", TRUE)
    BY DEF Restart, StartLater
  <2> HIDE DEF is
  <2> QED
    BY <2>1
<1>2. PICK held \in BOOLEAN : is(d, restart, held)
  BY <1>1
<1>3. \A m \in Controls :
        children'[m] = IF m = n THEN [doc |-> d, restart |-> restart, held |-> held] ELSE children[m]
  BY <1>2 DEF ChildrenOK
<1>4. children' = [m \in Controls |-> children'[m]]
  BY <1>2 DEF ChildrenOK
<1> QED
  BY <1>2, <1>3, <1>4 DEF ChildrenOK, Unattended, Held, Existing

(* A process that is gone leaves its child a time to be started at, unless   *)
(* the child goes too.                                                       *)
LEMMA ReleaseAttends ==
  ASSUME ChildrenOK, NEW n \in Held, NEW restart, Release(n, restart)
  PROVE  /\ ChildrenOK'
         /\ Unattended' \subseteq Unattended \cup (IF restart \in {"waiting", "due"} THEN {} ELSE {n})
<1>1. n \in Existing /\ n \in Controls
  BY DEF Held, Existing
<1>2. children' = [children EXCEPT ![n] = [children[n] EXCEPT !.held = FALSE, !.restart = restart]]
  BY <1>1 DEF Release, ChildrenOK
<1>3. \A m \in Controls \ {n} : children'[m] = children[m]
  BY <1>1, <1>2 DEF ChildrenOK
<1>4. children'[n] = [children[n] EXCEPT !.held = FALSE, !.restart = restart]
  BY <1>1, <1>2 DEF ChildrenOK
<1>5. /\ children'[n] = [f \in {"doc", "restart", "held"} |-> children'[n][f]]
      /\ children'[n].held = FALSE /\ children'[n].restart = restart
  BY <1>1, <1>4 DEF ChildrenOK
<1>6. children' = [m \in Controls |-> children'[m]]
  BY <1>1, <1>2 DEF ChildrenOK
<1>7. ChildrenOK'
  BY <1>1, <1>3, <1>5, <1>6 DEF ChildrenOK, Existing
<1>8. \A m \in Unattended' : m # n => m \in Unattended
  BY <1>3 DEF Unattended, Held, Existing
<1>9. restart \in {"waiting", "due"} => n \notin Unattended'
  BY <1>5 DEF Unattended
<1> QED
  BY <1>7, <1>8, <1>9

(* A step that moves neither thread, nor a child, nor the flags.             *)
LEMMA Elsewhere ==
  ASSUME ThreadInv, UNCHANGED <<at, children, stop>>
  PROVE  ThreadInv'
<1>1. Existing' = Existing /\ Held' = Held /\ Unattended' = Unattended
  BY DEF Unattended, Existing, Held
<1>2. FramesOK' /\ WalksOK' /\ OneWalk'
  BY DEF ThreadInv, FramesOK, WalksOK, OneWalk
<1>3. ChildrenOK'
  BY <1>1 DEF ThreadInv, ChildrenOK
<1>4. LoopOK'
  BY <1>1 DEF ThreadInv, LoopOK
<1> QED
  BY <1>2, <1>3, <1>4 DEF ThreadInv

(* A step of one thread within the loop it is in, or to another that is no   *)
(* walk, leaves nobody walking who was not.                                  *)
LEMMA WalksKept ==
  ASSUME ThreadInv, NEW t \in Threads, at'[t].phase # "walk" \/ at'[t].phase = at[t].phase,
         stop.stopped => stop'.stopped, \A s \in Threads \ {t} : at'[s] = at[s]
  PROVE  WalksOK' /\ OneWalk'
BY DEF ThreadInv, WalksOK, OneWalk, Threads

(* stop_all starts a walk only if none was.                                  *)
LEMMA StopAllKeeps ==
  ASSUME SupervisorAssumption, ThreadInv, NEW t \in Threads, StopAll(t), UNCHANGED children,
         t = Exit \/ at[Exit].phase # "idle"
  PROVE  ThreadInv'
<1> USE DEF ThreadInv
<1>1. PICK phase \in {"walk", "done"} : \E left : Goto(t, phase, left)
  BY DEF StopAll
<1>2. PICK left : Goto(t, phase, left)
  BY <1>1
<1>3. /\ at' = [s \in Threads |-> at'[s]]
      /\ \A s \in Threads : at'[s] = [f \in Fields |-> at'[s][f]]
      /\ at'[t].phase = phase /\ \A s \in Threads \ {t} : at'[s] = at[s]
  BY <1>2, GoingTo
<1>4. /\ DOMAIN stop' = {"asked", "stopped", "finished"} /\ (stop.stopped => stop'.stopped)
      /\ phase = "walk" => ~stop.stopped /\ stop'.stopped
  <2>1. CASE stop.stopped
    <3>1. Goto(t, "done", {}) /\ UNCHANGED stop
      BY <2>1 DEF StopAll
    <3>2. at'[t].phase = "done"
      BY <3>1, GoingTo
    <3> QED
      BY <1>3, <2>1, <3>1, <3>2 DEF FramesOK
  <2>2. CASE ~stop.stopped
    BY <2>2 DEF StopAll, FramesOK
  <2> QED
    BY <2>1, <2>2
<1>5. FramesOK' /\ ChildrenOK'
  BY <1>3, <1>4 DEF FramesOK, ChildrenOK, Existing
<1>6. WalksOK' /\ OneWalk'
  BY <1>3, <1>4 DEF WalksOK, OneWalk, Threads, SupervisorAssumption
<1>7. Exit \in Threads
  BY DEF Threads
<1>8. LoopOK'
  BY <1>3, <1>7 DEF LoopOK
<1> QED
  BY <1>5, <1>6, <1>8

(* The supervisor's thread, except where it may share a step with the exit   *)
(* handler.                                                                  *)
LEMMA PollsKeep ==
  ASSUME SupervisorAssumption, ThreadInv, Polls
  PROVE  ThreadInv'
<1> USE DEF ThreadInv
<1>1. Loop \in Threads /\ Exit \in Threads \ {Loop} /\ Exit \in Threads
  BY DEF Threads, SupervisorAssumption
<1>2. ASSUME NEW n, Restart(n), NextChild(Loop, n), UNCHANGED stop,
             at[Loop].step \in {"next", "restart"},
             at[Exit].phase = "idle" =>
               Unattended \subseteq IF at[Loop].phase = "start_all" THEN at[Loop].left ELSE {}
      PROVE  ThreadInv'
  <2>1. ChildrenOK' /\ Unattended' \subseteq Unattended \ {n}
    BY <1>2, RestartAttends
  <2>2. /\ FramesOK'
        /\ at'[Loop].phase = at[Loop].phase /\ at'[Loop].step = "next"
        /\ at'[Loop].left = at[Loop].left \ {n} /\ at'[Exit] = at[Exit]
        /\ \A s \in Threads \ {Loop} : at'[s] = at[s]
    BY <1>1, <1>2, MovesOn DEF FramesOK
  <2>3. WalksOK' /\ OneWalk'
    BY <1>1, <1>2, <2>2, WalksKept
  <2>4. LoopOK'
    BY <1>2, <2>1, <2>2 DEF LoopOK
  <2> QED
    BY <2>1, <2>2, <2>3, <2>4
<1>3. ASSUME NEW phase \in {"top", "reload", "read", "scan"}, NEW left, Goto(Loop, phase, left),
             UNCHANGED <<children, stop>>, at[Loop].step = "next",
             at[Exit].phase = "idle" => Unattended = {}
      PROVE  ThreadInv'
  <2>1. ChildrenOK' /\ Unattended' = Unattended
    BY <1>3 DEF ChildrenOK, Unattended, Existing, Held
  <2>2. /\ FramesOK'
        /\ at'[Loop].phase = phase /\ at'[Loop].step = "next" /\ at'[Exit] = at[Exit]
        /\ \A s \in Threads \ {Loop} : at'[s] = at[s]
    BY <1>1, <1>3, GoingTo DEF FramesOK
  <2>3. WalksOK' /\ OneWalk'
    BY <1>1, <1>3, <2>2, WalksKept
  <2>4. LoopOK'
    BY <1>3, <2>1, <2>2 DEF LoopOK
  <2> QED
    BY <2>1, <2>2, <2>3, <2>4
<1>4. ASSUME NEW n, NEW step \in {"ending", "safe", "restart"}, NEW then, Handle(Loop, n, step, then),
             UNCHANGED stop, at[Loop].phase \in {"reload", "read", "scan"}, ChildrenOK',
             step \in {"ending", "safe"} => then \in {"reap", "remove", "restart"},
             step = "ending" => n \in Held',
             at[Exit].phase = "idle" => Unattended' \subseteq
               IF step = "safe" /\ then = "remove" THEN {n} ELSE {}
      PROVE  ThreadInv'
  <2>1. /\ FramesOK'
        /\ at'[Loop].phase = at[Loop].phase /\ at'[Loop].step = step /\ at'[Exit] = at[Exit]
        /\ at'[Loop].then = then /\ at'[Loop].cur = n
        /\ \A s \in Threads \ {Loop} : at'[s] = at[s]
    BY <1>1, <1>4, Handling DEF FramesOK
  <2>2. WalksOK' /\ OneWalk'
    BY <1>1, <1>4, <2>1, WalksKept
  <2>3. LoopOK'
    BY <1>4, <2>1 DEF LoopOK
  <2> QED
    BY <1>4, <2>1, <2>2, <2>3
<1>5. at[Exit].phase = "idle" /\ at[Loop].phase \in {"reload", "read", "scan", "top"}
        /\ at[Loop].step \in {"next", "restart"} => Unattended = {}
  BY DEF LoopOK
<1>6. UNCHANGED children => ChildrenOK' /\ Held' = Held /\ Existing' = Existing /\ Unattended' = Unattended
  BY DEF ChildrenOK, Unattended, Existing, Held
<1>7. CASE StartAll
  BY <1>2, <1>7 DEF StartAll, MayStep, LoopOK
<1>8. CASE StartsPolling
  BY <1>3, <1>8 DEF StartsPolling, MayStep, LoopOK
<1>9. CASE Drain \/ Select \/ Scan \/ PollEnds
  BY <1>3, <1>5, <1>9 DEF Drain, Select, Scan, PollEnds, MayStep
<1>10. CASE ReloadRemoves
  <2> DEFINE n == Head(batch)
  <2>1. CASE UNCHANGED at
    BY <1>10, <2>1, Elsewhere DEF ReloadRemoves
  <2>2. CASE Handle(Loop, n, "ending", "remove") /\ n \in Held
    BY <1>4, <1>5, <1>6, <1>10, <2>2 DEF ReloadRemoves, NextReload, MayStep
  <2>3. CASE Handle(Loop, n, "safe", "remove")
    BY <1>4, <1>5, <1>6, <1>10, <2>3 DEF ReloadRemoves, NextReload, MayStep
  <2> QED
    BY <1>10, <2>1, <2>2, <2>3 DEF ReloadRemoves, LetGo, Held, Existing
<1>11. CASE ReloadFails
  BY <1>11, Elsewhere DEF ReloadFails
<1>12. CASE ReloadStarts
  <2> DEFINE n == Head(batch)
  <2>1. /\ ChildrenOK' /\ Unattended' \subseteq Unattended
        /\ n \in Held => n \in Held'
    <3>1. children' = [children EXCEPT ![n] =
            IF n \in Existing THEN [children[n] EXCEPT !.restart = IF n \in Held THEN @ ELSE "due"]
            ELSE [doc |-> NoDoc, restart |-> "due", held |-> FALSE]]
      BY <1>12 DEF ReloadStarts
    <3>2. children' = [m \in Controls |-> children'[m]]
      BY <3>1 DEF ChildrenOK
    <3>3. \A m \in Controls \ {n} : children'[m] = children[m]
      BY <3>1 DEF ChildrenOK
    <3>4. ASSUME n \in Controls
          PROVE  /\ children'[n] = [f \in {"doc", "restart", "held"} |-> children'[n][f]]
                 /\ children'[n].held \in BOOLEAN /\ (n \in Held => children'[n] = children[n])
                 /\ n \notin Held => ~children'[n].held
                 /\ n \notin Held => children'[n].restart = "due"
      <4>1. CASE n \in Existing
        <5>1. children'[n] = [children[n] EXCEPT !.restart = IF n \in Held THEN @ ELSE "due"]
          BY <3>1, <3>4, <4>1 DEF ChildrenOK
        <5>2. n \in Held <=> children[n].held
          BY <4>1 DEF Held
        <5>3. children[n] = [f \in {"doc", "restart", "held"} |-> children[n][f]]
              /\ children[n].held \in BOOLEAN
          BY <4>1 DEF ChildrenOK
        <5>4. CASE n \in Held
          BY <5>1, <5>3, <5>4
        <5>5. CASE n \notin Held
          BY <5>1, <5>2, <5>3, <5>5
        <5> QED
          BY <5>4, <5>5
      <4>2. CASE n \notin Existing
        <5>1. children'[n] = [doc |-> NoDoc, restart |-> "due", held |-> FALSE]
          BY <3>1, <3>4, <4>2 DEF ChildrenOK
        <5> QED
          BY <4>2, <5>1 DEF Held
      <4> QED
        BY <4>1, <4>2
    <3>5. ChildrenOK'
      BY <3>2, <3>3, <3>4 DEF ChildrenOK, Existing
    <3>6. Unattended' \subseteq Unattended
      BY <3>3, <3>4 DEF Unattended, Existing, Held
    <3>7. n \in Held => n \in Held'
      BY <3>4 DEF Held, Existing
    <3> QED
      BY <3>5, <3>6, <3>7
  <2>2. CASE n \in Held /\ Handle(Loop, n, "ending", "restart")
    BY <1>4, <1>5, <1>12, <2>1, <2>2 DEF ReloadStarts, NextReload, MayStep
  <2>3. CASE Handle(Loop, n, "restart", "nothing")
    BY <1>4, <1>5, <1>12, <2>1, <2>3 DEF ReloadStarts, NextReload, MayStep
  <2> QED
    BY <1>12, <2>2, <2>3 DEF ReloadStarts
<1>13. CASE ReloadRestarts
  BY <1>2, <1>5, <1>13 DEF ReloadRestarts, MayStep
<1>14. CASE ReadEof
  <2>1. PICK n \in Held : Release(n, "waiting") /\ Handle(Loop, n, "safe", "reap")
    BY <1>14 DEF ReadEof
  <2>2. ChildrenOK' /\ Unattended' \subseteq Unattended
    BY <2>1, ReleaseAttends
  <2> QED
    BY <1>4, <1>5, <1>14, <2>1, <2>2 DEF ReadEof, MayStep
<1>15. CASE ScanStalled
  BY <1>4, <1>5, <1>6, <1>15 DEF ScanStalled, MayStep
<1>16. CASE ScanDue
  BY <1>2, <1>5, <1>16 DEF ScanDue, MayStep
<1>17. CASE ScanPasses
  <2>1. PICK n : NextChild(Loop, n) /\ UNCHANGED <<children, stop>>
    BY <1>17 DEF ScanPasses
  <2>2. /\ FramesOK'
        /\ at'[Loop].phase = at[Loop].phase /\ at'[Loop].step = "next" /\ at'[Exit] = at[Exit]
        /\ \A s \in Threads \ {Loop} : at'[s] = at[s]
    BY <1>1, <2>1, MovesOn DEF FramesOK
  <2>3. WalksOK' /\ OneWalk'
    BY <1>1, <2>1, <2>2, WalksKept
  <2>4. LoopOK'
    BY <1>5, <1>6, <1>17, <2>1, <2>2 DEF ScanPasses, MayStep, LoopOK
  <2> QED
    BY <1>6, <2>1, <2>2, <2>3, <2>4
<1>18. CASE LoopStops
  BY <1>1, <1>18, StopAllKeeps DEF LoopStops, LoopOK
<1> QED
  BY <1>7, <1>8, <1>9, <1>10, <1>11, <1>12, <1>13, <1>14, <1>15, <1>16, <1>17, <1>18 DEF Polls

(* What either thread does for one child, or on a walk.                      *)
LEMMA HandlesKeep ==
  ASSUME SupervisorAssumption, ThreadInv, NEW t \in Threads, Handles(t)
  PROVE  ThreadInv'
<1> USE DEF ThreadInv
<1>1. Loop \in Threads /\ Exit \in Threads /\ Loop # Exit /\ (t = Loop \/ t = Exit)
  BY DEF Threads, SupervisorAssumption
<1>2. at[Exit].phase = "idle" => t = Loop
  BY <1>1 DEF Handles, Ended, EndedElsewhere, MakeSafe, Walk, WalkBreaks, WalkEnds, MayStep, LoopOK
<1>3. UNCHANGED children => ChildrenOK'
  BY DEF ChildrenOK, Existing
<1>4. CASE Ended(t)
  <2> DEFINE n == at[t].cur
  <2>1. /\ n \in Held /\ Release(n, RestartAfter(at[t].then)) /\ UNCHANGED stop
        /\ Handle(t, n, "safe", at[t].then) /\ at[t].step = "ending"
    BY <1>4 DEF Ended, MayStep
  <2>2. /\ ChildrenOK'
        /\ Unattended' \subseteq Unattended
             \cup (IF RestartAfter(at[t].then) \in {"waiting", "due"} THEN {} ELSE {n})
    BY <2>1, ReleaseAttends
  <2>3. /\ FramesOK'
        /\ at'[t].phase = at[t].phase /\ at'[t].step = "safe" /\ at'[t].cur = n
        /\ at'[t].then = at[t].then
        /\ \A s \in Threads \ {t} : at'[s] = at[s]
    BY <2>1, Handling DEF FramesOK
  <2>4. WalksOK' /\ OneWalk'
    BY <2>1, <2>3, WalksKept
  <2>5. LoopOK'
    <3> SUFFICES ASSUME at'[Exit].phase = "idle" PROVE LoopOK'
      BY DEF LoopOK
    <3>1. at[Exit].phase = "idle" /\ t = Loop /\ at'[Exit] = at[Exit]
      BY <1>1, <1>2, <2>3
    <3>2. Unattended = {} /\ at[Loop].phase # "start_all"
          /\ at[Loop].then \in {"reap", "remove", "restart"}
      BY <2>1, <3>1 DEF LoopOK
    <3>3. Unattended' \subseteq IF at[Loop].then = "remove" THEN {n} ELSE {}
      BY <2>2, <3>1, <3>2 DEF RestartAfter
    <3> QED
      BY <2>1, <2>3, <3>1, <3>2, <3>3 DEF LoopOK
  <2> QED
    BY <2>2, <2>3, <2>4, <2>5
<1>5. CASE MakeSafe(t)
  <2> DEFINE n == at[t].cur
  <2>1. /\ children' = [children EXCEPT ![n] = IF at[t].then = "remove" THEN NoChild ELSE children[n]]
        /\ UNCHANGED stop /\ at[t].step = "safe"
    BY <1>5 DEF MakeSafe, MayStep
  <2>2. /\ children' = [m \in Controls |-> children'[m]]
        /\ \A m \in Controls : children'[m] =
             IF m = n /\ at[t].then = "remove" THEN NoChild ELSE children[m]
    BY <2>1 DEF ChildrenOK
  <2>3. /\ ChildrenOK'
        /\ Unattended' \subseteq Unattended \ (IF at[t].then = "remove" THEN {n} ELSE {})
    BY <2>2 DEF ChildrenOK, Unattended, Held, Existing
  <2>4. /\ FramesOK'
        /\ at'[t].phase = at[t].phase /\ at'[t].step \in {"next", "restart"}
        /\ at'[t].step = "restart" => at[t].then = "restart"
        /\ \A s \in Threads \ {t} : at'[s] = at[s]
    <3>1. CASE Handle(t, n, "restart", "nothing") /\ at[t].then = "restart"
      BY <2>1, <3>1, Handling DEF FramesOK
    <3>2. CASE NextChild(t, n)
      BY <2>1, <3>2, MovesOn DEF FramesOK
    <3> QED
      BY <1>5, <3>1, <3>2 DEF MakeSafe
  <2>5. WalksOK' /\ OneWalk'
    BY <2>1, <2>4, WalksKept
  <2>6. LoopOK'
    <3> SUFFICES ASSUME at'[Exit].phase = "idle" PROVE LoopOK'
      BY DEF LoopOK
    <3>1. at[Exit].phase = "idle" /\ t = Loop /\ at'[Exit] = at[Exit]
      BY <1>1, <1>2, <2>4
    <3>2. Unattended \subseteq IF at[Loop].then = "remove" THEN {n} ELSE {}
      BY <2>1, <3>1 DEF LoopOK
    <3>3. Unattended' = {}
      BY <2>3, <3>1, <3>2
    <3> QED
      BY <2>1, <2>4, <3>1, <3>3 DEF LoopOK
  <2> QED
    BY <2>3, <2>4, <2>5, <2>6
<1>6. CASE EndedElsewhere(t) \/ WalkBreaks(t) \/ WalkEnds(t)
  <2>1. Goto(t, "done", {}) /\ UNCHANGED children
    BY <1>6 DEF EndedElsewhere, WalkBreaks, WalkEnds
  <2>2. DOMAIN stop' = {"asked", "stopped", "finished"} /\ stop'.stopped = stop.stopped
    BY <1>6 DEF EndedElsewhere, WalkBreaks, WalkEnds, FramesOK
  <2>3. /\ FramesOK' /\ at'[t].phase = "done"
        /\ \A s \in Threads \ {t} : at'[s] = at[s]
    BY <2>1, <2>2, GoingTo DEF FramesOK
  <2>4. WalksOK' /\ OneWalk'
    BY <2>2, <2>3, WalksKept
  <2>5. at[Exit].phase # "idle"
    BY <1>2, <1>6 DEF EndedElsewhere, WalkBreaks, WalkEnds, MayStep, LoopOK
  <2>6. LoopOK'
    BY <1>1, <2>3, <2>5 DEF LoopOK
  <2> QED
    BY <1>3, <2>1, <2>3, <2>4, <2>6
<1>7. CASE Walk(t)
  <2>1. PICK n : NextChild(t, n) \/ Handle(t, n, "ending", "nothing")
    BY <1>7 DEF Walk
  <2>2. UNCHANGED <<children, stop>> /\ at[t].phase = "walk"
    BY <1>7 DEF Walk, MayStep
  <2>3. /\ FramesOK' /\ at'[t].phase = "walk"
        /\ \A s \in Threads \ {t} : at'[s] = at[s]
    BY <2>1, <2>2, MovesOn, Handling DEF FramesOK
  <2>4. WalksOK' /\ OneWalk'
    BY <2>2, <2>3, WalksKept
  <2>5. at[Exit].phase # "idle"
    BY <1>2, <2>2 DEF LoopOK
  <2>6. LoopOK'
    BY <1>1, <2>3, <2>5 DEF LoopOK
  <2> QED
    BY <1>3, <2>2, <2>3, <2>4, <2>6
<1> QED
  BY <1>4, <1>5, <1>6, <1>7 DEF Handles

(* The signal, and the exit handler's waits.                                 *)
LEMMA ExitsKeep ==
  ASSUME SupervisorAssumption, ThreadInv, Shutdown \/ Exits
  PROVE  ThreadInv'
<1> USE DEF ThreadInv
<1>1. Loop \in Threads /\ Exit \in Threads /\ Loop # Exit
  BY DEF Threads, SupervisorAssumption
<1>2. CASE StopAll(Exit) /\ UNCHANGED children
  BY <1>1, <1>2, StopAllKeeps
<1>3. ASSUME NEW phase \in {"join", "join2", "done"}, Goto(Exit, phase, {}), UNCHANGED children,
             DOMAIN stop' = {"asked", "stopped", "finished"}, stop'.stopped = stop.stopped
      PROVE  ThreadInv'
  <2>1. /\ FramesOK' /\ at'[Exit].phase = phase
        /\ \A s \in Threads \ {Exit} : at'[s] = at[s]
    BY <1>1, <1>3, GoingTo DEF FramesOK
  <2>2. WalksOK' /\ OneWalk'
    BY <1>1, <1>3, <2>1, WalksKept
  <2>3. LoopOK' /\ ChildrenOK'
    BY <1>3, <2>1 DEF LoopOK, ChildrenOK, Existing
  <2> QED
    BY <2>1, <2>2, <2>3
<1>4. CASE Shutdown
  <2>1. DOMAIN stop' = {"asked", "stopped", "finished"} /\ stop'.stopped = stop.stopped
    BY <1>4 DEF Shutdown, FramesOK
  <2> QED
    BY <1>3, <1>4, <2>1 DEF Shutdown
<1>5. CASE Joined
  BY <1>2, <1>5 DEF Joined
<1>6. CASE JoinTimesOut
  BY <1>2, <1>3, <1>6 DEF JoinTimesOut, FramesOK
<1>7. CASE JoinedAgain
  BY <1>3, <1>7 DEF JoinedAgain, FramesOK
<1> QED
  BY <1>4, <1>5, <1>6, <1>7 DEF Exits

(* A backoff that ends leaves its child due.                                 *)
LEMMA BackoffKeeps ==
  ASSUME ThreadInv, NEW n \in Controls, BackoffEnds(n)
  PROVE  ThreadInv'
<1> USE DEF ThreadInv
<1>1. n \in Existing /\ UNCHANGED <<at, stop>>
      /\ children' = [children EXCEPT ![n] = [children[n] EXCEPT !.restart = "due"]]
  BY DEF BackoffEnds, ChildrenOK
<1>2. \A m \in Controls \ {n} : children'[m] = children[m]
  BY <1>1 DEF ChildrenOK
<1>3. children'[n] = [children[n] EXCEPT !.restart = "due"]
  BY <1>1 DEF ChildrenOK, Existing
<1>4. /\ children'[n] = [f \in {"doc", "restart", "held"} |-> children'[n][f]]
      /\ children'[n].held = children[n].held /\ children'[n].held \in BOOLEAN
      /\ children'[n].restart = "due"
  BY <1>1, <1>3 DEF ChildrenOK
<1>5. children' = [m \in Controls |-> children'[m]]
  BY <1>1 DEF ChildrenOK
<1>6. n \notin Held /\ ~children[n].held
  BY <1>1 DEF BackoffEnds, ChildrenOK, Held
<1>7. ChildrenOK'
  BY <1>2, <1>4, <1>5, <1>6 DEF ChildrenOK, Existing
<1>8. Unattended' \subseteq Unattended
  BY <1>2, <1>4 DEF Unattended, Existing, Held
<1>9. \A m \in Held : m \in Held'
  BY <1>2, <1>6 DEF Held, Existing
<1> QED
  BY <1>1, <1>7, <1>8, <1>9 DEF FramesOK, WalksOK, OneWalk, LoopOK

(* Every step keeps what is known of the two threads and the children.       *)
LEMMA ThreadsKeep == SupervisorAssumption /\ ThreadInv /\ [Next]_vars => ThreadInv'
<1> SUFFICES ASSUME SupervisorAssumption, ThreadInv, [Next]_vars PROVE ThreadInv'
  OBVIOUS
<1>1. CASE UNCHANGED vars
  BY <1>1, Elsewhere DEF vars, supVars
<1>2. CASE Tools
  BY <1>2, Elsewhere DEF Tools, Save, SetEnabled, DeleteControl, StoreControl, StoreFails,
    RequestReload, supVars
<1>3. CASE EditByHand
  BY <1>3, Elsewhere DEF EditByHand, supVars
<1>4. ASSUME NEW n \in Controls, Runs(n) PROVE ThreadInv'
  BY <1>4, Elsewhere DEF Runs, Load, AssertStart, Cycle, Terminated, Leave, Fails, Crash, Hang,
    Wake, othersVars, supVars
<1>5. ASSUME NEW d \in Devices, Outage(d) \/ Recovers(d) PROVE ThreadInv'
  BY <1>5, Elsewhere DEF Outage, Recovers, othersVars, supVars
<1> QED
  BY <1>1, <1>2, <1>3, <1>4, <1>5, PollsKeep, HandlesKeep, ExitsKeep, BackoffKeeps DEF Next

(* Only the supervisor's thread is at work at first, on what it has kept.    *)
LEMMA ThreadsStart == SupervisorAssumption /\ Init => ThreadInv
<1> SUFFICES ASSUME SupervisorAssumption, Init PROVE ThreadInv
  OBVIOUS
<1>1. PICK kept \in SUBSET Controls :
        /\ children = [n \in Controls |->
                         IF n \in kept THEN [doc |-> store[n], restart |-> "no", held |-> FALSE]
                         ELSE NoChild]
        /\ at = [t \in Threads |->
                   [phase |-> IF t = Loop THEN "start_all" ELSE "idle", step |-> "next",
                    cur |-> NoOne, then |-> "nothing", seen |-> {},
                    left |-> IF t = Loop THEN kept ELSE {}]]
  BY DEF Init, Supervised
<1>2. Loop \in Threads /\ Exit \in Threads /\ Loop # Exit
  BY DEF Threads, SupervisorAssumption
<1>3. FramesOK
  <2>1. DOMAIN stop = {"asked", "stopped", "finished"}
    BY DEF Init
  <2>2. \A t \in Threads : at[t] = [f \in Fields |-> at[t][f]]
    BY <1>1 DEF Fields
  <2>3. at = [t \in Threads |-> at[t]]
    BY <1>1
  <2> QED
    BY <2>1, <2>2, <2>3 DEF FramesOK
<1>4. ChildrenOK
  BY <1>1 DEF ChildrenOK, Existing
<1>5. WalksOK /\ OneWalk
  BY <1>1, <1>2 DEF WalksOK, OneWalk
<1>6. Unattended \subseteq kept
  BY <1>1 DEF Unattended, Existing
<1>7. LoopOK
  BY <1>1, <1>2, <1>6 DEF LoopOK, Init
<1> QED
  BY <1>3, <1>4, <1>5, <1>7 DEF ThreadInv

(* One thread at a time walks the children to stop them, whichever of the    *)
(* two comes first and whatever the other is in the middle of (stop_all).    *)
THEOREM OneWalkAlways ==
  ASSUME SupervisorAssumption
  PROVE  Safety => []OneWalk
<1>1. ThreadInv => OneWalk
  BY DEF ThreadInv
<1> QED
  BY <1>1, ThreadsStart, ThreadsKeep, PTL DEF Safety

(* Until the service is told to stop, no child is left between passes with   *)
(* neither a process nor a time to be started again (_restart, _reap,        *)
(* _reload).                                                                 *)
THEOREM NoneForgottenEver ==
  ASSUME SupervisorAssumption
  PROVE  Safety => []NoneForgotten
<1>1. ThreadInv => NoneForgotten
  BY DEF ThreadInv, LoopOK, NoneForgotten, Unattended
<1> QED
  BY <1>1, ThreadsStart, ThreadsKeep, PTL DEF Safety

-----------------------------------------------------------------------------
(* The processes and the devices, as long as no join has timed out: then    *)
(* only the supervisor's thread handles the children.                       *)

ProcFields == {"phase", "doc", "term", "stale"}
Phases == {"none", "dead"} \cup Alive
Child == [doc : Documents \cup {NoDoc}, restart : {"no", "waiting", "due"}, held : BOOLEAN]

KidsOK == \A n \in Existing : children[n] \in Child

(* A control has a process exactly while its child holds one, and has read  *)
(* what its parent holds unless it is known not to have.                    *)
ProcOK(n) ==
  /\ proc[n] = [f \in ProcFields |-> proc[n][f]]
  /\ proc[n].phase \in Phases /\ proc[n].stale \in BOOLEAN
  /\ proc[n].doc \in Documents \cup {NoDoc}
  /\ n \in Held <=> proc[n].phase # "none"
  /\ proc[n].phase = "loading" => proc[n].doc = NoDoc /\ ~proc[n].stale
  /\ proc[n].phase \in Alive \ {"loading"} => proc[n].doc \in Documents
  /\ proc[n].phase # "none" /\ proc[n].doc # NoDoc /\ ~proc[n].stale
       => children[n].doc = proc[n].doc

ProcsOK == proc = [n \in Controls |-> proc[n]] /\ \A n \in Controls : ProcOK(n)

(* Who stands for a device left on: the process, or the thread that has     *)
(* seen it end and is about to make it safe; and from which document.       *)
InHand(n) == n \in Held \/ (at[Loop].step = "safe" /\ at[Loop].cur = n)

Known(n, d) ==
  \/ proc[n].stale
  \/ /\ n \in Existing /\ proc[n].doc \in Documents
     /\ children[n].doc = proc[n].doc /\ d \in Targets(proc[n].doc)

LitOK ==
  /\ lit \in [Devices -> Controls \cup {NoOne}]
  /\ \A n \in Controls, d \in Devices :
       lit[d] = n /\ d \notin missed /\ d \notin stranded => InHand(n) /\ Known(n, d)

LoopPhases == {"start_all", "top", "reload", "read", "scan", "walk", "done"}

(* The exit handler waits, and the walk of the supervisor's thread lets go  *)
(* of every child before that thread ends.                                  *)
AloneOK ==
  /\ at[Exit].phase \in {"idle", "join", "done"} /\ at[Exit].step = "next"
  /\ at[Exit].phase = "done" => at[Loop].phase = "done"
  /\ at[Loop].phase \in LoopPhases
  /\ at[Loop].phase = "done" => stop.stopped /\ Held = {} /\ at[Loop].step = "next"
  /\ stop.stopped => at[Loop].phase \in {"walk", "done"}
  /\ at[Loop].phase = "walk" =>
       at[Loop].seen = Existing /\ Held \subseteq at[Loop].left /\ at[Loop].then = "nothing"
  /\ at[Loop].phase = "start_all" => at[Loop].left \cap Held = {} /\ at[Loop].step = "next"
  /\ at[Loop].phase \in {"start_all", "scan"} => at[Loop].left \subseteq Existing
  /\ at[Loop].phase = "scan" => at[Loop].then # "remove"
  /\ at[Loop].step \in {"next", "ending", "safe", "restart"}
  /\ at[Loop].step = "ending" => at[Loop].cur \in Held
  /\ at[Loop].step \in {"safe", "restart"} => at[Loop].cur \notin Held
  /\ at[Loop].step = "restart" \/ (at[Loop].step = "safe" /\ at[Loop].then = "restart")
       => (at[Loop].cur \in Controls => at[Loop].cur \in Existing)

(* What a step leaves of a control's process, and of the child that holds   *)
(* one.                                                                     *)
SameProc(n) ==
  /\ proc'[n] = [f \in ProcFields |-> proc'[n][f]]
  /\ proc'[n].phase = proc[n].phase /\ proc'[n].doc = proc[n].doc
  /\ proc'[n].stale = proc[n].stale

SameChild(n) ==
  /\ n \in Held' <=> n \in Held
  /\ n \in Held => children'[n].doc = children[n].doc

(* What keeps the process and the child keeps what is known of them.        *)
LEMMA ProcKept ==
  ASSUME NEW n \in Controls, ProcOK(n), SameProc(n), SameChild(n)
  PROVE  ProcOK(n)'
<1> DEFINE held == n \in Held
           heldNext == n \in Held'
<1>1. (heldNext <=> held) /\ (held => children'[n].doc = children[n].doc)
  BY DEF SameChild
<1>2. held <=> proc[n].phase # "none"
  BY DEF ProcOK
<1>3. heldNext <=> proc'[n].phase # "none"
  BY <1>1, <1>2 DEF SameProc
<1> HIDE DEF held, heldNext
<1>4. /\ proc'[n] = [f \in ProcFields |-> proc'[n][f]]
      /\ proc'[n].phase \in Phases /\ proc'[n].stale \in BOOLEAN
      /\ proc'[n].doc \in Documents \cup {NoDoc}
  BY DEF ProcOK, SameProc
<1>5. /\ proc'[n].phase = "loading" => proc'[n].doc = NoDoc /\ ~proc'[n].stale
      /\ proc'[n].phase \in Alive \ {"loading"} => proc'[n].doc \in Documents
  BY DEF ProcOK, SameProc
<1>6. proc'[n].phase # "none" /\ proc'[n].doc # NoDoc /\ ~proc'[n].stale
       => children'[n].doc = proc'[n].doc
  BY <1>1, <1>2 DEF ProcOK, SameProc
<1> QED
  BY <1>3, <1>4, <1>5, <1>6 DEF ProcOK, heldNext

(* SIGTERM changes nothing of a process but that it was sent.               *)
LEMMA TermKeeps ==
  ASSUME ProcsOK, NEW ns, SendTerm(ns)
  PROVE  proc' = [n \in Controls |-> proc'[n]] /\ \A n \in Controls : SameProc(n)
<1>1. proc' = [n \in Controls |-> proc'[n]]
  BY DEF SendTerm
<1>2. ASSUME NEW n \in Controls PROVE SameProc(n)
  <2>1. proc[n] = [f \in ProcFields |-> proc[n][f]]
    BY DEF ProcsOK, ProcOK
  <2>2. proc'[n] = proc[n] \/ proc'[n] = [proc[n] EXCEPT !.term = TRUE]
    BY DEF SendTerm
  <2> QED
    BY <2>1, <2>2 DEF SameProc, ProcFields
<1> QED
  BY <1>1, <1>2

(* A step that sends SIGTERM at most, and changes no child that holds a     *)
(* process.                                                                 *)
LEMMA ProcsKept ==
  ASSUME ProcsOK, UNCHANGED proc \/ (\E ns : SendTerm(ns)), \A n \in Controls : SameChild(n)
  PROVE  ProcsOK' /\ \A n \in Controls : SameProc(n)
<1>1. proc' = [n \in Controls |-> proc'[n]] /\ \A n \in Controls : SameProc(n)
  <2>1. CASE UNCHANGED proc
    BY <2>1 DEF ProcsOK, ProcOK, SameProc
  <2>2. CASE \E ns : SendTerm(ns)
    BY <2>2, TermKeeps
  <2> QED
    BY <2>1, <2>2
<1> QED
  BY <1>1, ProcKept DEF ProcsOK

(* A start gives the child a process, or a time to be tried again.          *)
LEMMA Starting ==
  ASSUME SupervisorAssumption, ChildrenOK, KidsOK, ProcsOK, NEW n, Restart(n), n \notin Held,
         n \in Controls => n \in Existing
  PROVE  /\ KidsOK' /\ ProcsOK' /\ Existing' = Existing
         /\ Held' = Held \/ (n \in Controls /\ Held' = Held \cup {n})
         /\ \A m \in Controls \ {n} : children'[m] = children[m] /\ proc'[m] = proc[m]
         /\ \A m \in Existing : children'[m].doc \in {children[m].doc, Refreshed(m)}
         /\ \A m \in Controls : proc'[m].stale => proc[m].stale
         /\ n \in Controls /\ readable => children'[n].doc = Refreshed(n)
         /\ n \in Controls /\ n \in Held' => proc'[n].doc = NoDoc
<1> DEFINE fresh == [phase |-> "loading", doc |-> NoDoc, term |-> FALSE, stale |-> FALSE]
           is(d, restart, held) ==
             /\ children' = [children EXCEPT ![n] = [doc |-> d, restart |-> restart, held |-> held]]
             /\ IF held THEN proc' = [proc EXCEPT ![n] = fresh] ELSE UNCHANGED proc
             /\ d \in {children[n].doc, Refreshed(n)} /\ restart \in {"no", "waiting"}
             /\ readable => d = Refreshed(n)
<1>1. PICK d, restart : \E held \in BOOLEAN : is(d, restart, held)
  <2>1. \/ is(children[n].doc, "waiting", FALSE) \/ is(Refreshed(n), "waiting", FALSE)
        \/ is(Refreshed(n), "no", TRUE)
    BY DEF Restart, StartLater
  <2> HIDE DEF is
  <2> QED
    BY <2>1
<1>2. PICK held \in BOOLEAN : is(d, restart, held)
  BY <1>1
<1>3. \A m \in Controls :
        /\ children'[m] = IF m = n THEN [doc |-> d, restart |-> restart, held |-> held] ELSE children[m]
        /\ proc'[m] = IF m = n /\ held THEN fresh ELSE proc[m]
  BY <1>2 DEF ChildrenOK, ProcsOK
<1>4. CASE n \notin Controls
  <2>1. \A m \in Controls : children'[m] = children[m] /\ proc'[m] = proc[m]
    BY <1>3, <1>4
  <2>2. Existing' = Existing /\ Held' = Held
    BY <2>1 DEF Existing, Held
  <2>3. \A m \in Controls : SameProc(m) /\ SameChild(m)
    BY <2>1, <2>2 DEF SameProc, SameChild, ProcsOK, ProcOK
  <2>4. proc' = [m \in Controls |-> proc'[m]]
    BY <1>2 DEF ProcsOK
  <2>5. ProcsOK'
    BY <2>3, <2>4, ProcKept DEF ProcsOK
  <2>6. KidsOK'
    BY <2>1, <2>2 DEF KidsOK, Existing
  <2>7. \A m \in Existing : children'[m].doc = children[m].doc
    BY <2>1 DEF Existing
  <2> QED
    BY <1>4, <2>1, <2>2, <2>5, <2>6, <2>7
<1>5. CASE n \in Controls
  <2>1. children[n] \in Child
    BY <1>5 DEF KidsOK
  <2>2. d \in Documents \cup {NoDoc}
    <3>1. children[n].doc \in Documents \cup {NoDoc}
      BY <2>1 DEF Child
    <3> QED
      BY <1>2, <3>1 DEF Refreshed, Usable
  <2>3. children'[n] = [doc |-> d, restart |-> restart, held |-> held]
    BY <1>3, <1>5
  <2>4. children'[n] \in Child
    BY <1>2, <2>2, <2>3 DEF Child
  <2>5. n \in Existing' /\ (n \in Held' <=> held)
    BY <1>5, <2>3, <2>4 DEF Existing, Held, Child, SupervisorAssumption
  <2>6. Existing' = Existing
    BY <1>3, <1>5, <2>5 DEF Existing
  <2>7. \A m \in Controls \ {n} : m \in Held' <=> m \in Held
    BY <1>3 DEF Existing, Held
  <2>8. Held' = IF held THEN Held \cup {n} ELSE Held
    <3>1. Held' \subseteq Controls /\ Held \subseteq Controls
      BY DEF Held, Existing
    <3> QED
      BY <1>5, <2>5, <2>7, <3>1
  <2>9. KidsOK'
    BY <1>3, <2>4, <2>6 DEF KidsOK, Existing
  <2>10. ASSUME NEW m \in Controls \ {n} PROVE ProcOK(m)'
    <3>1. SameProc(m) /\ SameChild(m)
      BY <1>3, <2>7 DEF SameProc, SameChild, ProcsOK, ProcOK
    <3> QED
      BY <3>1, ProcKept DEF ProcsOK
  <2>11. ProcOK(n)'
    <3>1. CASE held
      <4>1. proc'[n] = fresh
        BY <1>3, <1>5, <3>1
      <4>2. fresh = [f \in ProcFields |-> fresh[f]]
        BY DEF ProcFields
      <4>3. fresh.phase = "loading" /\ fresh.doc = NoDoc /\ fresh.stale = FALSE
        OBVIOUS
      <4>4. "loading" \in Phases
        BY DEF Phases, Alive
      <4> HIDE DEF fresh
      <4> QED
        BY <2>5, <3>1, <4>1, <4>2, <4>3, <4>4 DEF ProcOK
    <3>2. CASE ~held
      <4>1. proc'[n] = proc[n] /\ proc[n].phase = "none" /\ ProcOK(n)
        BY <1>3, <1>5, <3>2 DEF ProcsOK, ProcOK
      <4> QED
        BY <2>5, <3>2, <4>1 DEF ProcOK, Alive
    <3> QED
      BY <3>1, <3>2
  <2>12. proc' = [m \in Controls |-> proc'[m]]
    BY <1>2, <1>5 DEF ProcsOK
  <2>13. ProcsOK'
    BY <2>10, <2>11, <2>12 DEF ProcsOK
  <2>14. \A m \in Existing : children'[m].doc \in {children[m].doc, Refreshed(m)}
    BY <1>2, <1>3, <2>3 DEF Existing
  <2>15. \A m \in Controls : proc'[m].stale => proc[m].stale
    BY <1>3
  <2>16. (readable => children'[n].doc = Refreshed(n)) /\ (n \in Held' => proc'[n].doc = NoDoc)
    BY <1>2, <1>3, <1>5, <2>3, <2>5
  <2> QED
    BY <1>3, <1>5, <2>6, <2>8, <2>9, <2>13, <2>14, <2>15, <2>16
<1> QED
  BY <1>4, <1>5

(* The end of a process takes it from its child.                            *)
LEMMA Releasing ==
  ASSUME SupervisorAssumption, ChildrenOK, KidsOK, ProcsOK, NEW n \in Held,
         NEW restart \in {"no", "waiting", "due"}, Release(n, restart)
  PROVE  /\ KidsOK' /\ ProcsOK' /\ Existing' = Existing /\ Held' = Held \ {n}
         /\ \A m \in Existing : children'[m].doc = children[m].doc
         /\ \A m \in Controls : proc'[m].doc = proc[m].doc /\ proc'[m].stale = proc[m].stale
         /\ \A m \in Controls \ {n} : children'[m] = children[m] /\ proc'[m] = proc[m]
         /\ children'[n].restart = restart
<1>1. n \in Existing /\ n \in Controls /\ children[n] \in Child
  BY DEF Held, Existing, KidsOK
<1>2. /\ \A m \in Controls \ {n} : children'[m] = children[m] /\ proc'[m] = proc[m]
      /\ children'[n] = [children[n] EXCEPT !.held = FALSE, !.restart = restart]
      /\ proc'[n] = [proc[n] EXCEPT !.phase = "none", !.term = FALSE]
      /\ proc' = [m \in Controls |-> proc'[m]]
  <2>1. /\ children' = [children EXCEPT ![n] = [children[n] EXCEPT !.held = FALSE, !.restart = restart]]
        /\ proc' = [proc EXCEPT ![n] = [proc[n] EXCEPT !.phase = "none", !.term = FALSE]]
    BY <1>1 DEF Release, ChildrenOK, ProcsOK
  <2> QED
    BY <1>1, <2>1 DEF ChildrenOK, ProcsOK
<1>3. /\ children'[n] \in Child /\ children'[n].held = FALSE /\ children'[n].doc = children[n].doc
      /\ children'[n].restart = restart
  BY <1>1, <1>2 DEF Child
<1>4. Existing' = Existing /\ n \notin Held'
  <2>1. children'[n] # NoChild
    BY <1>3 DEF Child, SupervisorAssumption
  <2>2. \A m \in Controls \ {n} : children'[m] = children[m]
    BY <1>2
  <2>3. n \in Existing'
    BY <1>1, <2>1 DEF Existing
  <2>4. Existing' = Existing
    BY <1>1, <2>2, <2>3 DEF Existing
  <2> QED
    BY <1>3, <2>4 DEF Held
<1>5. \A m \in Controls \ {n} : m \in Held' <=> m \in Held
  BY <1>2 DEF Existing, Held
<1>6. Held' = Held \ {n}
  <2>1. Held' \subseteq Controls /\ Held \subseteq Controls
    BY DEF Held, Existing
  <2> QED
    BY <1>4, <1>5, <2>1
<1>7. KidsOK'
  BY <1>2, <1>3, <1>4 DEF KidsOK, Existing
<1>8. /\ proc'[n] = [f \in ProcFields |-> proc'[n][f]]
      /\ proc'[n].phase = "none" /\ proc'[n].doc = proc[n].doc /\ proc'[n].stale = proc[n].stale
  <2>1. proc[n] = [f \in ProcFields |-> proc[n][f]]
    BY <1>1 DEF ProcsOK, ProcOK
  <2> QED
    BY <1>2, <2>1 DEF ProcFields
<1>9. ProcOK(n)'
  <2>1. proc[n].doc \in Documents \cup {NoDoc} /\ proc[n].stale \in BOOLEAN
    BY <1>1 DEF ProcsOK, ProcOK
  <2>2. "none" \in Phases /\ "none" \notin Alive
    BY DEF Phases, Alive
  <2> QED
    BY <1>4, <1>8, <2>1, <2>2 DEF ProcOK
<1>10. ASSUME NEW m \in Controls \ {n} PROVE ProcOK(m)'
  <2>1. SameProc(m) /\ SameChild(m)
    BY <1>2, <1>5 DEF SameProc, SameChild, ProcsOK, ProcOK
  <2> QED
    BY <2>1, ProcKept DEF ProcsOK
<1>11. ProcsOK'
  BY <1>2, <1>9, <1>10 DEF ProcsOK
<1>12. /\ \A m \in Existing : children'[m].doc = children[m].doc
       /\ \A m \in Controls : proc'[m].doc = proc[m].doc /\ proc'[m].stale = proc[m].stale
  BY <1>2, <1>3, <1>8 DEF Existing
<1> QED
  BY <1>2, <1>3, <1>4, <1>6, <1>7, <1>11, <1>12

(* A step that leaves on only what was on, and gives up neither a process,  *)
(* nor a child, nor a mark of what was missed.                              *)
LitAsBefore ==
  /\ lit' = [d \in Devices |-> lit'[d]]
  /\ \A d \in Devices : lit'[d] = lit[d] \/ lit'[d] = NoOne
  /\ \A d \in Devices :
       lit'[d] # NoOne => (d \in missed => d \in missed') /\ (d \in stranded => d \in stranded')

DocsAsBefore ==
  /\ \A n \in Controls : proc'[n].doc = proc[n].doc /\ proc'[n].stale = proc[n].stale
  /\ \A n \in Existing : n \in Existing' /\ children'[n].doc = children[n].doc

(* Such a step keeps what is known of the devices.                          *)
LEMMA LitKept ==
  ASSUME SupervisorAssumption, LitOK, LitAsBefore, DocsAsBefore,
         \A n \in Controls : InHand(n) => InHand(n)'
  PROVE  LitOK'
<1>1. lit' \in [Devices -> Controls \cup {NoOne}]
  <2>1. \A d \in Devices : lit'[d] \in Controls \cup {NoOne}
    BY DEF LitOK, LitAsBefore
  <2>2. lit' = [d \in Devices |-> lit'[d]]
    BY DEF LitAsBefore
  <2> QED
    BY <2>1, <2>2
<1>2. ASSUME NEW n \in Controls, NEW d \in Devices, lit'[d] = n, d \notin missed', d \notin stranded'
      PROVE  InHand(n)' /\ Known(n, d)'
  <2>1. n # NoOne
    BY DEF SupervisorAssumption
  <2>2. lit[d] = n /\ d \notin missed /\ d \notin stranded
    BY <1>2, <2>1 DEF LitAsBefore
  <2>3. InHand(n) /\ Known(n, d)
    BY <2>2 DEF LitOK
  <2>4. Known(n, d)'
    BY <2>3 DEF Known, DocsAsBefore
  <2> QED
    BY <2>3, <2>4
<1> QED
  BY <1>1, <1>2 DEF LitOK

(* A process that changes what it does, having read its document if it is   *)
(* to go on.                                                                *)
LEMMA Becoming ==
  ASSUME ProcsOK, UNCHANGED children, NEW n \in Controls, NEW phase \in Phases \ {"none", "loading"},
         NEW term, proc' = [proc EXCEPT ![n] = [proc[n] EXCEPT !.phase = phase, !.term = term]],
         proc[n].phase # "none", phase \in Alive => proc[n].phase \in Alive \ {"loading"}
  PROVE  ProcsOK' /\ DocsAsBefore /\ Held' = Held
<1>1. /\ \A m \in Controls \ {n} : proc'[m] = proc[m]
      /\ proc'[n] = [proc[n] EXCEPT !.phase = phase, !.term = term]
      /\ proc' = [m \in Controls |-> proc'[m]]
  BY DEF ProcsOK
<1>2. Existing' = Existing /\ Held' = Held
  BY DEF Existing, Held
<1>3. /\ proc'[n] = [f \in ProcFields |-> proc'[n][f]]
      /\ proc'[n].phase = phase /\ proc'[n].doc = proc[n].doc /\ proc'[n].stale = proc[n].stale
  <2>1. proc[n] = [f \in ProcFields |-> proc[n][f]]
    BY DEF ProcsOK, ProcOK
  <2> QED
    BY <1>1, <2>1 DEF ProcFields
<1>4. ProcOK(n)'
  <2>1. ProcOK(n)
    BY DEF ProcsOK
  <2> QED
    BY <1>2, <1>3, <2>1 DEF ProcOK
<1>5. ASSUME NEW m \in Controls \ {n} PROVE ProcOK(m)'
  <2>1. SameProc(m) /\ SameChild(m)
    BY <1>1, <1>2 DEF SameProc, SameChild, ProcsOK, ProcOK
  <2> QED
    BY <2>1, ProcKept DEF ProcsOK
<1> QED
  BY <1>1, <1>2, <1>3, <1>4, <1>5 DEF ProcsOK, DocsAsBefore

(* The same where SIGTERM, if sent, stays sent.                             *)
LEMMA BecomingKeeps ==
  ASSUME ProcsOK, UNCHANGED children, NEW n \in Controls, NEW phase \in Phases \ {"none", "loading"},
         Becomes(n, phase),
         proc[n].phase # "none", phase \in Alive => proc[n].phase \in Alive \ {"loading"}
  PROVE  ProcsOK' /\ DocsAsBefore /\ Held' = Held
<1>1. proc' = [proc EXCEPT ![n] = [proc[n] EXCEPT !.phase = phase]]
  BY DEF Becomes, ProcsOK
<1>2. PICK term : term = proc[n].term
  OBVIOUS
<1>3. proc[n] = [f \in ProcFields |-> proc[n][f]]
  BY DEF ProcsOK, ProcOK
<1>4. [proc[n] EXCEPT !.phase = phase] = [proc[n] EXCEPT !.phase = phase, !.term = term]
  BY <1>2, <1>3 DEF ProcFields
<1>5. proc' = [proc EXCEPT ![n] = [proc[n] EXCEPT !.phase = phase, !.term = term]]
  BY <1>1, <1>4
<1> QED
  BY <1>5, Becoming

(* A safe state leaves on only what was on.                                 *)
LEMMA SwitchingOff ==
  ASSUME LitOK, NEW devs, SwitchOff(devs)
  PROVE  LitAsBefore
BY DEF SwitchOff, LitAsBefore

(* What the devices of a command are among.                                 *)
LEMMA ReachedAreTargets == ASSUME NEW d PROVE Reached(d) \subseteq Targets(d)
BY DEF Reached, Targets

(* What a process does keeps it in step with its child, and leaves on only  *)
(* what its document names.                                                 *)
LEMMA RunsKeep ==
  ASSUME SupervisorAssumption, ProcsOK, NEW n \in Controls, Runs(n)
  PROVE  ProcsOK' /\ (LitOK => LitOK')
<1>1. UNCHANGED <<children, at>>
  BY DEF Runs, Load, AssertStart, Cycle, Terminated, Leave, Fails, Crash, Hang, Wake,
    othersVars, supVars
<1>2. Existing' = Existing /\ Held' = Held
  BY <1>1 DEF Existing, Held
<1>3. \A m \in Controls : InHand(m) => InHand(m)'
  BY <1>1, <1>2 DEF InHand
<1>4. ASSUME UNCHANGED <<lit, missed, stranded>>, LitOK PROVE LitAsBefore
  BY <1>4 DEF LitAsBefore, LitOK
<1>5. {"asserting", "running", "hung", "leaving"} \subseteq Alive \ {"loading"}
      /\ Alive \ {"loading"} \subseteq {"asserting", "running", "hung", "leaving"}
      /\ "dead" \in Phases /\ "dead" \notin Alive /\ Alive \subseteq Phases
  BY DEF Alive, Phases
<1>6. ASSUME NEW phase \in {"asserting", "running", "hung", "leaving", "dead"}, Becomes(n, phase),
             proc[n].phase \in Alive, phase # "dead" => proc[n].phase # "loading"
      PROVE  ProcsOK' /\ DocsAsBefore
  <2>1. proc[n].phase # "none" /\ phase \in Phases \ {"none", "loading"}
    BY <1>6 DEF Alive, Phases
  <2>2. phase \in Alive => proc[n].phase \in Alive \ {"loading"}
    BY <1>5, <1>6
  <2> QED
    BY <1>1, <1>6, <2>1, <2>2, BecomingKeeps
<1>7. CASE Load(n) /\ Usable(store[n])
  <2>1. proc[n].phase = "loading" /\ ProcOK(n)
    BY <1>7 DEF Load, ProcsOK
  <2>2. /\ \A m \in Controls \ {n} : proc'[m] = proc[m]
        /\ proc'[n] = [proc[n] EXCEPT !.phase = "asserting", !.doc = store[n],
                                      !.stale = store[n] # children[n].doc]
        /\ proc' = [m \in Controls |-> proc'[m]]
    <3>1. proc' = [proc EXCEPT ![n] = [proc[n] EXCEPT !.phase = "asserting", !.doc = store[n],
                                                      !.stale = store[n] # children[n].doc]]
      BY <1>7 DEF Load, ProcsOK
    <3> QED
      BY <3>1 DEF ProcsOK
  <2>3. PICK stale \in BOOLEAN : stale = (store[n] # children[n].doc)
    OBVIOUS
  <2>4. /\ proc'[n] = [f \in ProcFields |-> proc'[n][f]]
        /\ proc'[n].phase = "asserting" /\ proc'[n].doc = store[n] /\ proc'[n].stale = stale
    <3>1. proc[n] = [f \in ProcFields |-> proc[n][f]]
      BY <2>1 DEF ProcOK
    <3>2. proc'[n] = [proc[n] EXCEPT !.phase = "asserting", !.doc = store[n], !.stale = stale]
      BY <2>2, <2>3
    <3> QED
      BY <3>1, <3>2 DEF ProcFields
  <2>5. store[n] \in Documents /\ n \in Held
    BY <1>7, <2>1 DEF Usable, ProcOK
  <2>6. children[n].doc = children'[n].doc
    BY <1>1
  <2>7. ProcOK(n)'
    <3>1. n \in Held'
      BY <1>2, <2>5
    <3>2. ~stale => children'[n].doc = store[n]
      BY <2>3, <2>6
    <3> QED
      BY <2>4, <2>5, <3>1, <3>2 DEF ProcOK, Alive, Phases
  <2>8. ASSUME NEW m \in Controls \ {n} PROVE ProcOK(m)'
    <3>1. SameProc(m) /\ SameChild(m)
      BY <1>1, <1>2, <2>2 DEF SameProc, SameChild, ProcsOK, ProcOK
    <3> QED
      BY <3>1, ProcKept DEF ProcsOK
  <2>9. ProcsOK'
    BY <2>2, <2>7, <2>8 DEF ProcsOK
  <2>10. UNCHANGED <<lit, missed, stranded>>
    BY <1>7 DEF Load, devVars
  <2>11. ASSUME LitOK, NEW m \in Controls, NEW d \in Devices, lit'[d] = m, d \notin missed', d \notin stranded'
         PROVE  InHand(m)' /\ Known(m, d)'
    <3>1. InHand(m) /\ Known(m, d)
      BY <2>10, <2>11 DEF LitOK
    <3>2. m # n
      BY <2>1, <3>1 DEF Known, ProcOK, SupervisorAssumption
    <3>3. Known(m, d)'
      BY <1>1, <1>2, <2>2, <3>1, <3>2 DEF Known
    <3> QED
      BY <1>3, <3>1, <3>3
  <2> QED
    BY <2>9, <2>10, <2>11 DEF LitOK
<1>8. CASE Load(n) /\ ~Usable(store[n])
  <2>1. UNCHANGED <<lit, missed, stranded>> /\ Becomes(n, "dead") /\ proc[n].phase = "loading"
    BY <1>8 DEF Load, devVars
  <2>2. ProcsOK' /\ DocsAsBefore
    BY <1>6, <2>1 DEF Alive
  <2> QED
    BY <1>3, <1>4, <2>1, <2>2, LitKept
<1>9. CASE AssertStart(n)
  <2>1. /\ SwitchOff(Reached(proc[n].doc)) /\ proc[n].phase = "asserting"
        /\ Becomes(n, IF Targets(proc[n].doc) \subseteq reach THEN "running" ELSE "leaving")
    BY <1>9 DEF AssertStart
  <2>2. ProcsOK' /\ DocsAsBefore
    BY <1>6, <2>1 DEF Alive
  <2> QED
    BY <1>3, <2>1, <2>2, SwitchingOff, LitKept
<1>10. CASE Leave(n)
  <2>1. SwitchOff(Reached(proc[n].doc)) /\ proc[n].phase = "leaving" /\ Becomes(n, "dead")
    BY <1>10 DEF Leave
  <2>2. ProcsOK' /\ DocsAsBefore
    BY <1>6, <2>1 DEF Alive
  <2> QED
    BY <1>3, <2>1, <2>2, SwitchingOff, LitKept
<1>11. CASE Fails(n) \/ Crash(n) \/ Hang(n) \/ Wake(n)
  <2>1. UNCHANGED <<lit, missed, stranded>>
    BY <1>11 DEF Fails, Crash, Hang, Wake, devVars
  <2>2. PICK phase \in {"leaving", "dead", "hung", "running"} :
          /\ Becomes(n, phase) /\ proc[n].phase \in Alive
          /\ phase # "dead" => proc[n].phase # "loading"
    BY <1>11 DEF Fails, Crash, Hang, Wake, Alive
  <2>3. ProcsOK' /\ DocsAsBefore
    BY <1>6, <2>2
  <2> QED
    BY <1>3, <1>4, <2>1, <2>3, LitKept
<1>12. CASE Terminated(n)
  <2>1. /\ UNCHANGED <<lit, missed, stranded>>
        /\ proc[n].phase \in {"loading", "asserting", "running", "leaving"}
    BY <1>12 DEF Terminated, devVars
  <2>2. PICK phase \in {"dead", "leaving"} :
          /\ proc' = [proc EXCEPT ![n] = [proc[n] EXCEPT !.phase = phase, !.term = FALSE]]
          /\ phase = "leaving" => proc[n].phase # "loading"
    <3> DEFINE next == CASE proc[n].phase = "loading" -> "dead"
                         [] proc[n].phase \in {"asserting", "running"} -> "leaving"
                         [] proc[n].phase = "leaving" -> "dead"
    <3>1. next \in {"dead", "leaving"} /\ (next = "leaving" => proc[n].phase # "loading")
      BY <2>1
    <3>2. proc' = [proc EXCEPT ![n] = [proc[n] EXCEPT !.term = FALSE, !.phase = next]]
      BY <1>12 DEF Terminated, ProcsOK
    <3> HIDE DEF next
    <3>3. [proc[n] EXCEPT !.term = FALSE, !.phase = next] = [proc[n] EXCEPT !.phase = next, !.term = FALSE]
      <4>1. proc[n] = [f \in ProcFields |-> proc[n][f]]
        BY DEF ProcsOK, ProcOK
      <4> QED
        BY <4>1 DEF ProcFields
    <3> QED
      BY <3>1, <3>2, <3>3
  <2>3. phase \in Phases \ {"none", "loading"} /\ proc[n].phase # "none"
        /\ (phase \in Alive => proc[n].phase \in Alive \ {"loading"})
    BY <2>1, <2>2 DEF Alive, Phases
  <2>4. ProcsOK' /\ DocsAsBefore
    BY <1>1, <2>2, <2>3, Becoming
  <2> QED
    BY <1>3, <1>4, <2>1, <2>4, LitKept
<1>13. CASE Cycle(n)
  <2> DEFINE doc == proc[n].doc
  <2>1. UNCHANGED proc /\ proc[n].phase = "running"
    BY <1>13 DEF Cycle
  <2>2. PICK on \in SUBSET Targets(doc) :
          lit' = [d \in Devices |->
                    IF d \notin Reached(doc) THEN lit[d]
                    ELSE IF d \in on /\ Targets(doc) \subseteq reach THEN n ELSE NoOne]
    BY <1>13 DEF Cycle
  <2>3. missed' = missed \ Reached(doc) /\ stranded' = stranded \ Reached(doc)
    BY <1>13 DEF Cycle
  <2>4. ProcsOK'
    <3>1. \A m \in Controls : SameChild(m)
      BY <1>1, <1>2 DEF SameChild
    <3> QED
      BY <2>1, <3>1, ProcsKept
  <2>5. InHand(n) /\ \A d \in Targets(doc) : Known(n, d)
    BY <2>1 DEF InHand, Known, ProcsOK, ProcOK, Alive, Held, SupervisorAssumption
  <2>6. ASSUME LitOK, NEW m \in Controls, NEW d \in Devices, lit'[d] = m, d \notin missed', d \notin stranded'
        PROVE  InHand(m) /\ Known(m, d)
    <3>1. CASE d \in Reached(doc)
      <4>1. m = n
        BY <2>2, <2>6, <3>1 DEF SupervisorAssumption
      <4> QED
        BY <2>5, <3>1, <4>1, ReachedAreTargets
    <3>2. CASE d \notin Reached(doc)
      BY <2>2, <2>3, <2>6, <3>2 DEF LitOK
    <3> QED
      BY <3>1, <3>2
  <2>7. \A m \in Controls, d \in Devices : Known(m, d) => Known(m, d)'
    BY <1>1, <1>2, <2>1 DEF Known
  <2>8. LitOK => lit' \in [Devices -> Controls \cup {NoOne}]
    BY <2>2 DEF LitOK
  <2> QED
    BY <1>3, <2>4, <2>6, <2>7, <2>8 DEF LitOK
<1> QED
  BY <1>7, <1>8, <1>9, <1>10, <1>11, <1>12, <1>13 DEF Runs

Quiet == KidsOK /\ ProcsOK /\ LitOK /\ AloneOK

(* A step of the supervisor's thread that sends SIGTERM at most, to no      *)
(* child's loss.                                                            *)
LEMMA MovingKeeps ==
  ASSUME SupervisorAssumption, Quiet, UNCHANGED <<children, lit, missed, stranded>>,
         UNCHANGED proc \/ (\E ns : SendTerm(ns)),
         \A n \in Controls : InHand(n) => InHand(n)'
  PROVE  KidsOK' /\ ProcsOK' /\ LitOK' /\ Held' = Held /\ Existing' = Existing
<1> USE DEF Quiet
<1>1. Existing' = Existing /\ Held' = Held
  BY DEF Existing, Held
<1>2. \A n \in Controls : SameChild(n)
  BY <1>1 DEF SameChild
<1>3. ProcsOK' /\ \A n \in Controls : SameProc(n)
  BY <1>2, ProcsKept
<1>4. LitAsBefore /\ DocsAsBefore
  BY <1>1, <1>3 DEF LitAsBefore, LitOK, DocsAsBefore, SameProc
<1>5. LitOK'
  BY <1>4, LitKept
<1>6. KidsOK'
  BY <1>1 DEF KidsOK
<1> QED
  BY <1>1, <1>3, <1>5, <1>6

(* A start finds what its control had left on accounted for.                *)
LEMMA StartingKeeps ==
  ASSUME SupervisorAssumption, ChildrenOK, Quiet, NEW n, Restart(n), n \notin Held,
         n \in Controls => n \in Existing,
         at[Loop].step # "safe", UNCHANGED <<lit, missed, stranded>>
  PROVE  KidsOK' /\ ProcsOK' /\ LitOK'
<1> USE DEF Quiet
<1>1. /\ KidsOK' /\ ProcsOK' /\ Existing' = Existing
      /\ Held' = Held \/ (n \in Controls /\ Held' = Held \cup {n})
      /\ \A m \in Controls \ {n} : children'[m] = children[m] /\ proc'[m] = proc[m]
  BY Starting
<1>2. ASSUME NEW m \in Controls, NEW d \in Devices, lit'[d] = m, d \notin missed', d \notin stranded'
      PROVE  InHand(m)' /\ Known(m, d)'
  <2>1. m \in Held /\ Known(m, d)
    BY <1>2 DEF LitOK, InHand
  <2>2. m # n
    BY <2>1
  <2>3. Known(m, d)'
    BY <1>1, <2>1, <2>2 DEF Known
  <2>4. m \in Held'
    BY <1>1, <2>1
  <2> QED
    BY <2>3, <2>4 DEF InHand
<1> QED
  BY <1>1, <1>2 DEF LitOK

(* The thread that sees a process end has its devices in hand.              *)
LEMMA ReleasingKeeps ==
  ASSUME SupervisorAssumption, ChildrenOK, Quiet, NEW n \in Held,
         NEW restart \in {"no", "waiting", "due"}, Release(n, restart),
         at[Loop].step # "safe", at'[Loop].step = "safe", at'[Loop].cur = n,
         UNCHANGED <<lit, missed, stranded>>
  PROVE  KidsOK' /\ ProcsOK' /\ LitOK'
<1> USE DEF Quiet
<1>1. /\ KidsOK' /\ ProcsOK' /\ Existing' = Existing /\ Held' = Held \ {n}
      /\ \A m \in Existing : children'[m].doc = children[m].doc
      /\ \A m \in Controls : proc'[m].doc = proc[m].doc /\ proc'[m].stale = proc[m].stale
  BY Releasing
<1>2. LitAsBefore /\ DocsAsBefore
  BY <1>1 DEF LitAsBefore, LitOK, DocsAsBefore
<1>3. \A m \in Controls : InHand(m) => InHand(m)'
  BY <1>1 DEF InHand
<1> QED
  BY <1>1, <1>2, <1>3, LitKept

(* A safe state is commanded from every document that may name what the     *)
(* process had switched on.                                                 *)
LEMMA MakingSafeKeeps ==
  ASSUME SupervisorAssumption, ChildrenOK, FramesOK, Quiet, MakeSafe(Loop),
         Loop \in Threads
  PROVE  /\ KidsOK' /\ ProcsOK' /\ LitOK' /\ Held' = Held
         /\ Existing' = IF at[Loop].then = "remove" THEN Existing \ {at[Loop].cur} ELSE Existing
<1> USE DEF Quiet
<1> DEFINE n == at[Loop].cur
           wanted == UNION {Targets(d) : d \in DocumentsFor(n)}
           off == UNION {Reached(d) : d \in DocumentsFor(n)}
           gone == at[Loop].then = "remove"
<1>1. /\ at[Loop].step = "safe" /\ n \notin Held /\ UNCHANGED proc
      /\ lit' = [d \in Devices |-> IF d \in off THEN NoOne ELSE lit[d]]
      /\ missed' = (missed \cup wanted) \ off
      /\ stranded' = (stranded \ off) \cup {d \in Devices \ wanted : lit[d] = n /\ proc[n].stale}
      /\ children' = [children EXCEPT ![n] = IF gone THEN NoChild ELSE children[n]]
  BY DEF MakeSafe, MayStep, AloneOK
<1>2. \A m \in Controls : children'[m] = IF m = n /\ gone THEN NoChild ELSE children[m]
  BY <1>1 DEF ChildrenOK
<1>3. Existing' = IF gone THEN Existing \ {n} ELSE Existing
  BY <1>2 DEF Existing
<1>4. Held' = Held
  BY <1>1, <1>2, <1>3 DEF Held, Existing
<1>5. KidsOK'
  BY <1>2, <1>3 DEF KidsOK, Existing
<1>6. ProcsOK'
  <2>1. \A m \in Controls : SameChild(m)
    BY <1>1, <1>2, <1>4 DEF SameChild
  <2> QED
    BY <1>1, <2>1, ProcsKept
<1>7. ASSUME NEW m \in Controls, NEW d \in Devices, lit'[d] = m, d \notin missed', d \notin stranded'
      PROVE  InHand(m)' /\ Known(m, d)'
  <2>1. m # NoOne
    BY DEF SupervisorAssumption
  <2>2. d \notin off /\ lit[d] = m
    BY <1>1, <1>7, <2>1
  <2>3. d \notin wanted /\ d \notin missed /\ d \notin stranded
    BY <1>1, <1>7, <2>2
  <2>4. InHand(m) /\ Known(m, d)
    BY <2>2, <2>3 DEF LitOK
  <2>5. m # n
    <3> SUFFICES ASSUME m = n PROVE FALSE
      OBVIOUS
    <3>1. ~proc[n].stale
      BY <1>1, <1>7, <2>2, <2>3
    <3>2. /\ n \in Existing /\ proc[n].doc \in Documents
          /\ children[n].doc = proc[n].doc /\ d \in Targets(proc[n].doc)
      BY <2>4, <3>1 DEF Known
    <3>3. children[n].doc \in DocumentsFor(n)
      BY <3>2 DEF DocumentsFor, SupervisorAssumption
    <3> QED
      BY <2>3, <3>2, <3>3
  <2>6. m \in Held'
    BY <1>4, <2>4, <2>5 DEF InHand
  <2>7. Known(m, d)'
    BY <1>1, <1>2, <1>3, <2>4, <2>5 DEF Known
  <2> QED
    BY <2>6, <2>7 DEF InHand
<1>8. lit' \in [Devices -> Controls \cup {NoOne}]
  BY <1>1 DEF LitOK
<1> QED
  BY <1>3, <1>4, <1>5, <1>6, <1>7, <1>8 DEF LitOK

(* A child that is to be started is given that time.                        *)
LEMMA TakingOnKeeps ==
  ASSUME SupervisorAssumption, ChildrenOK, Quiet, NEW n,
         children' = [children EXCEPT ![n] =
           IF n \in Existing THEN [children[n] EXCEPT !.restart = IF n \in Held THEN @ ELSE "due"]
           ELSE [doc |-> NoDoc, restart |-> "due", held |-> FALSE]],
         UNCHANGED proc \/ (\E ns : SendTerm(ns)), UNCHANGED <<lit, missed, stranded>>,
         at[Loop].step # "safe"
  PROVE  /\ KidsOK' /\ ProcsOK' /\ LitOK' /\ Held' = Held
         /\ Existing \subseteq Existing' /\ (n \in Controls => n \in Existing')
<1> USE DEF Quiet
<1>1. \A m \in Controls \ {n} : children'[m] = children[m]
  BY DEF ChildrenOK
<1>2. ASSUME n \in Controls
      PROVE  /\ children'[n] \in Child
             /\ n \in Existing => children'[n].doc = children[n].doc
             /\ children'[n].held <=> n \in Held
  <2>1. CASE n \in Existing
    <3>1. children[n] \in Child
      BY <2>1 DEF KidsOK
    <3>2. PICK restart : restart = IF n \in Held THEN children[n].restart ELSE "due"
      OBVIOUS
    <3>3. children'[n] = [children[n] EXCEPT !.restart = restart]
      BY <1>2, <2>1, <3>2 DEF ChildrenOK
    <3>4. restart \in {"no", "waiting", "due"}
      BY <3>1, <3>2 DEF Child
    <3>5. PICK c \in Child : c = children[n]
      BY <3>1
    <3>6. [c EXCEPT !.restart = restart] \in Child
      BY <3>4 DEF Child
    <3>7. [c EXCEPT !.restart = restart].doc = c.doc /\ [c EXCEPT !.restart = restart].held = c.held
      BY DEF Child
    <3>8. children[n].held <=> n \in Held
      BY <2>1 DEF Held
    <3> QED
      BY <2>1, <3>3, <3>5, <3>6, <3>7, <3>8
  <2>2. CASE n \notin Existing
    <3>1. children'[n] = [doc |-> NoDoc, restart |-> "due", held |-> FALSE]
      BY <1>2, <2>2 DEF ChildrenOK
    <3>2. children'[n] \in Child
      <4>1. [doc |-> NoDoc, restart |-> "due", held |-> FALSE] \in Child
        BY DEF Child
      <4> QED
        BY <3>1, <4>1
    <3>3. children'[n].held = FALSE /\ n \notin Held
      BY <2>2, <3>1 DEF Held
    <3> QED
      BY <2>2, <3>2, <3>3
  <2> QED
    BY <2>1, <2>2
<1>3. n \in Controls => n \in Existing'
  BY <1>2 DEF Existing, Child, SupervisorAssumption
<1>4. \A m \in Controls \ {n} : m \in Existing' <=> m \in Existing
  BY <1>1 DEF Existing
<1>5. Existing \subseteq Existing' /\ Existing' \subseteq Controls /\ Existing' \subseteq Existing \cup {n}
  BY <1>3, <1>4 DEF Existing
<1>6. \A m \in Controls : m \in Held' <=> m \in Held
  <2>1. \A m \in Controls \ {n} : m \in Held' <=> m \in Held
    BY <1>1, <1>4 DEF Held
  <2>2. n \in Controls => (n \in Held' <=> n \in Held)
    BY <1>2, <1>3 DEF Held
  <2> QED
    BY <2>1, <2>2
<1>7. Held' = Held
  <2>1. Held' \subseteq Controls /\ Held \subseteq Controls
    BY DEF Held, Existing
  <2> QED
    BY <1>6, <2>1
<1>8. \A m \in Existing : m \in Controls /\ children'[m].doc = children[m].doc
  BY <1>1, <1>2 DEF Existing
<1>9. KidsOK'
  BY <1>1, <1>2, <1>4, <1>5 DEF KidsOK
<1>10. \A m \in Controls : SameChild(m)
  BY <1>7, <1>8 DEF SameChild, Held
<1>11. ProcsOK' /\ \A m \in Controls : SameProc(m)
  BY <1>10, ProcsKept
<1>12. LitAsBefore /\ DocsAsBefore
  BY <1>5, <1>8, <1>11 DEF LitAsBefore, LitOK, DocsAsBefore, SameProc
<1>13. \A m \in Controls : InHand(m) => InHand(m)'
  BY <1>7 DEF InHand
<1> QED
  BY <1>3, <1>5, <1>7, <1>9, <1>11, <1>12, <1>13, LitKept

(* What the supervisor's thread may be doing when a step of its own ends,   *)
(* outside its walk.                                                        *)
LEMMA LoopGoesOn ==
  ASSUME AloneOK, at'[Exit] = at[Exit], UNCHANGED stop,
         at[Loop].phase \in LoopPhases \ {"walk", "done"},
         at'[Loop].phase \in LoopPhases \ {"walk", "done"},
         at'[Loop].phase = "start_all" => at'[Loop].left \cap Held' = {} /\ at'[Loop].step = "next",
         at'[Loop].phase \in {"start_all", "scan"} => at'[Loop].left \subseteq Existing',
         at'[Loop].phase = "scan" => at'[Loop].then # "remove",
         at'[Loop].step \in {"next", "ending", "safe", "restart"},
         at'[Loop].step = "ending" => at'[Loop].cur \in Held',
         at'[Loop].step \in {"safe", "restart"} => at'[Loop].cur \notin Held',
         at'[Loop].step = "restart" \/ (at'[Loop].step = "safe" /\ at'[Loop].then = "restart")
           => (at'[Loop].cur \in Controls => at'[Loop].cur \in Existing')
  PROVE  AloneOK'
BY DEF AloneOK, LoopPhases

(* The loops of the supervisor's thread.                                    *)
LEMMA PollsQuiet ==
  ASSUME SupervisorAssumption, ThreadInv, Quiet, Polls
  PROVE  Quiet'
<1> USE DEF Quiet, ThreadInv
<1>1. Loop \in Threads /\ Exit \in Threads \ {Loop}
  BY DEF Threads, SupervisorAssumption
<1>2. UNCHANGED <<lit, missed, stranded>>
  BY DEF Polls, StartAll, StartsPolling, Drain, ReloadRemoves, ReloadFails, ReloadStarts,
    ReloadRestarts, Select, ReadEof, Scan, ScanStalled, ScanDue, ScanPasses, PollEnds, LoopStops,
    devVars
<1>3. at[Loop].step # "safe" => \A n \in Controls : InHand(n) => n \in Held
  BY DEF InHand
<1>4. \A n \in Controls : n \in Held' => InHand(n)'
  BY DEF InHand
<1>5. ASSUME NEW n, Restart(n), NextChild(Loop, n), UNCHANGED stop, n \notin Held,
             n \in Controls => n \in Existing,
             at[Loop].step \in {"next", "restart"}, at[Loop].phase \in LoopPhases \ {"walk", "done"}
      PROVE  Quiet'
  <2>1. KidsOK' /\ ProcsOK' /\ LitOK'
    BY <1>2, <1>5, StartingKeeps
  <2>2. Existing' = Existing /\ (Held' = Held \/ (n \in Controls /\ Held' = Held \cup {n}))
    BY <1>5, Starting
  <2>3. /\ at'[Loop].phase = at[Loop].phase /\ at'[Loop].step = "next" /\ at'[Loop].then = "nothing"
        /\ at'[Loop].left = at[Loop].left \ {n} /\ at'[Exit] = at[Exit]
    BY <1>1, <1>5, MovesOn
  <2>4. AloneOK'
    <3>1. at'[Loop].phase = "start_all" => at'[Loop].left \cap Held' = {}
      BY <2>2, <2>3 DEF AloneOK
    <3>2. at'[Loop].phase \in {"start_all", "scan"} => at'[Loop].left \subseteq Existing'
      BY <2>2, <2>3 DEF AloneOK
    <3> QED
      BY <1>5, <2>3, <3>1, <3>2, LoopGoesOn
  <2> QED
    BY <2>1, <2>4
<1>6. ASSUME NEW phase \in {"top", "reload", "read", "scan"}, NEW left, Goto(Loop, phase, left),
             UNCHANGED <<children, proc, stop>>, at[Loop].step = "next",
             at[Loop].phase \in LoopPhases \ {"walk", "done"},
             phase = "scan" => left = Existing
      PROVE  Quiet'
  <2>1. /\ at'[Loop].phase = phase /\ at'[Loop].step = "next" /\ at'[Loop].left = left
        /\ at'[Loop].then = "nothing" /\ at'[Exit] = at[Exit]
    BY <1>1, <1>6, GoingTo
  <2>2. /\ KidsOK' /\ ProcsOK' /\ LitOK' /\ Held' = Held /\ Existing' = Existing
    <3>1. Held' = Held
      BY <1>6 DEF Held, Existing
    <3> QED
      BY <1>2, <1>3, <1>4, <1>6, <3>1, MovingKeeps
  <2>3. AloneOK'
    BY <1>6, <2>1, <2>2, LoopGoesOn DEF LoopPhases
  <2> QED
    BY <2>2, <2>3
<1>7. ASSUME NEW n, NEW then, at[Loop].phase \in {"reload", "read", "scan"}, at[Loop].step = "next",
             \/ n \in Held /\ Handle(Loop, n, "ending", then) /\ SendTerm({n})
             \/ n \notin Held /\ Handle(Loop, n, "safe", then) /\ then # "restart" /\ UNCHANGED proc,
             UNCHANGED <<children, stop>>, at[Loop].phase = "scan" => then # "remove"
      PROVE  Quiet'
  <2>1. PICK step \in {"ending", "safe"} :
          /\ Handle(Loop, n, step, then) /\ (step = "ending" <=> n \in Held)
          /\ step = "safe" => then # "restart"
    BY <1>7
  <2>2. /\ at'[Loop].phase = at[Loop].phase /\ at'[Loop].step = step /\ at'[Loop].cur = n
        /\ at'[Loop].then = then /\ at'[Loop].left = at[Loop].left /\ at'[Exit] = at[Exit]
    BY <1>1, <2>1, Handling
  <2>3. /\ KidsOK' /\ ProcsOK' /\ LitOK' /\ Held' = Held /\ Existing' = Existing
    <3>1. Held' = Held
      BY <1>7 DEF Held, Existing
    <3>2. UNCHANGED proc \/ (\E ns : SendTerm(ns))
      BY <1>7
    <3>3. \A m \in Controls : InHand(m) => InHand(m)'
      BY <1>3, <1>4, <1>7, <3>1
    <3> QED
      BY <1>2, <1>7, <3>2, <3>3, MovingKeeps
  <2>4. AloneOK'
    <3>1. at'[Loop].phase \in {"start_all", "scan"} => at'[Loop].left \subseteq Existing'
      BY <2>2, <2>3 DEF AloneOK
    <3> QED
      BY <1>7, <2>1, <2>2, <2>3, <3>1, LoopGoesOn DEF LoopPhases
  <2> QED
    BY <2>3, <2>4
<1>8. CASE StartAll
  <2>1. PICK n \in at[Loop].left : Restart(n) /\ NextChild(Loop, n)
    BY <1>8 DEF StartAll
  <2>2. n \in Existing /\ n \notin Held
    BY <1>8, <2>1 DEF StartAll, MayStep, AloneOK
  <2> QED
    BY <1>5, <1>8, <2>1, <2>2 DEF StartAll, MayStep, LoopPhases
<1>9. CASE ReloadRestarts
  BY <1>5, <1>9 DEF ReloadRestarts, MayStep, LoopPhases, AloneOK
<1>10. CASE ScanDue
  <2>1. PICK n \in at[Loop].left : n \notin Held /\ Restart(n) /\ NextChild(Loop, n)
    BY <1>10 DEF ScanDue
  <2>2. n \in Existing
    BY <1>10, <2>1 DEF ScanDue, MayStep, AloneOK
  <2> QED
    BY <1>5, <1>10, <2>1, <2>2 DEF ScanDue, MayStep, LoopPhases
<1>11. CASE StartsPolling \/ Drain \/ Select \/ Scan \/ PollEnds
  <2>1. UNCHANGED <<children, proc, stop>> /\ at[Loop].step = "next"
        /\ at[Loop].phase \in LoopPhases \ {"walk", "done"}
    BY <1>11 DEF StartsPolling, Drain, Select, Scan, PollEnds, MayStep, LoopPhases
  <2>2. PICK phase \in {"top", "reload", "read", "scan"} :
          \E left : Goto(Loop, phase, left) /\ (phase = "scan" => left = Existing)
    BY <1>11 DEF StartsPolling, Drain, Select, Scan, PollEnds
  <2> QED
    BY <1>6, <2>1, <2>2
<1>12. CASE ReloadRemoves
  <2> DEFINE n == Head(batch)
  <2>1. /\ at[Loop].phase = "reload" /\ at[Loop].step = "next" /\ UNCHANGED <<children, stop>>
        /\ LetGo(n, "remove") \/ UNCHANGED <<at, proc>>
    BY <1>12 DEF ReloadRemoves, NextReload, MayStep
  <2>2. CASE LetGo(n, "remove")
    <3>1. \/ n \in Held /\ Handle(Loop, n, "ending", "remove") /\ SendTerm({n})
          \/ n \notin Held /\ Handle(Loop, n, "safe", "remove") /\ UNCHANGED proc
      BY <2>2 DEF LetGo
    <3> HIDE DEF n
    <3> QED
      BY <1>7, <2>1, <3>1
  <2>3. CASE UNCHANGED <<at, proc>>
    <3>1. Held' = Held /\ Existing' = Existing
      BY <2>1 DEF Held, Existing
    <3>2. \A m \in Controls : InHand(m) => InHand(m)'
      BY <2>3, <3>1 DEF InHand
    <3> QED
      BY <1>2, <2>1, <2>3, <3>1, <3>2, MovingKeeps DEF AloneOK
  <2> QED
    BY <2>1, <2>2, <2>3
<1>13. CASE ReloadFails
  <2>1. UNCHANGED <<children, stop, at, proc>>
    BY <1>13 DEF ReloadFails
  <2>2. Held' = Held /\ Existing' = Existing
    BY <2>1 DEF Held, Existing
  <2>3. \A m \in Controls : InHand(m) => InHand(m)'
    BY <2>1, <2>2 DEF InHand
  <2> QED
    BY <1>2, <2>1, <2>2, <2>3, MovingKeeps DEF AloneOK
<1>14. CASE ReloadStarts
  <2> DEFINE n == Head(batch)
  <2>1. /\ at[Loop].phase = "reload" /\ at[Loop].step = "next" /\ UNCHANGED stop
        /\ UNCHANGED proc \/ (\E ns : SendTerm(ns))
        /\ children' = [children EXCEPT ![n] =
             IF n \in Existing THEN [children[n] EXCEPT !.restart = IF n \in Held THEN @ ELSE "due"]
             ELSE [doc |-> NoDoc, restart |-> "due", held |-> FALSE]]
    BY <1>14 DEF ReloadStarts, NextReload, MayStep
  <2>2. PICK step, then :
          /\ Handle(Loop, n, step, then)
          /\ IF n \in Held THEN step = "ending" /\ then = "restart"
             ELSE step = "restart" /\ then = "nothing"
    BY <1>14 DEF ReloadStarts
  <2>3. /\ KidsOK' /\ ProcsOK' /\ LitOK' /\ Held' = Held
        /\ Existing \subseteq Existing' /\ (n \in Controls => n \in Existing')
    <3> HIDE DEF n
    <3> QED
      BY <1>2, <2>1, TakingOnKeeps
  <2>4. /\ at'[Loop].phase = at[Loop].phase /\ at'[Loop].step = step /\ at'[Loop].cur = n
        /\ at'[Loop].then = then /\ at'[Loop].left = at[Loop].left /\ at'[Exit] = at[Exit]
    BY <1>1, <2>2, Handling
  <2>5. AloneOK'
    BY <2>1, <2>2, <2>3, <2>4, LoopGoesOn DEF LoopPhases
  <2> QED
    BY <2>3, <2>5
<1>15. CASE ReadEof
  <2>1. PICK n \in Held : Release(n, "waiting") /\ Handle(Loop, n, "safe", "reap")
    BY <1>15 DEF ReadEof
  <2>2. at[Loop].phase = "read" /\ at[Loop].step = "next" /\ UNCHANGED stop
    BY <1>15 DEF ReadEof, MayStep
  <2>3. /\ at'[Loop].phase = at[Loop].phase /\ at'[Loop].step = "safe" /\ at'[Loop].cur = n
        /\ at'[Loop].then = "reap" /\ at'[Loop].left = at[Loop].left /\ at'[Exit] = at[Exit]
    BY <1>1, <2>1, Handling
  <2>4. KidsOK' /\ ProcsOK' /\ LitOK'
    BY <1>2, <2>1, <2>2, <2>3, ReleasingKeeps
  <2>5. Held' = Held \ {n}
    BY <2>1, Releasing
  <2>6. AloneOK'
    BY <2>2, <2>3, <2>5, LoopGoesOn DEF LoopPhases
  <2> QED
    BY <2>4, <2>6
<1>16. CASE ScanStalled
  <2>1. PICK n \in Held : SendTerm({n}) /\ Handle(Loop, n, "ending", "reap")
    BY <1>16 DEF ScanStalled
  <2> QED
    BY <1>7, <1>16, <2>1 DEF ScanStalled, MayStep
<1>17. CASE ScanPasses
  <2>1. PICK n : NextChild(Loop, n)
    BY <1>17 DEF ScanPasses
  <2>2. at[Loop].phase = "scan" /\ at[Loop].step = "next" /\ UNCHANGED <<children, stop, proc>>
    BY <1>17 DEF ScanPasses, MayStep
  <2>3. /\ at'[Loop].phase = at[Loop].phase /\ at'[Loop].step = "next" /\ at'[Loop].then = "nothing"
        /\ at'[Loop].left = at[Loop].left \ {n} /\ at'[Exit] = at[Exit]
    BY <1>1, <2>1, MovesOn
  <2>4. /\ KidsOK' /\ ProcsOK' /\ LitOK' /\ Held' = Held /\ Existing' = Existing
    <3>1. Held' = Held
      BY <2>2 DEF Held, Existing
    <3> QED
      BY <1>2, <1>3, <1>4, <2>2, <3>1, MovingKeeps
  <2>5. at'[Loop].left \subseteq Existing'
    BY <2>2, <2>3, <2>4 DEF AloneOK
  <2>6. AloneOK'
    BY <2>2, <2>3, <2>4, <2>5, LoopGoesOn DEF LoopPhases
  <2> QED
    BY <2>4, <2>6
<1>18. CASE LoopStops
  <2>1. at[Loop].phase = "top" /\ at[Loop].step = "next" /\ UNCHANGED children
    BY <1>18 DEF LoopStops, MayStep
  <2>2. ~stop.stopped
    BY <2>1 DEF AloneOK
  <2>3. stop'.stopped /\ SendTerm(Held) /\ Goto(Loop, "walk", Existing)
    BY <1>18, <2>2 DEF LoopStops, StopAll, FramesOK
  <2>4. /\ at'[Loop].phase = "walk" /\ at'[Loop].step = "next" /\ at'[Loop].left = Existing
        /\ at'[Loop].then = "nothing" /\ at'[Loop].seen = Existing /\ at'[Exit] = at[Exit]
    BY <1>1, <2>3, GoingTo
  <2>5. /\ KidsOK' /\ ProcsOK' /\ LitOK' /\ Held' = Held /\ Existing' = Existing
    <3>1. Held' = Held
      BY <2>1 DEF Held, Existing
    <3> QED
      BY <1>2, <1>3, <1>4, <2>1, <2>3, <3>1, MovingKeeps
  <2>6. Held \subseteq Existing
    BY DEF Held
  <2>7. AloneOK'
    BY <2>1, <2>3, <2>4, <2>5, <2>6 DEF AloneOK, LoopPhases
  <2> QED
    BY <2>5, <2>7
<1> QED
  BY <1>8, <1>9, <1>10, <1>11, <1>12, <1>13, <1>14, <1>15, <1>16, <1>17, <1>18 DEF Polls

(* The supervisor's thread with one child, and on its walk; the exit        *)
(* handler does neither.                                                    *)
LEMMA HandlesQuiet ==
  ASSUME SupervisorAssumption, ThreadInv, Quiet, NEW t \in Threads, Handles(t)
  PROVE  Quiet'
<1> USE DEF Quiet, ThreadInv
<1>1. Loop \in Threads /\ Exit \in Threads \ {Loop} /\ t = Loop
  <2>1. t # Exit
    BY DEF Handles, Ended, EndedElsewhere, MakeSafe, Walk, WalkBreaks, WalkEnds, MayStep, AloneOK
  <2> QED
    BY <2>1 DEF Threads, SupervisorAssumption
<1>2. CASE Ended(t)
  <2> DEFINE n == at[Loop].cur
             then == at[Loop].then
  <2>1. /\ n \in Held /\ Release(n, RestartAfter(then)) /\ Handle(Loop, n, "safe", then)
        /\ at[Loop].step = "ending" /\ UNCHANGED <<stop, lit, missed, stranded>>
    BY <1>1, <1>2 DEF Ended, MayStep, devVars
  <2>2. RestartAfter(then) \in {"no", "waiting", "due"}
    BY DEF RestartAfter
  <2>3. /\ at'[Loop].phase = at[Loop].phase /\ at'[Loop].step = "safe" /\ at'[Loop].cur = n
        /\ at'[Loop].then = then /\ at'[Loop].left = at[Loop].left
        /\ at'[Loop].seen = at[Loop].seen /\ at'[Exit] = at[Exit]
    BY <1>1, <2>1, Handling
  <2>4. KidsOK' /\ ProcsOK' /\ LitOK'
    BY <2>1, <2>2, <2>3, ReleasingKeeps
  <2>5. Held' = Held \ {n} /\ Existing' = Existing /\ n \in Existing
    BY <2>1, <2>2, Releasing DEF Held
  <2>6. AloneOK'
    BY <2>1, <2>3, <2>5 DEF AloneOK
  <2> QED
    BY <2>4, <2>6
<1>3. CASE EndedElsewhere(t)
  BY <1>1, <1>3 DEF EndedElsewhere, MayStep, AloneOK
<1>4. CASE MakeSafe(t)
  <2> DEFINE n == at[Loop].cur
  <2>1. /\ KidsOK' /\ ProcsOK' /\ LitOK' /\ Held' = Held
        /\ Existing' = IF at[Loop].then = "remove" THEN Existing \ {n} ELSE Existing
    BY <1>1, <1>4, MakingSafeKeeps
  <2>2. at[Loop].step = "safe" /\ UNCHANGED stop
    BY <1>1, <1>4 DEF MakeSafe, MayStep
  <2>3. CASE at[Loop].then = "restart"
    <3>1. Handle(Loop, n, "restart", "nothing")
      BY <1>1, <1>4, <2>3 DEF MakeSafe
    <3>2. /\ at'[Loop].phase = at[Loop].phase /\ at'[Loop].step = "restart" /\ at'[Loop].cur = n
          /\ at'[Loop].then = "nothing" /\ at'[Loop].left = at[Loop].left
          /\ at'[Loop].seen = at[Loop].seen /\ at'[Exit] = at[Exit]
      BY <1>1, <3>1, Handling
    <3>3. AloneOK'
      BY <2>1, <2>2, <2>3, <3>2 DEF AloneOK
    <3> QED
      BY <2>1, <3>3
  <2>4. CASE at[Loop].then # "restart"
    <3>1. NextChild(Loop, n)
      BY <1>1, <1>4, <2>4 DEF MakeSafe
    <3>2. /\ at'[Loop].phase = at[Loop].phase /\ at'[Loop].step = "next"
          /\ at'[Loop].then = "nothing" /\ at'[Loop].left = at[Loop].left \ {n}
          /\ at'[Loop].seen = at[Loop].seen /\ at'[Exit] = at[Exit]
      BY <1>1, <3>1, MovesOn
    <3>3. n \notin Held
      BY <2>2 DEF AloneOK
    <3>4. at[Loop].phase = "walk" => Held' \subseteq at'[Loop].left /\ Existing' = Existing
      BY <2>1, <3>2, <3>3 DEF AloneOK
    <3>5. at[Loop].phase \in {"start_all", "scan"} => at'[Loop].left \subseteq Existing'
      BY <2>1, <2>2, <3>2 DEF AloneOK
    <3>6. AloneOK'
      BY <2>1, <2>2, <3>2, <3>4, <3>5 DEF AloneOK
    <3> QED
      BY <2>1, <3>6
  <2> QED
    BY <2>3, <2>4
<1>5. CASE WalkBreaks(t)
  BY <1>1, <1>5 DEF WalkBreaks, Undone, MayStep, AloneOK
<1>6. CASE Walk(t) \/ WalkEnds(t)
  <2>1. /\ UNCHANGED <<children, proc, lit, missed, stranded>>
        /\ at[Loop].phase = "walk" /\ at[Loop].step = "next"
    BY <1>1, <1>6 DEF Walk, WalkEnds, MayStep, devVars
  <2>2. Held' = Held
    BY <2>1 DEF Held, Existing
  <2>3. \A m \in Controls : InHand(m) => InHand(m)'
    BY <2>1, <2>2 DEF InHand
  <2>4. /\ KidsOK' /\ ProcsOK' /\ LitOK' /\ Existing' = Existing
    BY <2>1, <2>3, MovingKeeps
  <2>5. CASE Walk(t)
    <3>1. PICK n : \/ n \in Held /\ Handle(Loop, n, "ending", "nothing")
                   \/ n \notin Held /\ NextChild(Loop, n)
      BY <1>1, <2>5 DEF Walk
    <3>2. UNCHANGED stop
      BY <2>5 DEF Walk
    <3>3. CASE n \in Held /\ Handle(Loop, n, "ending", "nothing")
      <4>1. /\ at'[Loop].phase = at[Loop].phase /\ at'[Loop].step = "ending" /\ at'[Loop].cur = n
            /\ at'[Loop].then = "nothing" /\ at'[Loop].left = at[Loop].left
            /\ at'[Loop].seen = at[Loop].seen /\ at'[Exit] = at[Exit]
        BY <1>1, <3>3, Handling
      <4>2. AloneOK'
        BY <2>1, <2>2, <2>4, <3>2, <3>3, <4>1 DEF AloneOK
      <4> QED
        BY <2>4, <4>2
    <3>4. CASE n \notin Held /\ NextChild(Loop, n)
      <4>1. /\ at'[Loop].phase = at[Loop].phase /\ at'[Loop].step = "next"
            /\ at'[Loop].then = "nothing" /\ at'[Loop].left = at[Loop].left \ {n}
            /\ at'[Loop].seen = at[Loop].seen /\ at'[Exit] = at[Exit]
        BY <1>1, <3>4, MovesOn
      <4>2. Held \subseteq at'[Loop].left
        BY <2>1, <3>4, <4>1 DEF AloneOK
      <4>3. AloneOK'
        BY <2>1, <2>2, <2>4, <3>2, <4>1, <4>2 DEF AloneOK
      <4> QED
        BY <2>4, <4>3
    <3> QED
      BY <3>1, <3>3, <3>4
  <2>6. CASE WalkEnds(t)
    <3>1. Goto(Loop, "done", {}) /\ at[Loop].left = {} /\ stop'.stopped = stop.stopped
      BY <1>1, <2>6 DEF WalkEnds, FramesOK
    <3>2. /\ at'[Loop].phase = "done" /\ at'[Loop].step = "next" /\ at'[Exit] = at[Exit]
      BY <1>1, <3>1, GoingTo
    <3>3. Held = {} /\ stop.stopped
      BY <2>1, <3>1 DEF AloneOK, WalksOK, Threads
    <3>4. AloneOK'
      BY <2>2, <3>1, <3>2, <3>3 DEF AloneOK, LoopPhases
    <3> QED
      BY <2>4, <3>4
  <2> QED
    BY <1>6, <2>5, <2>6
<1> QED
  BY <1>2, <1>3, <1>4, <1>5, <1>6 DEF Handles

(* A wait of the exit handler that does not time out.                       *)
LEMMA ExitsQuiet ==
  ASSUME SupervisorAssumption, ThreadInv, Quiet, Shutdown \/ Joined \/ JoinedAgain
  PROVE  Quiet'
<1> USE DEF Quiet, ThreadInv
<1>1. Exit \in Threads /\ Loop \in Threads \ {Exit}
  BY DEF Threads, SupervisorAssumption
<1>2. ~JoinedAgain
  BY DEF JoinedAgain, MayStep, AloneOK
<1>3. UNCHANGED <<children, lit, missed, stranded>>
  BY <1>2 DEF Shutdown, Joined, devVars
<1>4. PICK phase \in {"join", "done"} :
        /\ Goto(Exit, phase, {}) /\ stop'.stopped = stop.stopped
        /\ phase = "done" => at[Loop].phase = "done"
        /\ UNCHANGED proc \/ (\E ns : SendTerm(ns))
  <2>1. CASE Shutdown
    BY <2>1 DEF Shutdown, FramesOK
  <2>2. CASE Joined
    <3>1. at[Loop].phase = "done" /\ stop.stopped
      BY <2>2 DEF Joined, AloneOK
    <3> QED
      BY <2>2, <3>1 DEF Joined, StopAll
  <2> QED
    BY <1>2, <2>1, <2>2
<1>5. at'[Exit].phase = phase /\ at'[Exit].step = "next" /\ at'[Loop] = at[Loop]
  BY <1>1, <1>4, GoingTo
<1>6. Held' = Held
  BY <1>3 DEF Held, Existing
<1>7. \A m \in Controls : InHand(m) => InHand(m)'
  BY <1>5, <1>6 DEF InHand
<1>8. KidsOK' /\ ProcsOK' /\ LitOK' /\ Existing' = Existing
  BY <1>3, <1>4, <1>7, MovingKeeps
<1>9. AloneOK'
  BY <1>4, <1>5, <1>6, <1>8 DEF AloneOK
<1> QED
  BY <1>8, <1>9

(* Steps that move no thread and no process.                                *)
LEMMA ElsewhereQuiet ==
  ASSUME SupervisorAssumption, Quiet, UNCHANGED <<at, children, stop, proc, lit, missed, stranded>>
  PROVE  Quiet'
<1> USE DEF Quiet
<1>1. Held' = Held /\ Existing' = Existing
  BY DEF Held, Existing
<1>2. \A m \in Controls : InHand(m) => InHand(m)'
  BY <1>1 DEF InHand
<1>3. KidsOK' /\ ProcsOK' /\ LitOK'
  BY <1>2, MovingKeeps
<1> QED
  BY <1>1, <1>3 DEF AloneOK

(* A backoff that ends.                                                     *)
LEMMA BackoffQuiet ==
  ASSUME SupervisorAssumption, ThreadInv, Quiet, NEW n \in Controls, BackoffEnds(n)
  PROVE  Quiet'
<1> USE DEF Quiet, ThreadInv
<1>1. UNCHANGED <<at, stop, proc, lit, missed, stranded>> /\ n \in Existing
  BY DEF BackoffEnds, devVars
<1>2. children' = [children EXCEPT ![n] = [children[n] EXCEPT !.restart = "due"]]
  BY DEF BackoffEnds, ChildrenOK
<1>3. PICK c \in Child : c = children[n]
  BY <1>1 DEF KidsOK
<1>4. /\ [c EXCEPT !.restart = "due"] \in Child
      /\ [c EXCEPT !.restart = "due"].doc = c.doc /\ [c EXCEPT !.restart = "due"].held = c.held
  BY DEF Child
<1>5. children'[n] \in Child /\ children'[n].doc = children[n].doc /\ children'[n].held = children[n].held
  BY <1>1, <1>2, <1>3, <1>4 DEF ChildrenOK, Existing
<1>6. \A m \in Controls \ {n} : children'[m] = children[m]
  BY <1>2 DEF ChildrenOK
<1>7. n \in Existing'
  BY <1>5 DEF Existing, Child, SupervisorAssumption
<1>8. Existing' = Existing
  BY <1>1, <1>6, <1>7 DEF Existing
<1>9. Held' = Held
  BY <1>5, <1>6, <1>8 DEF Held, Existing
<1>10. \A m \in Existing : children'[m].doc = children[m].doc
  BY <1>5, <1>6 DEF Existing
<1>11. KidsOK'
  BY <1>5, <1>6, <1>8 DEF KidsOK, Existing
<1>12. \A m \in Controls : SameChild(m)
  BY <1>9, <1>10 DEF SameChild, Held
<1>13. ProcsOK' /\ \A m \in Controls : SameProc(m)
  BY <1>1, <1>12, ProcsKept
<1>14. LitAsBefore /\ DocsAsBefore
  BY <1>1, <1>8, <1>10, <1>13 DEF LitAsBefore, LitOK, DocsAsBefore, SameProc
<1>15. \A m \in Controls : InHand(m) => InHand(m)'
  BY <1>1, <1>9 DEF InHand
<1>16. LitOK'
  BY <1>14, <1>15, LitKept
<1>17. AloneOK'
  BY <1>1, <1>8, <1>9 DEF AloneOK
<1> QED
  BY <1>11, <1>13, <1>16, <1>17

SpentOK == spent \in [DOMAIN Bounds -> Nat]

(* What is spent of a bound stays spent.                                    *)
LEMMA SpentGrows ==
  ASSUME SpentOK, [Next]_vars
  PROVE  SpentOK' /\ \A b \in DOMAIN Bounds : spent[b] <= spent'[b]
<1> DEFINE Grown == UNCHANGED spent \/ \E what \in DOMAIN Bounds : Spend(what)
<1>1. DOMAIN Bounds = {"writes", "edits", "faults", "outages", "wedges"}
  BY DEF Bounds
<1>2. Grown => SpentOK' /\ \A b \in DOMAIN Bounds : spent[b] <= spent'[b]
  <2>1. CASE UNCHANGED spent
    BY <2>1 DEF SpentOK
  <2>2. ASSUME NEW what \in DOMAIN Bounds, Spend(what)
        PROVE  SpentOK' /\ \A b \in DOMAIN Bounds : spent[b] <= spent'[b]
    <3>1. spent' = [spent EXCEPT ![what] = spent[what] + 1]
      BY <2>2 DEF Spend
    <3> QED
      BY <3>1 DEF SpentOK
  <2> QED
    BY <2>1, <2>2
<1> HIDE DEF Grown
<1>3. UNCHANGED spent => Grown
  BY DEF Grown
<1>4. \A what \in {"writes", "edits", "faults", "outages", "wedges"} : Spend(what) => Grown
  BY <1>1 DEF Grown
<1>5. CASE UNCHANGED vars \/ EditByHand
  BY <1>2, <1>3, <1>4, <1>5 DEF vars, EditByHand
<1>6. CASE Tools
  <2>1. Grown
    BY <1>3, <1>4, <1>6 DEF Tools, Save, SetEnabled, DeleteControl, StoreControl, StoreFails, RequestReload
  <2> QED
    BY <1>2, <2>1
<1>7. CASE Polls
  <2>1. \A n : Restart(n) => Grown
    BY <1>3, <1>4 DEF Restart
  <2>2. Grown
    BY <1>3, <1>7, <2>1 DEF Polls, StartAll, StartsPolling, Drain, ReloadRemoves, ReloadFails,
      ReloadStarts, ReloadRestarts, Select, ReadEof, Scan, ScanStalled, ScanDue, ScanPasses,
      PollEnds, LoopStops
  <2> QED
    BY <1>2, <2>2
<1>8. CASE Shutdown \/ Exits
  <2>1. Grown
    BY <1>3, <1>4, <1>8 DEF Shutdown, Exits, Joined, JoinTimesOut, JoinedAgain
  <2> QED
    BY <1>2, <2>1
<1>9. ASSUME NEW t \in Threads, Handles(t) PROVE Grown
  BY <1>3, <1>9 DEF Handles, Ended, EndedElsewhere, MakeSafe, Walk, WalkBreaks, WalkEnds
<1>10. ASSUME NEW n \in Controls, Runs(n) \/ BackoffEnds(n) PROVE Grown
  BY <1>3, <1>4, <1>10 DEF Runs, Load, AssertStart, Cycle, Terminated, Leave, Fails, Crash, Hang,
    Wake, BackoffEnds
<1>11. ASSUME NEW d \in Devices, Outage(d) \/ Recovers(d) PROVE Grown
  BY <1>3, <1>4, <1>11 DEF Outage, Recovers
<1> QED
  BY <1>2, <1>5, <1>6, <1>7, <1>8, <1>9, <1>10, <1>11 DEF Next

(* The invariant, as long as no join has timed out.                         *)
QuietInv == ThreadInv /\ SpentOK /\ (spent["wedges"] = 0 => Quiet)

LEMMA QuietStart == SupervisorAssumption /\ Init => QuietInv
<1> SUFFICES ASSUME SupervisorAssumption, Init PROVE QuietInv
  OBVIOUS
<1>1. PICK kept \in SUBSET Controls :
        /\ kept \subseteq {n \in Controls : ControlIsEnabled(store[n])}
        /\ children = [n \in Controls |->
                         IF n \in kept THEN [doc |-> store[n], restart |-> "no", held |-> FALSE]
                         ELSE NoChild]
        /\ at = [t \in Threads |->
                   [phase |-> IF t = Loop THEN "start_all" ELSE "idle", step |-> "next",
                    cur |-> NoOne, then |-> "nothing", seen |-> {},
                    left |-> IF t = Loop THEN kept ELSE {}]]
  BY DEF Init, Supervised
<1>2. Loop \in Threads /\ Exit \in Threads /\ Loop # Exit
  BY DEF Threads, SupervisorAssumption
<1>3. \A n \in kept : children[n] \in Child
  BY <1>1 DEF Child, ControlIsEnabled
<1>4. Existing = kept /\ Held = {}
  <2>1. NoChild \notin Child
    BY DEF Child, SupervisorAssumption
  <2>2. Existing = kept
    BY <1>1, <1>3, <2>1 DEF Existing
  <2>3. \A n \in kept : children[n].held = FALSE
    BY <1>1
  <2> QED
    BY <2>2, <2>3 DEF Held
<1>5. KidsOK
  BY <1>3, <1>4 DEF KidsOK
<1>6. ProcsOK
  <2> DEFINE none == [phase |-> "none", doc |-> NoDoc, term |-> FALSE, stale |-> FALSE]
  <2>1. proc = [n \in Controls |-> none]
    BY DEF Init
  <2>2. none = [f \in ProcFields |-> none[f]]
    BY DEF ProcFields
  <2>3. none.phase = "none" /\ none.doc = NoDoc /\ none.stale = FALSE
    OBVIOUS
  <2> HIDE DEF none
  <2> QED
    BY <1>4, <2>1, <2>2, <2>3 DEF ProcsOK, ProcOK, Phases, Alive
<1>7. LitOK
  BY DEF Init, LitOK, SupervisorAssumption
<1>8. AloneOK
  BY <1>1, <1>2, <1>4 DEF AloneOK, LoopPhases, Init
<1>9. SpentOK
  BY DEF Init, SpentOK, Bounds
<1> QED
  BY <1>5, <1>6, <1>7, <1>8, <1>9, ThreadsStart DEF QuietInv, Quiet

LEMMA QuietStep == SupervisorAssumption /\ QuietInv /\ [Next]_vars => QuietInv'
<1> SUFFICES ASSUME SupervisorAssumption, QuietInv, [Next]_vars PROVE QuietInv'
  OBVIOUS
<1>1. ThreadInv' /\ ThreadInv
  BY ThreadsKeep DEF QuietInv
<1>2. SpentOK' /\ \A b \in DOMAIN Bounds : spent[b] <= spent'[b]
  BY SpentGrows DEF QuietInv
<1>3. ASSUME spent'["wedges"] = 0 PROVE Quiet'
  <2>1. "wedges" \in DOMAIN Bounds
    BY DEF Bounds
  <2>2. spent["wedges"] \in Nat
    BY <2>1 DEF QuietInv, SpentOK
  <2>3. spent["wedges"] = 0
    BY <1>2, <1>3, <2>1, <2>2
  <2>4. Quiet
    BY <2>3 DEF QuietInv
  <2>5. ~Spend("wedges")
    BY <1>3, <2>1, <2>3 DEF QuietInv, SpentOK, Spend
  <2>6. CASE UNCHANGED vars
    BY <2>4, <2>6, ElsewhereQuiet DEF vars, supVars, devVars
  <2>7. CASE Tools
    BY <2>4, <2>7, ElsewhereQuiet DEF Tools, Save, SetEnabled, DeleteControl, StoreControl,
      StoreFails, RequestReload, supVars, devVars
  <2>8. CASE EditByHand
    BY <2>4, <2>8, ElsewhereQuiet DEF EditByHand, supVars, devVars
  <2>9. CASE Polls
    BY <1>1, <2>4, <2>9, PollsQuiet
  <2>10. CASE Shutdown \/ Exits
    BY <1>1, <2>4, <2>5, <2>10, ExitsQuiet DEF Exits, JoinTimesOut
  <2>11. ASSUME NEW t \in Threads, Handles(t) PROVE Quiet'
    BY <1>1, <2>4, <2>11, HandlesQuiet
  <2>12. ASSUME NEW n \in Controls, Runs(n) PROVE Quiet'
    <3>1. UNCHANGED <<children, at, stop>>
      BY <2>12 DEF Runs, Load, AssertStart, Cycle, Terminated, Leave, Fails, Crash, Hang, Wake,
        othersVars, supVars
    <3>2. Held' = Held /\ Existing' = Existing
      BY <3>1 DEF Held, Existing
    <3>3. ProcsOK' /\ LitOK'
      BY <2>4, <2>12, RunsKeep DEF Quiet
    <3>4. KidsOK' /\ AloneOK'
      BY <2>4, <3>1, <3>2 DEF Quiet, KidsOK, AloneOK
    <3> QED
      BY <3>3, <3>4 DEF Quiet
  <2>13. ASSUME NEW n \in Controls, BackoffEnds(n) PROVE Quiet'
    BY <1>1, <2>4, <2>13, BackoffQuiet
  <2>14. ASSUME NEW d \in Devices, Outage(d) \/ Recovers(d) PROVE Quiet'
    BY <2>4, <2>14, ElsewhereQuiet DEF Outage, Recovers, othersVars, supVars
  <2> QED
    BY <2>6, <2>7, <2>8, <2>9, <2>10, <2>11, <2>12, <2>13, <2>14 DEF Next
<1> QED
  BY <1>1, <1>2, <1>3 DEF QuietInv

(* However often controls are rewritten, disabled, deleted, killed or stuck, *)
(* and whatever bridge is away: a device that is on is on because of a       *)
(* control that still answers for it, or was commanded a safe state that did *)
(* not get through, or was named by a document nobody else read - unless the *)
(* exit handler has given up waiting for the supervisor's thread (_reap,     *)
(* _stop, make_safe, _documents_for).                                        *)
THEOREM NothingStaysOn ==
  ASSUME SupervisorAssumption
  PROVE  Safety => [](spent["wedges"] = 0 => NothingLeftOn)
<1>1. SupervisorAssumption /\ QuietInv => (spent["wedges"] = 0 => NothingLeftOn)
  <2> SUFFICES ASSUME SupervisorAssumption, QuietInv, spent["wedges"] = 0,
                      NEW d \in Devices, lit[d] # NoOne, d \notin missed, d \notin stranded
               PROVE  Answering(lit[d])
    BY DEF NothingLeftOn
  <2>1. Quiet
    BY DEF QuietInv
  <2>2. PICK n \in Controls : n = lit[d]
    BY <2>1 DEF Quiet, LitOK
  <2>3. InHand(n)
    BY <2>1, <2>2 DEF Quiet, LitOK
  <2>4. n \in Held => at[Exit].phase # "done"
    BY <2>1 DEF Quiet, AloneOK
  <2> QED
    BY <2>2, <2>3, <2>4 DEF Answering, InHand, Threads
<1> QED
  BY <1>1, QuietStart, QuietStep, PTL DEF Safety

(* A service that has gone without giving up on the supervisor's thread has  *)
(* let every control go and made every device safe that answered (stop_all,  *)
(* _stop_supervising).                                                       *)
THEOREM ExitsCleanly ==
  ASSUME SupervisorAssumption
  PROVE  Safety => []CleanExit
<1>1. SupervisorAssumption /\ QuietInv => CleanExit
  <2> SUFFICES ASSUME SupervisorAssumption, QuietInv, at[Exit].phase = "done", spent.wedges = 0
               PROVE  /\ \A n \in Controls : proc[n].phase \notin Alive
                      /\ \A d \in Devices : lit[d] # NoOne => d \in missed \/ d \in stranded
    BY DEF CleanExit
  <2>1. Quiet /\ Held = {} /\ at[Loop].step = "next"
    BY DEF QuietInv, Quiet, AloneOK
  <2>2. \A n \in Controls : proc[n].phase \notin Alive
    BY <2>1 DEF Quiet, ProcsOK, ProcOK, Alive
  <2>3. \A n \in Controls : ~InHand(n)
    BY <2>1 DEF InHand
  <2> QED
    BY <2>1, <2>2, <2>3 DEF Quiet, LitOK
<1> QED
  BY <1>1, QuietStart, QuietStep, PTL DEF Safety

-----------------------------------------------------------------------------
(* As long as no document has changed since the start, whichever thread     *)
(* handles the children and however the processes end.                      *)

AskedOK == requests = <<>> /\ batch = <<>> /\ \A c \in Callers : calls[c].step = "idle"

(* The children are the controls chosen at the start, which share nothing.  *)
KeptOK ==
  /\ \A n \in Existing : Usable(store[n]) /\ children[n].doc = store[n]
  /\ \A m, n \in Existing : m # n => ~MayShare(store[m], store[n])

LitHome ==
  /\ lit \in [Devices -> Controls \cup {NoOne}]
  /\ \A n \in Controls, d \in Devices : lit[d] = n => n \in Existing /\ d \in Targets(store[n])

(* A thread makes safe only what has no process, and starts only what the   *)
(* other is not making safe.                                                *)
TurnOK(t) ==
  /\ at[t].then \in {"nothing", "reap"} /\ at[t].step \in {"next", "ending", "safe"}
  /\ at[t].step = "safe" => at[t].cur \in Existing \ Held
  /\ t = Exit => /\ at[t].then = "nothing"
                 /\ at[t].phase \in {"idle", "join"} => at[t].step = "next"
                 /\ at[t].step = "safe" => children[at[t].cur].restart = "no"
  /\ t = Loop => /\ at[t].phase = "start_all" => /\ at[t].step = "next"
                                                 /\ at[t].left \subseteq Existing \ Held
                                                 /\ at[Exit].phase \in {"idle", "join"}
                 /\ at[t].phase = "scan" => at[t].left \subseteq Existing

Original ==
  /\ AskedOK /\ KeptOK /\ KidsOK /\ ProcsOK /\ \A n \in Controls : ~proc[n].stale
  /\ LitHome /\ \A t \in Threads : TurnOK(t)

(* Documents that share nothing command different devices.                  *)
LEMMA NothingShared ==
  ASSUME NEW d, NEW e, ~MayShare(d, e)
  PROVE  Targets(d) \cap Targets(e) = {}
BY DEF MayShare, MayBeOne, Targets, Target

(* What a control commands, once it has read a document.                    *)
LEMMA RunsItsOwn ==
  ASSUME SupervisorAssumption, Original, NEW n \in Controls, proc[n].phase \in Alive \ {"loading"}
  PROVE  n \in Held /\ n \in Existing /\ proc[n].doc = store[n] /\ proc[n].doc \in Documents
<1>1. ProcOK(n) /\ ~proc[n].stale
  BY DEF Original, ProcsOK
<1>2. n \in Held /\ n \in Existing /\ proc[n].doc \in Documents
  BY <1>1 DEF ProcOK, Alive, Held
<1>3. proc[n].doc = children[n].doc
  BY <1>1, <1>2 DEF ProcOK, Alive, SupervisorAssumption
<1> QED
  BY <1>2, <1>3 DEF Original, KeptOK

(* No document changes, and no request is made.                             *)
LEMMA StillAsked ==
  ASSUME Original, UNCHANGED <<store, readable, calls>>, requests' = <<>>, batch' = <<>>,
         Existing' = Existing,
         \A n \in Existing : children'[n].doc \in {children[n].doc, Refreshed(n)}
  PROVE  AskedOK' /\ KeptOK'
<1>1. \A n \in Existing : children'[n].doc = store[n]
  BY DEF Original, KeptOK, Refreshed
<1> QED
  BY <1>1 DEF Original, AskedOK, KeptOK, Usable

(* A thread that takes its turn leaves the other in the middle of its own.  *)
LEMMA TurnsKept ==
  ASSUME SupervisorAssumption, \A s \in Threads : TurnOK(s), NEW t \in Threads,
         \A s \in Threads \ {t} : at'[s] = at[s], Existing' = Existing, TurnOK(t)',
         t = Exit => Held' \subseteq Held,
         at[Loop].phase = "start_all" /\ t = Exit => at'[Exit].phase \in {"idle", "join"},
         \A s \in Threads \ {t} : at[s].step = "safe" => at[s].cur \notin Held',
         t = Loop /\ at[Exit].step = "safe"
           => children'[at[Exit].cur].restart = children[at[Exit].cur].restart
  PROVE  \A s \in Threads : TurnOK(s)'
<1> SUFFICES ASSUME NEW s \in Threads \ {t} PROVE TurnOK(s)'
  OBVIOUS
<1>1. at'[s] = at[s] /\ TurnOK(s)
  OBVIOUS
<1>2. CASE s = Loop
  <2>1. t = Exit /\ s # Exit
    BY <1>2 DEF Threads, SupervisorAssumption
  <2> QED
    BY <1>1, <1>2, <2>1 DEF TurnOK
<1>3. CASE s = Exit
  <2>1. t = Loop /\ s # Loop
    BY <1>3 DEF Threads, SupervisorAssumption
  <2> QED
    BY <1>1, <1>3, <2>1 DEF TurnOK
<1> QED
  BY <1>2, <1>3 DEF Threads

(* A step of a thread that sends SIGTERM at most.                           *)
LEMMA MovesOriginal ==
  ASSUME SupervisorAssumption, Original, NEW t \in Threads,
         UNCHANGED <<store, readable, calls, requests, children, lit>>, batch' = <<>>,
         UNCHANGED proc \/ (\E ns : SendTerm(ns)),
         \A s \in Threads \ {t} : at'[s] = at[s],
         Existing' = Existing /\ Held' = Held => TurnOK(t)',
         at[Loop].phase = "start_all" /\ t = Exit => at'[Exit].phase \in {"idle", "join"}
  PROVE  Original'
<1>1. Existing' = Existing /\ Held' = Held
  BY DEF Existing, Held
<1>2. \A n \in Controls : SameChild(n)
  BY <1>1 DEF SameChild
<1>3. ProcsOK' /\ \A n \in Controls : SameProc(n)
  BY <1>2, ProcsKept DEF Original
<1>4. AskedOK' /\ KeptOK'
  BY <1>1, StillAsked DEF Original, AskedOK
<1>5. \A s \in Threads : TurnOK(s)'
  <2>1. \A s \in Threads \ {t} : at[s].step = "safe" => at[s].cur \notin Held'
    BY <1>1 DEF Original, TurnOK
  <2> QED
    BY <1>1, <2>1, TurnsKept DEF Original
<1>6. LitHome' /\ KidsOK'
  BY <1>1 DEF Original, LitHome, KidsOK
<1> QED
  BY <1>3, <1>4, <1>5, <1>6 DEF Original, SameProc

(* A start, from the loop that makes it.                                    *)
LEMMA StartsOriginal ==
  ASSUME SupervisorAssumption, ChildrenOK, FramesOK, Original, NEW n \in Existing, n \notin Held,
         Loop \in Threads, Exit \in Threads,
         Restart(n), NextChild(Loop, n), at[Loop].phase \in {"start_all", "scan"},
         at[Exit].step # "safe" \/ at[Exit].cur # n,
         UNCHANGED <<store, readable, mcpVars, batch, lit>>
  PROVE  Original'
<1>0. n \in Controls /\ Loop # Exit
  BY DEF Existing, SupervisorAssumption
<1>1. /\ KidsOK' /\ ProcsOK' /\ Existing' = Existing /\ Held' \subseteq Held \cup {n}
      /\ \A m \in Controls \ {n} : children'[m] = children[m]
      /\ \A m \in Existing : children'[m].doc \in {children[m].doc, Refreshed(m)}
      /\ \A m \in Controls : proc'[m].stale => proc[m].stale
  BY Starting DEF Original
<1>2. /\ at'[Loop].phase = at[Loop].phase /\ at'[Loop].step = "next" /\ at'[Loop].then = "nothing"
      /\ at'[Loop].left = at[Loop].left \ {n}
      /\ \A s \in Threads \ {Loop} : at'[s] = at[s]
  BY MovesOn
<1>3. AskedOK' /\ KeptOK'
  BY <1>1, StillAsked DEF Original, AskedOK, mcpVars
<1>4. TurnOK(Loop) /\ TurnOK(Exit)
  BY DEF Original
<1>5. TurnOK(Loop)'
  BY <1>0, <1>1, <1>2, <1>4 DEF TurnOK
<1>6. at[Exit].step = "safe" => at[Exit].cur \in Controls \ {n} /\ at[Exit].cur \notin Held
  BY <1>4 DEF TurnOK, Existing
<1>7. \A s \in Threads \ {Loop} : s = Exit
  BY DEF Threads
<1>8. \A s \in Threads : TurnOK(s)'
  <2>1. \A s \in Threads \ {Loop} : at[s].step = "safe" => at[s].cur \notin Held'
    BY <1>1, <1>6, <1>7
  <2>2. at[Exit].step = "safe"
          => children'[at[Exit].cur].restart = children[at[Exit].cur].restart
    BY <1>1, <1>6
  <2> QED
    BY <1>0, <1>1, <1>2, <1>5, <2>1, <2>2, TurnsKept DEF Original
<1>9. LitHome'
  BY <1>1 DEF Original, LitHome
<1> QED
  BY <1>1, <1>3, <1>8, <1>9 DEF Original

(* The end of a process, seen by either thread.                             *)
LEMMA ReleasesOriginal ==
  ASSUME SupervisorAssumption, ChildrenOK, FramesOK, Original, NEW t \in Threads,
         NEW n \in Held, NEW then \in {"nothing", "reap"}, t = Exit => then = "nothing",
         t = Loop => at[t].phase # "start_all", t = Exit => at[t].phase \notin {"idle", "join"},
         Release(n, IF then = "reap" THEN "waiting" ELSE "no"), Handle(t, n, "safe", then),
         UNCHANGED <<store, readable, mcpVars, batch, lit>>
  PROVE  Original'
<1> DEFINE restart == IF then = "reap" THEN "waiting" ELSE "no"
<1>0. restart \in {"no", "waiting", "due"} /\ (t = Exit => restart = "no")
  OBVIOUS
<1>1. /\ KidsOK' /\ ProcsOK' /\ Existing' = Existing /\ Held' = Held \ {n}
      /\ \A m \in Existing : children'[m].doc = children[m].doc
      /\ \A m \in Controls : proc'[m].doc = proc[m].doc /\ proc'[m].stale = proc[m].stale
      /\ \A m \in Controls \ {n} : children'[m] = children[m] /\ proc'[m] = proc[m]
      /\ children'[n].restart = restart
  <2> HIDE DEF restart
  <2>1. Release(n, restart)
    BY DEF restart
  <2> QED
    BY <1>0, <2>1, Releasing DEF Original
<1>2. /\ at'[t].phase = at[t].phase /\ at'[t].step = "safe" /\ at'[t].cur = n
      /\ at'[t].then = then /\ at'[t].left = at[t].left
      /\ \A s \in Threads \ {t} : at'[s] = at[s]
  <2>1. Handle(t, n, "safe", then)
    OBVIOUS
  <2> QED
    BY <2>1, Handling
<1>3. AskedOK' /\ KeptOK'
  BY <1>1, StillAsked DEF Original, AskedOK, mcpVars
<1>4. n \in Existing /\ n \in Controls
  BY DEF Held, Existing
<1> HIDE DEF restart
<1>5. TurnOK(t)'
  BY <1>0, <1>1, <1>2, <1>4 DEF Original, TurnOK
<1>6. \A s \in Threads : TurnOK(s)'
  <2>1. \A s \in Threads \ {t} : at[s].step = "safe" => at[s].cur \notin Held'
    BY <1>1 DEF Original, TurnOK
  <2>2. t = Loop /\ at[Exit].step = "safe"
          => children'[at[Exit].cur].restart = children[at[Exit].cur].restart
    <3> SUFFICES ASSUME t = Loop, at[Exit].step = "safe" PROVE at[Exit].cur \in Controls \ {n}
      BY <1>1
    <3>1. TurnOK(Exit)
      BY DEF Original, Threads
    <3> QED
      BY <3>1 DEF TurnOK, Existing
  <2>3. at[Loop].phase = "start_all" /\ t = Exit => at'[Exit].phase \in {"idle", "join"}
    <3>1. TurnOK(Loop)
      BY DEF Original, Threads
    <3> QED
      BY <3>1 DEF TurnOK
  <2> QED
    BY <1>1, <1>2, <1>5, <2>1, <2>2, <2>3, TurnsKept DEF Original
<1>7. LitHome'
  BY <1>1 DEF Original, LitHome
<1> QED
  BY <1>1, <1>3, <1>6, <1>7 DEF Original

(* Nothing appears in nothing.                                              *)
LEMMA NothingAppears == FirstAppearances(<<>>) = <<>>
<1> DEFINE s == <<>>
           new == {i \in DOMAIN s : \A j \in DOMAIN s : j < i => s[j] # s[i]}
<1>1. new = {}
  OBVIOUS
<1>2. Cardinality(new) = 0
  BY <1>1, FS_EmptySet
<1> HIDE DEF new
<1>3. 1..Cardinality(new) = {}
  BY <1>2
<1>4. FirstAppearances(s) =
        [k \in 1..Cardinality(new) |->
           s[CHOOSE i \in new : Cardinality({j \in new : j <= i}) = k]]
  BY DEF FirstAppearances, new
<1>5. PICK f : f = FirstAppearances(s)
  OBVIOUS
<1>6. f = [k \in {} |-> f[k]]
  BY <1>3, <1>4, <1>5
<1>7. f \in [1..0 -> {}]
  BY <1>6
<1>8. FirstAppearances(s) \in Seq({}) /\ Len(FirstAppearances(s)) = 0
  BY <1>5, <1>7
<1> QED
  BY <1>8, EmptySeq

(* A pass: nothing is asked for, so it starts, reaps and kills only.        *)
LEMMA PollsOriginal ==
  ASSUME SupervisorAssumption, ThreadInv, Original, Polls
  PROVE  Original'
<1>0. /\ ChildrenOK /\ FramesOK /\ Loop \in Threads /\ Exit \in Threads /\ Loop # Exit
      /\ TurnOK(Loop) /\ TurnOK(Exit) /\ requests = <<>> /\ batch = <<>>
  BY DEF ThreadInv, Threads, Original, AskedOK, SupervisorAssumption
<1>1. CASE StartAll
  <2>1. PICK n \in at[Loop].left : Restart(n) /\ NextChild(Loop, n)
    BY <1>1 DEF StartAll
  <2>2. at[Loop].phase = "start_all" /\ UNCHANGED <<store, readable, mcpVars, batch, lit>>
    BY <1>1 DEF StartAll, MayStep, devVars
  <2>3. n \in Existing /\ n \notin Held /\ at[Exit].step = "next"
    BY <1>0, <2>2 DEF TurnOK
  <2> QED
    BY <1>0, <2>1, <2>2, <2>3, StartsOriginal
<1>2. CASE ScanDue
  <2>1. PICK n \in at[Loop].left :
          n \notin Held /\ children[n].restart = "due" /\ Restart(n) /\ NextChild(Loop, n)
    BY <1>2 DEF ScanDue
  <2>2. at[Loop].phase = "scan" /\ UNCHANGED <<store, readable, mcpVars, batch, lit>>
    BY <1>2 DEF ScanDue, MayStep, devVars
  <2>3. n \in Existing /\ (at[Exit].step = "safe" => at[Exit].cur # n)
    BY <1>0, <2>1, <2>2 DEF TurnOK
  <2> QED
    BY <1>0, <2>1, <2>2, <2>3, StartsOriginal
<1>3. CASE ReadEof
  <2>1. PICK n \in Held : Release(n, "waiting") /\ Handle(Loop, n, "safe", "reap")
    BY <1>3 DEF ReadEof
  <2>2. at[Loop].phase = "read" /\ UNCHANGED <<store, readable, mcpVars, batch, lit>>
    BY <1>3 DEF ReadEof, MayStep, devVars
  <2>3. Release(n, IF "reap" = "reap" THEN "waiting" ELSE "no")
    BY <2>1
  <2>4. "reap" \in {"nothing", "reap"} /\ Loop # Exit /\ at[Loop].phase # "start_all"
    BY <1>0, <2>2
  <2> QED
    BY <1>0, <2>1, <2>2, <2>3, <2>4, ReleasesOriginal
<1>4. CASE Drain
  <2>1. batch' = FirstAppearances(<<>>) /\ requests' = <<>> /\ Goto(Loop, "reload", {})
    BY <1>0, <1>4 DEF Drain
  <2>2. batch' = <<>>
    BY <2>1, NothingAppears
  <2>3. UNCHANGED <<store, readable, calls, requests, children, lit>> /\ UNCHANGED proc
    BY <1>0, <1>4, <2>1 DEF Drain, devVars
  <2>4. /\ at'[Loop].phase = "reload" /\ at'[Loop].step = "next" /\ at'[Loop].then = "nothing"
        /\ \A s \in Threads \ {Loop} : at'[s] = at[s]
    BY <1>0, <2>1, GoingTo
  <2>5. TurnOK(Loop)'
    BY <1>0, <2>4 DEF TurnOK
  <2> QED
    BY <1>0, <2>2, <2>3, <2>4, <2>5, MovesOriginal
<1>5. CASE StartsPolling \/ Select \/ Scan \/ PollEnds
  <2>1. PICK phase, left :
          Goto(Loop, phase, left) /\ phase \in {"top", "read", "scan"} /\ (phase = "scan" => left = Existing)
    BY <1>5 DEF StartsPolling, Select, Scan, PollEnds
  <2>2. /\ UNCHANGED <<store, readable, calls, requests, children, lit>> /\ UNCHANGED proc
        /\ batch' = <<>>
    BY <1>0, <1>5 DEF StartsPolling, Select, Scan, PollEnds, mcpVars, devVars
  <2>3. /\ at'[Loop].phase = phase /\ at'[Loop].step = "next" /\ at'[Loop].then = "nothing"
        /\ at'[Loop].left = left /\ \A s \in Threads \ {Loop} : at'[s] = at[s]
    BY <1>0, <2>1, GoingTo
  <2>4. Existing' = Existing => TurnOK(Loop)'
    BY <1>0, <2>1, <2>3 DEF TurnOK
  <2> QED
    BY <1>0, <2>2, <2>3, <2>4, MovesOriginal
<1>6. CASE ScanStalled
  <2>1. PICK n \in Held : SendTerm({n}) /\ Handle(Loop, n, "ending", "reap")
    BY <1>6 DEF ScanStalled
  <2>2. /\ UNCHANGED <<store, readable, calls, requests, children, lit>> /\ batch' = <<>>
        /\ at[Loop].phase = "scan"
    BY <1>0, <1>6 DEF ScanStalled, MayStep, mcpVars, devVars
  <2>3. /\ at'[Loop].phase = at[Loop].phase /\ at'[Loop].step = "ending"
        /\ at'[Loop].then = "reap" /\ at'[Loop].left = at[Loop].left
        /\ \A s \in Threads \ {Loop} : at'[s] = at[s]
    BY <1>0, <2>1, Handling
  <2>4. Existing' = Existing => TurnOK(Loop)'
    BY <1>0, <2>2, <2>3 DEF TurnOK
  <2> QED
    BY <1>0, <2>1, <2>2, <2>3, <2>4, MovesOriginal
<1>7. CASE ScanPasses
  <2>1. PICK n : NextChild(Loop, n)
    BY <1>7 DEF ScanPasses
  <2>2. /\ UNCHANGED <<store, readable, calls, requests, children, lit>> /\ batch' = <<>>
        /\ UNCHANGED proc /\ at[Loop].phase = "scan"
    BY <1>0, <1>7 DEF ScanPasses, MayStep, mcpVars, devVars
  <2>3. /\ at'[Loop].phase = at[Loop].phase /\ at'[Loop].step = "next"
        /\ at'[Loop].then = "nothing" /\ at'[Loop].left = at[Loop].left \ {n}
        /\ \A s \in Threads \ {Loop} : at'[s] = at[s]
    BY <1>0, <2>1, MovesOn
  <2>4. Existing' = Existing => TurnOK(Loop)'
    BY <1>0, <2>2, <2>3 DEF TurnOK
  <2> QED
    BY <1>0, <2>2, <2>3, <2>4, MovesOriginal
<1>8. CASE LoopStops
  <2>1. StopAll(Loop) /\ at[Loop].phase = "top"
    BY <1>8 DEF LoopStops, MayStep
  <2>2. /\ UNCHANGED <<store, readable, calls, requests, children, lit>> /\ batch' = <<>>
    BY <1>0, <1>8 DEF LoopStops, mcpVars, devVars
  <2>3. /\ TurnOK(Loop)' /\ \A s \in Threads \ {Loop} : at'[s] = at[s]
        /\ UNCHANGED proc \/ (\E ns : SendTerm(ns))
    <3>1. PICK phase, left : Goto(Loop, phase, left) /\ phase \in {"walk", "done"}
      BY <2>1 DEF StopAll
    <3>2. /\ at'[Loop].phase = phase /\ at'[Loop].step = "next" /\ at'[Loop].then = "nothing"
          /\ \A s \in Threads \ {Loop} : at'[s] = at[s]
      BY <1>0, <3>1, GoingTo
    <3>3. TurnOK(Loop)'
      BY <1>0, <3>1, <3>2 DEF TurnOK
    <3>4. UNCHANGED proc \/ (\E ns : SendTerm(ns))
      BY <2>1 DEF StopAll
    <3> QED
      BY <3>2, <3>3, <3>4
  <2> QED
    BY <1>0, <2>2, <2>3, MovesOriginal
<1>9. ~ReloadRemoves /\ ~ReloadFails /\ ~ReloadStarts /\ ~ReloadRestarts
  BY <1>0 DEF ReloadRemoves, ReloadFails, ReloadStarts, ReloadRestarts, NextReload, MayStep, TurnOK
<1> QED
  BY <1>1, <1>2, <1>3, <1>4, <1>5, <1>6, <1>7, <1>8, <1>9 DEF Polls

(* Neither thread walks, waits or makes safe to a control's loss.           *)
LEMMA HandlesOriginal ==
  ASSUME SupervisorAssumption, ThreadInv, Original, NEW t \in Threads, Handles(t)
  PROVE  Original'
<1>0. /\ ChildrenOK /\ FramesOK /\ Loop \in Threads /\ Exit \in Threads /\ Loop # Exit
      /\ TurnOK(Loop) /\ TurnOK(Exit) /\ TurnOK(t) /\ requests = <<>> /\ batch = <<>>
  BY DEF ThreadInv, Threads, Original, AskedOK, SupervisorAssumption
<1>1. CASE Ended(t)
  <2> DEFINE n == at[t].cur
             then == at[t].then
  <2>1. /\ n \in Held /\ at[t].step = "ending" /\ Release(n, RestartAfter(then))
        /\ Handle(t, n, "safe", then) /\ UNCHANGED <<store, readable, mcpVars, batch, lit>>
    BY <1>1 DEF Ended, MayStep, devVars
  <2>2. then \in {"nothing", "reap"} /\ (t = Exit => then = "nothing")
    BY <1>0 DEF TurnOK
  <2>3. RestartAfter(then) = IF then = "reap" THEN "waiting" ELSE "no"
    BY <2>2 DEF RestartAfter
  <2>4. Release(n, IF then = "reap" THEN "waiting" ELSE "no")
    BY <2>1, <2>3
  <2>5. t = Loop => at[t].phase # "start_all"
    BY <1>0, <2>1 DEF TurnOK
  <2>6. t = Exit => at[t].phase \notin {"idle", "join"}
    BY <1>0, <2>1 DEF TurnOK
  <2> HIDE DEF n, then
  <2> QED
    BY <1>0, <2>1, <2>2, <2>4, <2>5, <2>6, ReleasesOriginal
<1>2. CASE MakeSafe(t)
  <2> DEFINE n == at[t].cur
             off == UNION {Reached(d) : d \in DocumentsFor(n)}
  <2>1. /\ at[t].step = "safe" /\ lit' = [d \in Devices |-> IF d \in off THEN NoOne ELSE lit[d]]
        /\ children' = [children EXCEPT ![n] = IF at[t].then = "remove" THEN NoChild ELSE children[n]]
        /\ IF at[t].then = "restart" THEN Handle(t, n, "restart", "nothing") ELSE NextChild(t, n)
        /\ UNCHANGED <<store, readable, mcpVars, batch, proc>>
    BY <1>2 DEF MakeSafe, MayStep
  <2>2. at[t].then \notin {"remove", "restart"}
    BY <1>0 DEF TurnOK
  <2>3. UNCHANGED children
    BY <1>0, <2>1, <2>2 DEF ChildrenOK
  <2>4. Existing' = Existing /\ Held' = Held
    BY <2>3 DEF Existing, Held
  <2>5. /\ at'[t].phase = at[t].phase /\ at'[t].step = "next" /\ at'[t].then = "nothing"
        /\ at'[t].left = at[t].left \ {n}
        /\ \A s \in Threads \ {t} : at'[s] = at[s]
    BY <1>0, <2>1, <2>2, MovesOn
  <2>6. TurnOK(t)'
    BY <1>0, <2>1, <2>4, <2>5 DEF TurnOK
  <2>7. \A s \in Threads : TurnOK(s)'
    <3>1. \A s \in Threads : at[s].step = "safe" => at[s].cur \notin Held'
      BY <2>4 DEF Original, TurnOK
    <3>2. at[Loop].phase = "start_all" /\ t = Exit => at'[Exit].phase \in {"idle", "join"}
      BY <1>0, <2>5 DEF TurnOK
    <3> QED
      BY <2>3, <2>4, <2>5, <2>6, <3>1, <3>2, TurnsKept DEF Original
  <2>8. ProcsOK'
    <3>1. \A m \in Controls : SameChild(m)
      BY <2>3, <2>4 DEF SameChild
    <3> QED
      BY <2>1, <3>1, ProcsKept DEF Original
  <2>9. AskedOK' /\ KeptOK' /\ KidsOK'
    <3>1. AskedOK' /\ KeptOK'
      BY <1>0, <2>1, <2>3, <2>4, StillAsked DEF mcpVars
    <3> QED
      BY <2>3, <2>4, <3>1 DEF Original, KidsOK
  <2>10. LitHome'
    BY <2>1, <2>4 DEF Original, LitHome, SupervisorAssumption
  <2> QED
    BY <2>1, <2>7, <2>8, <2>9, <2>10 DEF Original
<1>3. CASE EndedElsewhere(t) \/ WalkBreaks(t) \/ WalkEnds(t)
  <2>1. Goto(t, "done", {})
    BY <1>3 DEF EndedElsewhere, WalkBreaks, WalkEnds
  <2>2. /\ UNCHANGED <<store, readable, calls, requests, children, lit>> /\ UNCHANGED proc
        /\ batch' = <<>> /\ (at[t].step = "ending" \/ at[t].phase = "walk")
    BY <1>0, <1>3 DEF EndedElsewhere, WalkBreaks, WalkEnds, MayStep, mcpVars, devVars
  <2>3. /\ at'[t].phase = "done" /\ at'[t].step = "next" /\ at'[t].then = "nothing"
        /\ \A s \in Threads \ {t} : at'[s] = at[s]
    BY <1>0, <2>1, GoingTo
  <2>4. TurnOK(t)' /\ (at[Loop].phase = "start_all" => t # Exit)
    BY <1>0, <2>2, <2>3 DEF TurnOK
  <2> QED
    BY <1>0, <2>2, <2>3, <2>4, MovesOriginal
<1>4. CASE Walk(t)
  <2>1. PICK n \in at[t].left :
          IF n \in Held THEN Handle(t, n, "ending", "nothing") ELSE NextChild(t, n)
    BY <1>4 DEF Walk
  <2>2. /\ UNCHANGED <<store, readable, calls, requests, children, lit>> /\ UNCHANGED proc
        /\ batch' = <<>> /\ at[t].phase = "walk"
    BY <1>0, <1>4 DEF Walk, MayStep, mcpVars, devVars
  <2>3. /\ at'[t].phase = "walk" /\ at'[t].step \in {"next", "ending"} /\ at'[t].then = "nothing"
        /\ \A s \in Threads \ {t} : at'[s] = at[s]
    <3>1. CASE n \in Held
      <4>1. Handle(t, n, "ending", "nothing")
        BY <2>1, <3>1
      <4> QED
        BY <1>0, <2>2, <4>1, Handling
    <3>2. CASE n \notin Held
      BY <1>0, <2>1, <2>2, <3>2, MovesOn
    <3> QED
      BY <3>1, <3>2
  <2>4. TurnOK(t)' /\ (at[Loop].phase = "start_all" => t # Exit)
    BY <1>0, <2>2, <2>3 DEF TurnOK
  <2> QED
    BY <1>0, <2>2, <2>3, <2>4, MovesOriginal
<1> QED
  BY <1>1, <1>2, <1>3, <1>4 DEF Handles

(* The exit handler asks, waits, and walks the children if it must.         *)
LEMMA ExitsOriginal ==
  ASSUME SupervisorAssumption, ThreadInv, Original, Shutdown \/ Exits
  PROVE  Original'
<1>0. /\ FramesOK /\ Loop \in Threads /\ Exit \in Threads /\ Loop # Exit
      /\ TurnOK(Loop) /\ TurnOK(Exit) /\ requests = <<>> /\ batch = <<>>
  BY DEF ThreadInv, Threads, Original, AskedOK, SupervisorAssumption
<1>1. /\ UNCHANGED <<store, readable, calls, requests, children, lit>> /\ batch' = <<>>
  BY <1>0 DEF Shutdown, Exits, Joined, JoinTimesOut, JoinedAgain, mcpVars, devVars
<1>2. PICK phase, left :
        Goto(Exit, phase, left) /\ (phase = "join" \/ at[Loop].phase = "done" \/ at[Loop].step = "safe")
  BY DEF Shutdown, Exits, Joined, JoinTimesOut, JoinedAgain, StopAll
<1>3. UNCHANGED proc \/ (\E ns : SendTerm(ns))
  BY DEF Shutdown, Exits, Joined, JoinTimesOut, JoinedAgain, StopAll
<1>4. /\ at'[Exit].phase = phase /\ at'[Exit].step = "next" /\ at'[Exit].then = "nothing"
      /\ \A s \in Threads \ {Exit} : at'[s] = at[s]
  BY <1>0, <1>2, GoingTo
<1>5. TurnOK(Exit)'
  BY <1>0, <1>4 DEF TurnOK
<1>6. at[Loop].phase = "start_all" => at'[Exit].phase \in {"idle", "join"}
  BY <1>0, <1>2, <1>4 DEF TurnOK
<1> QED
  BY <1>0, <1>1, <1>3, <1>4, <1>5, <1>6, MovesOriginal

(* A process reads its document once, and then keeps to it.                 *)
LEMMA WhatIsRead ==
  ASSUME ProcsOK, NEW n \in Controls, Runs(n), NEW m \in Controls
  PROVE  \/ proc'[m].doc = proc[m].doc /\ proc'[m].stale = proc[m].stale
         \/ /\ m = n /\ Load(n) /\ Usable(store[n])
            /\ proc'[m].doc = store[n] /\ proc'[m].stale = (store[n] # children[n].doc)
<1>1. CASE m # n
  <2>1. proc'[m] = proc[m]
    BY <1>1 DEF Runs, Load, AssertStart, Cycle, Terminated, Leave, Fails, Crash, Hang, Wake,
      Becomes, ProcsOK
  <2> QED
    BY <2>1
<1>2. proc[n] = [f \in ProcFields |-> proc[n][f]]
  BY DEF ProcsOK, ProcOK
<1>3. CASE m = n /\ Load(n) /\ Usable(store[n])
  <2>1. PICK stale : stale = (store[n] # children[n].doc)
    OBVIOUS
  <2>2. proc'[n] = [proc[n] EXCEPT !.phase = "asserting", !.doc = store[n], !.stale = stale]
    BY <1>3, <2>1 DEF Load, ProcsOK
  <2>3. proc'[n].doc = store[n] /\ proc'[n].stale = stale
    BY <1>2, <2>2 DEF ProcFields
  <2> QED
    BY <1>3, <2>1, <2>3
<1>4. CASE m = n /\ ~(Load(n) /\ Usable(store[n]))
  <2>1. PICK phase, term : proc'[n] = [proc[n] EXCEPT !.phase = phase, !.term = term]
    <3>1. CASE Cycle(n)
      <4>1. proc'[n] = [proc[n] EXCEPT !.phase = proc[n].phase, !.term = proc[n].term]
        BY <1>2, <3>1 DEF Cycle, ProcsOK, ProcFields
      <4> QED
        BY <4>1
    <3>2. CASE Terminated(n)
      <4>1. \E phase : proc'[n] = [proc[n] EXCEPT !.term = FALSE, !.phase = phase]
        BY <3>2 DEF Terminated, ProcsOK
      <4>2. \A phase : [proc[n] EXCEPT !.term = FALSE, !.phase = phase]
                        = [proc[n] EXCEPT !.phase = phase, !.term = FALSE]
        BY <1>2 DEF ProcFields
      <4> QED
        BY <4>1, <4>2
    <3>3. CASE ~Terminated(n) /\ ~Cycle(n)
      <4>1. \E phase : Becomes(n, phase)
        BY <1>4, <3>3 DEF Runs, Load, AssertStart, Leave, Fails, Crash, Hang, Wake
      <4>2. PICK phase : proc'[n] = [proc[n] EXCEPT !.phase = phase]
        BY <4>1 DEF Becomes, ProcsOK
      <4>3. [proc[n] EXCEPT !.phase = phase] = [proc[n] EXCEPT !.phase = phase, !.term = proc[n].term]
        BY <1>2 DEF ProcFields
      <4> QED
        BY <4>2, <4>3
    <3> QED
      BY <3>1, <3>2, <3>3
  <2> QED
    BY <1>2, <1>4, <2>1 DEF ProcFields
<1> QED
  BY <1>1, <1>3, <1>4

(* What a process does with the devices its document names.                 *)
LEMMA RunsOriginal ==
  ASSUME SupervisorAssumption, ThreadInv, Original, NEW n \in Controls, Runs(n)
  PROVE  Original'
<1>1. UNCHANGED <<store, readable, calls, requests, children, at, batch>>
  BY DEF Runs, Load, AssertStart, Cycle, Terminated, Leave, Fails, Crash, Hang, Wake,
    othersVars, supVars, mcpVars
<1>2. Existing' = Existing /\ Held' = Held
  BY <1>1 DEF Existing, Held
<1>3. ProcsOK' /\ ProcsOK
  BY RunsKeep DEF Original
<1>4. AskedOK' /\ KeptOK' /\ KidsOK'
  <2>1. AskedOK' /\ KeptOK'
    BY <1>1, <1>2, StillAsked DEF Original, AskedOK
  <2> QED
    BY <1>1, <1>2, <2>1 DEF Original, KidsOK
<1>5. \A t \in Threads : TurnOK(t)'
  BY <1>1, <1>2 DEF Original, TurnOK
<1>6. ASSUME NEW m \in Controls PROVE ~proc'[m].stale
  <2>1. CASE m = n /\ Load(n) /\ Usable(store[n]) /\ proc'[m].stale = (store[n] # children[n].doc)
    <3>1. n \in Existing
      BY <1>3, <2>1 DEF ProcsOK, ProcOK, Load, Held
    <3> QED
      BY <2>1, <3>1 DEF Original, KeptOK
  <2>2. CASE proc'[m].stale = proc[m].stale
    BY <2>2 DEF Original
  <2> QED
    BY <1>3, <2>1, <2>2, WhatIsRead
<1>7. LitHome'
  <2>1. CASE UNCHANGED lit
    BY <1>1, <1>2, <2>1 DEF Original, LitHome
  <2>2. ASSUME NEW devs, SwitchOff(devs) PROVE LitHome'
    BY <1>1, <1>2, <2>2 DEF Original, LitHome, SwitchOff, SupervisorAssumption
  <2>3. CASE Cycle(n)
    <3>1. n \in Existing /\ proc[n].doc = store[n]
      BY <2>3, RunsItsOwn DEF Cycle, Alive
    <3>2. PICK on \in SUBSET Targets(store[n]) :
            lit' = [d \in Devices |->
                      IF d \notin Reached(store[n]) THEN lit[d]
                      ELSE IF d \in on /\ Targets(store[n]) \subseteq reach THEN n ELSE NoOne]
      BY <2>3, <3>1 DEF Cycle
    <3>3. lit' \in [Devices -> Controls \cup {NoOne}]
      BY <3>2 DEF Original, LitHome
    <3>4. ASSUME NEW m \in Controls, NEW d \in Devices, lit'[d] = m
          PROVE  m \in Existing /\ d \in Targets(store[m])
      <4>1. lit[d] = m \/ (m = n /\ d \in on)
        BY <3>2, <3>4 DEF SupervisorAssumption
      <4> QED
        BY <3>1, <3>2, <4>1 DEF Original, LitHome
    <3> QED
      BY <1>1, <1>2, <3>3, <3>4 DEF LitHome
  <2> QED
    BY <2>1, <2>2, <2>3 DEF Runs, Load, AssertStart, Terminated, Leave, Fails, Crash, Hang, Wake,
      devVars
<1> QED
  BY <1>3, <1>4, <1>5, <1>6, <1>7 DEF Original

(* The end of a backoff, and an outage or its end.                          *)
LEMMA TimeOriginal ==
  ASSUME SupervisorAssumption, ThreadInv, Original,
         \/ \E n \in Controls : BackoffEnds(n)
         \/ \E d \in Devices : Outage(d) \/ Recovers(d)
         \/ UNCHANGED vars
  PROVE  Original'
<1>0. ChildrenOK /\ Exit \in Threads
  BY DEF ThreadInv, Threads
<1>1. CASE UNCHANGED <<store, readable, mcpVars, supVars, proc, lit>>
  <2>1. Existing' = Existing /\ Held' = Held
    BY <1>1 DEF Existing, Held, supVars
  <2> QED
    BY <1>1, <2>1 DEF Original, AskedOK, KeptOK, KidsOK, ProcsOK, ProcOK, LitHome, TurnOK, Usable,
      mcpVars, supVars
<1>2. ASSUME NEW n \in Controls, BackoffEnds(n) PROVE Original'
  <2>1. /\ n \in Existing /\ children[n].restart = "waiting"
        /\ children' = [children EXCEPT ![n] = [children[n] EXCEPT !.restart = "due"]]
        /\ UNCHANGED <<store, readable, mcpVars, at, batch, stop, proc, lit>>
    BY <1>0, <1>2 DEF BackoffEnds, ChildrenOK, devVars
  <2>2. /\ \A m \in Controls \ {n} : children'[m] = children[m]
        /\ children'[n] = [children[n] EXCEPT !.restart = "due"]
    BY <1>0, <2>1 DEF ChildrenOK
  <2>3. children[n] \in Child
    BY <2>1 DEF Original, KidsOK
  <2>4. /\ children'[n] \in Child /\ children'[n].doc = children[n].doc
        /\ children'[n].held = children[n].held
    BY <2>2, <2>3 DEF Child
  <2>5. children'[n] # NoChild
    BY <2>4 DEF Child, SupervisorAssumption
  <2>6. Existing' = Existing
    BY <2>1, <2>2, <2>5 DEF Existing
  <2>7. Held' = Held
    BY <2>1, <2>2, <2>4, <2>6 DEF Held, Existing
  <2>8. \A m \in Existing : children'[m].doc = children[m].doc
    BY <2>2, <2>4 DEF Existing
  <2>9. ProcsOK'
    <3>1. \A m \in Controls : SameChild(m)
      BY <2>7, <2>8 DEF SameChild, Held
    <3> QED
      BY <2>1, <3>1, ProcsKept DEF Original
  <2>10. AskedOK' /\ KeptOK'
    BY <2>1, <2>6, <2>8, StillAsked DEF Original, AskedOK, mcpVars
  <2>11. KidsOK'
    BY <2>2, <2>4, <2>6 DEF Original, KidsOK, Existing
  <2>12. \A t \in Threads : TurnOK(t)'
    <3> SUFFICES ASSUME NEW t \in Threads PROVE TurnOK(t)'
      OBVIOUS
    <3>1. TurnOK(t) /\ at' = at
      BY <2>1 DEF Original
    <3>2. t = Exit /\ at[t].step = "safe" => children'[at[t].cur] = children[at[t].cur]
      BY <2>1, <2>2, <3>1 DEF TurnOK, Existing
    <3> QED
      BY <2>6, <2>7, <3>1, <3>2 DEF TurnOK
  <2>13. LitHome'
    BY <2>1, <2>6 DEF Original, LitHome
  <2> QED
    BY <2>1, <2>9, <2>10, <2>11, <2>12, <2>13 DEF Original
<1> QED
  BY <1>1, <1>2 DEF Outage, Recovers, othersVars, vars, devVars

OriginalInv == ThreadInv /\ SpentOK /\ (AsAtStart => Original)

LEMMA OriginalStart == SupervisorAssumption /\ Init => OriginalInv
<1> SUFFICES ASSUME SupervisorAssumption, Init PROVE OriginalInv
  OBVIOUS
<1>1. PICK kept \in SUBSET Controls :
        /\ Supervised(kept, store, readable)
        /\ children = [n \in Controls |->
                         IF n \in kept THEN [doc |-> store[n], restart |-> "no", held |-> FALSE]
                         ELSE NoChild]
        /\ at = [t \in Threads |->
                   [phase |-> IF t = Loop THEN "start_all" ELSE "idle", step |-> "next",
                    cur |-> NoOne, then |-> "nothing", seen |-> {},
                    left |-> IF t = Loop THEN kept ELSE {}]]
  BY DEF Init
<1>2. Loop \in Threads /\ Exit \in Threads /\ Loop # Exit
  BY DEF Threads, SupervisorAssumption
<1>3. Quiet
  BY QuietStart DEF QuietInv, Init, Bounds
<1>4. \A n \in kept : readable /\ ControlIsEnabled(store[n])
  BY <1>1 DEF Supervised
<1>5. \A n \in kept : children[n] \in Child
  BY <1>1, <1>4 DEF Child, ControlIsEnabled
<1>6. Existing = kept /\ Held = {}
  <2>1. NoChild \notin Child
    BY DEF Child, SupervisorAssumption
  <2>2. Existing = kept
    BY <1>1, <1>5, <2>1 DEF Existing
  <2>3. \A n \in kept : children[n].held = FALSE
    BY <1>1
  <2> QED
    BY <2>2, <2>3 DEF Held
<1>7. KeptOK
  <2>1. ASSUME NEW m \in kept, NEW n \in kept, m < n PROVE ~MayShare(store[m], store[n])
    BY <1>1, <1>4, <2>1 DEF Supervised
  <2>2. \A m, n \in kept : m # n => m < n \/ n < m
    BY DEF SupervisorAssumption
  <2>3. \A m, n \in kept : m # n => ~MayShare(store[m], store[n])
    BY <2>1, <2>2, SharingIsMutual
  <2> QED
    BY <1>1, <1>4, <1>6, <2>3 DEF KeptOK, Usable, ControlIsEnabled
<1>8. AskedOK /\ LitHome /\ \A n \in Controls : ~proc[n].stale
  BY DEF Init, AskedOK, NoCall, LitHome, SupervisorAssumption
<1>9. \A t \in Threads : TurnOK(t)
  BY <1>1, <1>2, <1>6 DEF TurnOK
<1> QED
  BY <1>3, <1>7, <1>8, <1>9, QuietStart DEF OriginalInv, QuietInv, Quiet, Original

(* While nothing has been written, no call is in the middle of a write.     *)
LEMMA NobodyWrites ==
  ASSUME SpentOK, AskedOK, Tools \/ EditByHand
  PROVE  ~AsAtStart'
<1>1. \A what \in {"writes", "edits"} : Spend(what) => ~AsAtStart'
  BY DEF Spend, AsAtStart, SpentOK, Bounds
<1> QED
  BY <1>1 DEF Tools, Save, SetEnabled, DeleteControl, StoreControl, StoreFails, RequestReload,
    EditByHand, AskedOK

LEMMA OriginalStep == SupervisorAssumption /\ OriginalInv /\ [Next]_vars => OriginalInv'
<1> SUFFICES ASSUME SupervisorAssumption, OriginalInv, [Next]_vars PROVE OriginalInv'
  OBVIOUS
<1>1. ThreadInv' /\ ThreadInv
  BY ThreadsKeep DEF OriginalInv
<1>2. SpentOK' /\ \A b \in DOMAIN Bounds : spent[b] <= spent'[b]
  BY SpentGrows DEF OriginalInv
<1>3. ASSUME AsAtStart' PROVE Original'
  <2>1. Original
    BY <1>2, <1>3 DEF OriginalInv, AsAtStart, SpentOK, Bounds
  <2>2. ~Tools /\ ~EditByHand
    BY <1>3, <2>1, NobodyWrites DEF OriginalInv, Original
  <2> QED
    BY <1>1, <2>1, <2>2, PollsOriginal, HandlesOriginal, ExitsOriginal, RunsOriginal, TimeOriginal
       DEF Next
<1> QED
  BY <1>1, <1>2, <1>3 DEF OriginalInv

(* Whatever documents are found at the start, and whichever of them clash,   *)
(* until one changes two control processes never command one device, also    *)
(* where both threads handle the children (__init__, make_safe).             *)
THEOREM OneOwnerFromTheStart ==
  ASSUME SupervisorAssumption
  PROVE  Safety => []OneOwnerAtStart
<1>1. SupervisorAssumption /\ OriginalInv => OneOwnerAtStart
  <2> SUFFICES ASSUME SupervisorAssumption, OriginalInv, AsAtStart,
                      NEW m \in Controls, NEW n \in Controls, m # n,
                      proc[m].phase = "running", proc[n].phase = "running"
               PROVE  Targets(proc[m].doc) \cap Targets(proc[n].doc) = {}
    BY DEF OneOwnerAtStart, OneOwner
  <2>1. Original
    BY DEF OriginalInv
  <2>2. /\ m \in Existing /\ proc[m].doc = store[m]
        /\ n \in Existing /\ proc[n].doc = store[n]
    BY <2>1, RunsItsOwn DEF Alive
  <2>3. ~MayShare(store[m], store[n])
    BY <2>1, <2>2 DEF Original, KeptOK
  <2> QED
    BY <2>2, <2>3, NothingShared
<1> QED
  BY <1>1, OriginalStart, OriginalStep, PTL DEF Safety

(* Until a document changes, what a running control has energised is        *)
(* switched off by nothing but a cycle of its own: not by another control's  *)
(* start or end, nor by either thread making another control safe            *)
(* (make_safe, assert_starting_state, DeviceGuard.stop).                     *)
THEOREM NobodyDisturbs ==
  ASSUME SupervisorAssumption
  PROVE  Safety => Undisturbed
<1> DEFINE Kept == \A n \in Controls, d \in Devices :
                     lit[d] = n /\ lit'[d] # n /\ proc[n].phase = "running" => Cycle(n)
<1>1. SupervisorAssumption /\ OriginalInv /\ OriginalInv' /\ [Next]_vars => [AsAtStart' => Kept]_vars
  <2> SUFFICES ASSUME SupervisorAssumption, OriginalInv, OriginalInv', Next, AsAtStart',
                      NEW n \in Controls, NEW d \in Devices,
                      lit[d] = n, lit'[d] # n, proc[n].phase = "running"
               PROVE  Cycle(n)
    OBVIOUS
  <2>1. Original
    <3>1. \A b \in DOMAIN Bounds : spent[b] <= spent'[b]
      BY SpentGrows DEF OriginalInv
    <3> QED
      BY <3>1 DEF OriginalInv, AsAtStart, SpentOK, Bounds
  <2>2. n \in Held /\ n \in Existing /\ d \in Targets(store[n])
    BY <2>1, RunsItsOwn DEF Alive, Original, LitHome
  <2>3. ASSUME NEW m \in Existing, m # n PROVE d \notin Reached(store[m])
    <3>1. ~MayShare(store[m], store[n])
      BY <2>1, <2>2, <2>3 DEF Original, KeptOK
    <3> QED
      BY <2>2, <3>1, NothingShared, ReachedAreTargets
  <2>4. ASSUME NEW t \in Threads, MakeSafe(t) PROVE FALSE
    <3> DEFINE m == at[t].cur
               off == UNION {Reached(e) : e \in DocumentsFor(m)}
    <3>1. lit' = [e \in Devices |-> IF e \in off THEN NoOne ELSE lit[e]] /\ at[t].step = "safe"
      BY <2>4 DEF MakeSafe, MayStep
    <3>2. m \in Existing /\ m # n
      BY <2>1, <2>2, <3>1 DEF Original, TurnOK
    <3>3. DocumentsFor(m) = {store[m]}
      BY <2>1, <3>2 DEF DocumentsFor, Original, KeptOK, Usable, SupervisorAssumption
    <3> QED
      BY <2>3, <3>1, <3>2, <3>3
  <2>5. ASSUME NEW m \in Controls, Runs(m), m # n PROVE FALSE
    <3>1. CASE AssertStart(m) \/ Leave(m) \/ Cycle(m)
      <4>1. proc[m].phase \in Alive \ {"loading"}
        BY <3>1 DEF AssertStart, Leave, Cycle, Alive
      <4>2. m \in Existing /\ proc[m].doc = store[m]
        BY <2>1, <4>1, RunsItsOwn
      <4>3. d \notin Reached(proc[m].doc)
        BY <2>3, <2>5, <4>2
      <4> QED
        BY <3>1, <4>3 DEF AssertStart, Leave, Cycle, SwitchOff
    <3>2. CASE UNCHANGED lit
      BY <3>2
    <3> QED
      BY <2>5, <3>1, <3>2 DEF Runs, Load, Terminated, Fails, Crash, Hang, Wake, devVars
  <2>6. ASSUME Runs(n) PROVE Cycle(n)
    <3>1. UNCHANGED lit \/ Cycle(n)
      BY <2>6 DEF Runs, Load, AssertStart, Leave, Terminated, Fails, Crash, Hang, Wake, devVars
    <3> QED
      BY <3>1
  <2>7. CASE UNCHANGED lit
    BY <2>7
  <2>8. Tools \/ EditByHand \/ Polls \/ Shutdown \/ Exits => UNCHANGED lit
    BY DEF Tools, Save, SetEnabled, DeleteControl, StoreControl, StoreFails, RequestReload,
      EditByHand, Polls, StartAll, StartsPolling, Drain, ReloadRemoves, ReloadFails, ReloadStarts,
      ReloadRestarts, Select, ReadEof, Scan, ScanStalled, ScanDue, ScanPasses, PollEnds, LoopStops,
      Shutdown, Exits, Joined, JoinTimesOut, JoinedAgain, devVars
  <2>9. \A t \in Threads : Handles(t) => UNCHANGED lit \/ MakeSafe(t)
    BY DEF Handles, Ended, EndedElsewhere, Walk, WalkBreaks, WalkEnds, devVars
  <2>10. /\ \A m \in Controls : BackoffEnds(m) => UNCHANGED lit
         /\ \A e \in Devices : Outage(e) \/ Recovers(e) => UNCHANGED lit
    BY DEF BackoffEnds, Outage, Recovers, devVars
  <2> QED
    BY <2>4, <2>5, <2>6, <2>7, <2>8, <2>9, <2>10 DEF Next
<1> QED
  BY <1>1, OriginalStart, OriginalStep, PTL DEF Safety, Undisturbed

-----------------------------------------------------------------------------
(* What is asked for takes effect, where no document is edited by hand and  *)
(* no join has timed out.                                                   *)

Values(s) == {s[i] : i \in DOMAIN s}

(* A sequence, of whatever it holds.                                        *)
Listed(s) == s \in Seq(Values(s))

(* A non-empty set of numbers has a least one.                              *)
LEMMA LeastNumber ==
  ASSUME NEW T, T \subseteq Nat, T # {}
  PROVE  \E n \in T : \A m \in T : n <= m
<1>1. PICK Less : Less = {p \in Nat \X Nat : p[1] < p[2]} /\ IsWellFoundedOn(Less, Nat)
  BY NatLessThanWellFounded DEF OpToRel
<1>2. PICK n \in T : \A m \in T : <<m, n>> \notin Less
  BY <1>1, WFMin
<1>3. ASSUME NEW m \in T PROVE n <= m
  <2>1. <<m, n>> \in Nat \X Nat /\ <<m, n>> \notin Less
    BY <1>2
  <2>2. ~(m < n)
    BY <1>1, <2>1
  <2> QED
    BY <2>2
<1> QED
  BY <1>3

(* Every name asked for appears once the requests are drained.              *)
LEMMA AllAppear ==
  ASSUME NEW X, NEW s \in Seq(X)
  PROVE  Listed(FirstAppearances(s)) /\ Values(s) \subseteq Values(FirstAppearances(s))
<1> DEFINE new == {i \in DOMAIN s : \A j \in DOMAIN s : j < i => s[j] # s[i]}
           upTo(i) == {j \in new : j <= i}
           rank(i) == Cardinality(upTo(i))
           nth(k) == CHOOSE i \in new : rank(i) = k
           f == FirstAppearances(s)
<1>1. f = [k \in 1..Cardinality(new) |-> s[nth(k)]]
  BY DEF FirstAppearances
<1>2. DOMAIN s = 1..Len(s) /\ Len(s) \in Nat /\ new \subseteq 1..Len(s) /\ new \subseteq Nat
  OBVIOUS
<1>3. IsFiniteSet(new) /\ Cardinality(new) \in Nat
  <2>1. IsFiniteSet(1..Len(s))
    BY <1>2, FS_Interval
  <2> HIDE DEF new
  <2> QED
    BY <1>2, <2>1, FS_Subset, FS_CardinalityType
<1>4. Listed(f)
  <2> DEFINE n == Cardinality(new)
  <2>1. f = [k \in 1..n |-> f[k]] /\ DOMAIN f = 1..n /\ n \in Nat
    BY <1>1, <1>3
  <2> HIDE DEF f, n
  <2>2. f \in [1..n -> Values(f)]
    BY <2>1 DEF Values
  <2> QED
    BY <2>1, <2>2 DEF Listed
<1> HIDE DEF f
<1>5. ASSUME NEW i \in new
      PROVE  IsFiniteSet(upTo(i)) /\ rank(i) \in 1..Cardinality(new)
  <2>1. upTo(i) \in SUBSET new /\ i \in upTo(i)
    BY <1>2
  <2> HIDE DEF upTo, new
  <2>2. IsFiniteSet(upTo(i)) /\ Cardinality(upTo(i)) <= Cardinality(new)
    BY <1>3, <2>1, FS_Subset
  <2>3. Cardinality(upTo(i)) \in Nat /\ Cardinality(upTo(i)) # 0
    BY <2>1, <2>2, FS_CardinalityType, FS_EmptySet
  <2> QED
    BY <1>3, <2>2, <2>3
<1>6. ASSUME NEW i \in new, NEW j \in new, i < j PROVE rank(i) # rank(j)
  <2>1. upTo(i) \in SUBSET upTo(j) /\ j \in upTo(j) /\ j \notin upTo(i)
    BY <1>2, <1>6
  <2>2. IsFiniteSet(upTo(j))
    BY <1>5
  <2> HIDE DEF upTo, new
  <2> QED
    BY <2>1, <2>2, FS_Subset
<1>7. ASSUME NEW i \in new PROVE nth(rank(i)) = i
  <2> DEFINE j == nth(rank(i))
  <2>1. j \in new /\ rank(j) = rank(i)
    <3> HIDE DEF rank, new
    <3> QED
      OBVIOUS
  <2> HIDE DEF j, rank
  <2>2. i \in Nat /\ j \in Nat
    BY <1>2, <2>1
  <2>3. ~(i < j) /\ ~(j < i)
    BY <1>6, <2>1
  <2>4. j = i
    BY <2>2, <2>3
  <2> QED
    BY <2>4 DEF j
<1>8. ASSUME NEW i \in new PROVE s[i] \in Values(f)
  <2>1. rank(i) \in DOMAIN f /\ f[rank(i)] = s[nth(rank(i))]
    <3>1. rank(i) \in 1..Cardinality(new)
      BY <1>5
    <3> HIDE DEF rank, nth, new
    <3> QED
      BY <1>1, <3>1
  <2>2. f[rank(i)] = s[i]
    BY <1>7, <2>1
  <2> HIDE DEF rank
  <2> QED
    BY <2>1, <2>2 DEF Values
<1>9. ASSUME NEW k \in DOMAIN s PROVE \E i \in new : s[i] = s[k]
  <2> DEFINE T == {i \in DOMAIN s : s[i] = s[k]}
  <2>1. T \subseteq Nat /\ T # {}
    BY <1>2
  <2> HIDE DEF T
  <2>2. PICK i \in T : \A j \in T : i <= j
    BY <2>1, LeastNumber
  <2>3. i \in DOMAIN s /\ s[i] = s[k]
    BY <2>2 DEF T
  <2>4. ASSUME NEW j \in DOMAIN s, j < i PROVE s[j] # s[i]
    <3>1. j \notin T
      BY <1>2, <2>2, <2>3, <2>4
    <3> QED
      BY <2>3, <3>1 DEF T
  <2> QED
    BY <2>3, <2>4
<1> HIDE DEF new
<1> QED
  BY <1>4, <1>8, <1>9 DEF f, Values

(* Somebody has asked, or is about to ask, for a control to be read again.  *)
Asked(n) ==
  \/ n \in Values(requests) \cup Values(batch)
  \/ \E c \in Callers : calls[c].name = n /\ calls[c].step \in {"written", "deleted"}

TurnsTo(n, then) ==
  at[Loop].cur = n /\ at[Loop].step \in {"ending", "safe"} /\ at[Loop].then = then

Removing(n) == TurnsTo(n, "remove")
Restarting(n) == TurnsTo(n, "restart") \/ (at[Loop].cur = n /\ at[Loop].step = "restart")

(* The child, and what its process has read, are what is stored.            *)
Right(n) ==
  /\ n \in Existing <=> ControlIsEnabled(store[n])
  /\ n \in Existing => children[n].doc = store[n]
  /\ n \in Held /\ proc[n].doc # NoDoc => proc[n].doc = store[n]

(* A control is right, or on its way to what was stored when its turn came, *)
(* or to be read again.                                                     *)
SeenTo(n) ==
  \/ Asked(n)
  \/ /\ Removing(n) => ~ControlIsEnabled(store[n])
     /\ Restarting(n) => ControlIsEnabled(store[n])
     /\ Removing(n) \/ Restarting(n) \/ Right(n)

EffectOK ==
  /\ readable /\ \A n \in Controls : store[n] # Broken
  /\ requests \in Seq(Controls \cup {NoOne}) /\ Listed(batch)
  /\ at[Loop].phase # "reload" => batch = <<>>
  /\ ~stop.stopped => \A n \in Controls : SeenTo(n)

Turning(n) == Removing(n) \/ Restarting(n)

(* What keeps a control, and the thread's turn to it, keeps it seen to.     *)
LEMMA SeenToKept ==
  ASSUME NEW n \in Controls, SeenTo(n), store'[n] = store[n],
         Asked(n) => Asked(n)',
         Removing(n)' <=> Removing(n), Restarting(n)' <=> Restarting(n),
         Right(n) => Right(n)'
  PROVE  SeenTo(n)'
<1>1. ControlIsEnabled(store[n])' <=> ControlIsEnabled(store[n])
  BY DEF ControlIsEnabled
<1> QED
  BY <1>1 DEF SeenTo

(* Nothing of the child and of its process changes but that it may end.     *)
LEMMA RightKept ==
  ASSUME NEW n \in Controls, Right(n), store'[n] = store[n],
         n \in Existing' <=> n \in Existing, n \in Existing => children'[n].doc = children[n].doc,
         n \in Held' => n \in Held /\ proc'[n].doc = proc[n].doc
  PROVE  Right(n)'
BY DEF Right, ControlIsEnabled

(* What is not asked for is not asked for by a step of another's.           *)
LEMMA AskedKept ==
  ASSUME NEW n, Asked(n), UNCHANGED <<calls, requests>>,
         n \in Values(batch) => n \in Values(batch')
  PROVE  Asked(n)'
BY DEF Asked, Values

(* A step of a loop, or of nobody's, that changes no child but its time and *)
(* whether it holds a process.                                              *)
LEMMA EffectKept ==
  ASSUME Quiet, EffectOK, UNCHANGED <<store, readable, calls, requests, batch>>,
         at'[Loop].phase # "reload" => batch = <<>>,
         stop.stopped => stop'.stopped,
         ~stop'.stopped =>
           \A n \in Controls : /\ Removing(n)' <=> Removing(n)
                               /\ Restarting(n)' <=> Restarting(n)
                               /\ Right(n) => Right(n)'
  PROVE  EffectOK'
<1>1. ASSUME ~stop'.stopped, NEW n \in Controls PROVE SeenTo(n)'
  <2>1. SeenTo(n)
    BY <1>1 DEF EffectOK
  <2>2. Asked(n) => Asked(n)'
    BY AskedKept
  <2> QED
    BY <1>1, <2>1, <2>2, SeenToKept
<1>2. Listed(batch)'
  BY DEF EffectOK, Listed, Values
<1> QED
  BY <1>1, <1>2 DEF EffectOK

(* Any sequence is one of what it holds.                                    *)
LEMMA EverySequence == ASSUME NEW X, NEW s \in Seq(X) PROVE Listed(s)
<1>1. Len(s) \in Nat /\ s = [i \in 1..Len(s) |-> s[i]] /\ DOMAIN s = 1..Len(s)
  OBVIOUS
<1>2. s \in [1..Len(s) -> Values(s)]
  BY <1>1 DEF Values
<1> QED
  BY <1>1, <1>2 DEF Listed

(* The first of a batch, and the rest of it.                                *)
LEMMA HeadAndTail ==
  ASSUME Listed(batch), batch # <<>>, batch' = Tail(batch)
  PROVE  /\ Listed(batch)'
         /\ \A n : n \in Values(batch) => n = Head(batch) \/ n \in Values(batch')
<1> DEFINE X == Values(batch)
<1>1. batch \in Seq(X)
  BY DEF Listed
<1> HIDE DEF X
<1>2. /\ batch' \in Seq(X) /\ Len(batch) \in Nat \ {0} /\ Len(batch') = Len(batch) - 1
      /\ DOMAIN batch = 1..Len(batch) /\ DOMAIN batch' = 1..Len(batch')
      /\ \A i \in 1..Len(batch') : batch'[i] = batch[i + 1]
      /\ Head(batch) = batch[1]
  BY <1>1
<1>3. Listed(batch)'
  <2>1. Listed(batch')
    BY <1>2, EverySequence
  <2> QED
    BY <2>1 DEF Listed, Values
<1>4. ASSUME NEW i \in DOMAIN batch PROVE batch[i] = Head(batch) \/ batch[i] \in Values(batch')
  <2>1. CASE i = 1
    BY <1>2, <2>1
  <2>2. CASE i # 1
    <3>1. i - 1 \in DOMAIN batch' /\ batch'[i - 1] = batch[i]
      BY <1>2, <2>2
    <3> QED
      BY <3>1 DEF Values
  <2> QED
    BY <2>1, <2>2
<1> QED
  BY <1>3, <1>4 DEF Values

(* A control that is started is started from what is stored.                *)
LEMMA StartsRight ==
  ASSUME SupervisorAssumption, ChildrenOK, Quiet, EffectOK, NEW n, Restart(n), n \notin Held,
         n \in Controls => n \in Existing, UNCHANGED store
  PROVE  /\ \A m \in Controls : Right(m) => Right(m)'
         /\ n \in Controls /\ ControlIsEnabled(store[n]) => Right(n)'
<1>1. /\ Existing' = Existing /\ Held' \subseteq Held \cup {n}
      /\ \A m \in Controls \ {n} : children'[m] = children[m] /\ proc'[m] = proc[m]
      /\ n \in Controls => children'[n].doc = Refreshed(n)
      /\ n \in Controls /\ n \in Held' => proc'[n].doc = NoDoc
  BY Starting DEF Quiet, EffectOK
<1>2. ASSUME n \in Controls, ControlIsEnabled(store[n]) PROVE Right(n)'
  <2>1. Refreshed(n) = store[n]
    BY <1>2 DEF Refreshed, Usable, ControlIsEnabled, EffectOK
  <2> QED
    BY <1>1, <1>2, <2>1 DEF Right, ControlIsEnabled
<1>3. ASSUME NEW m \in Controls, Right(m) PROVE Right(m)'
  <2>1. CASE m # n
    BY <1>1, <1>3, <2>1, RightKept DEF Existing
  <2>2. CASE m = n
    <3>1. ControlIsEnabled(store[n])
      BY <1>3, <2>2 DEF Right
    <3> QED
      BY <1>2, <2>2, <3>1
  <2> QED
    BY <2>1, <2>2
<1> QED
  BY <1>2, <1>3

(* The end of a process leaves its control right if it was.                 *)
LEMMA ReleasesRight ==
  ASSUME SupervisorAssumption, ChildrenOK, Quiet, NEW n \in Held,
         NEW restart \in {"no", "waiting", "due"}, Release(n, restart), UNCHANGED store
  PROVE  \A m \in Controls : Right(m) => Right(m)'
<1>1. /\ Existing' = Existing /\ Held' = Held \ {n}
      /\ \A m \in Existing : children'[m].doc = children[m].doc
      /\ \A m \in Controls : proc'[m].doc = proc[m].doc
  BY Releasing DEF Quiet
<1> QED
  BY <1>1, RightKept

(* SIGTERM, or nothing, does too.                                           *)
LEMMA SignalsRight ==
  ASSUME Quiet, UNCHANGED <<store, children>>, UNCHANGED proc \/ (\E ns : SendTerm(ns))
  PROVE  Existing' = Existing /\ Held' = Held /\ \A m \in Controls : Right(m) => Right(m)'
<1>1. Existing' = Existing /\ Held' = Held
  BY DEF Existing, Held
<1>2. \A m \in Controls : SameChild(m)
  BY <1>1 DEF SameChild
<1>3. \A m \in Controls : SameProc(m)
  BY <1>2, ProcsKept DEF Quiet
<1> QED
  BY <1>1, <1>3, RightKept DEF SameProc

(* A control whose turn has come, and every other as before.                *)
LEMMA ReloadKeeps ==
  ASSUME Quiet, EffectOK, NextReload, batch' = Tail(batch), NEW n, n = Head(batch),
         UNCHANGED <<store, readable, calls, requests, stop>>, at'[Loop].phase = "reload",
         \A m \in Controls \ {n} :
           ~Removing(m)' /\ ~Restarting(m)' /\ (Right(m) => Right(m)'),
         n \in Controls => SeenTo(n)'
  PROVE  EffectOK'
<1>1. Listed(batch)' /\ \A m : m \in Values(batch) => m = n \/ m \in Values(batch')
  BY HeadAndTail DEF EffectOK, NextReload
<1>2. ASSUME ~stop.stopped, NEW m \in Controls \ {n} PROVE SeenTo(m)'
  <2>1. SeenTo(m) /\ ~Removing(m) /\ ~Restarting(m)
    BY <1>2 DEF EffectOK, NextReload, MayStep, Removing, Restarting, TurnsTo
  <2>2. Asked(m) => Asked(m)'
    BY <1>1, AskedKept
  <2> QED
    BY <1>2, <2>1, <2>2, SeenToKept
<1> QED
  BY <1>1, <1>2 DEF EffectOK

(* The loops of the supervisor's thread.                                    *)
LEMMA PollsEffect ==
  ASSUME SupervisorAssumption, CallsOK, ThreadInv, Quiet, EffectOK, Polls
  PROVE  EffectOK'
<1>0. /\ ChildrenOK /\ FramesOK /\ Loop \in Threads /\ Exit \in Threads /\ Loop # Exit
      /\ UNCHANGED <<store, readable, calls>>
  BY DEF ThreadInv, Threads, SupervisorAssumption, Polls, StartAll, StartsPolling, Drain,
    ReloadRemoves, ReloadFails, ReloadStarts, ReloadRestarts, Select, ReadEof, Scan, ScanStalled,
    ScanDue, ScanPasses, PollEnds, LoopStops, mcpVars
<1>1. at[Loop].step = "next" => \A m \in Controls : ~Removing(m) /\ ~Restarting(m)
  BY DEF Removing, Restarting, TurnsTo
<1>2. at'[Loop].step = "next" => \A m \in Controls : ~Removing(m)' /\ ~Restarting(m)'
  BY DEF Removing, Restarting, TurnsTo
<1>3. at'[Loop].step \in {"ending", "safe"} /\ at'[Loop].then = "reap"
        => \A m \in Controls : ~Removing(m)' /\ ~Restarting(m)'
  BY DEF Removing, Restarting, TurnsTo
<1>4. ASSUME NEW n \in Existing, n \notin Held, Restart(n), NextChild(Loop, n),
             at[Loop].step = "next", UNCHANGED <<requests, batch, stop>>
      PROVE  EffectOK'
  <2>1. \A m \in Controls : Right(m) => Right(m)'
    BY <1>0, <1>4, StartsRight
  <2>2. at'[Loop].phase = at[Loop].phase /\ at'[Loop].step = "next"
    BY <1>0, <1>4, MovesOn
  <2>3. at'[Loop].phase # "reload" => batch = <<>>
    BY <2>2 DEF EffectOK
  <2> QED
    BY <1>0, <1>1, <1>2, <1>4, <2>1, <2>2, <2>3, EffectKept
<1>5. ASSUME UNCHANGED <<children, requests, batch>>, stop.stopped => stop'.stopped,
             UNCHANGED proc \/ (\E ns : SendTerm(ns)), at[Loop].step = "next",
             \A m \in Controls : ~Removing(m)' /\ ~Restarting(m)',
             at'[Loop].phase # "reload" => batch = <<>>
      PROVE  EffectOK'
  <2>1. \A m \in Controls : Right(m) => Right(m)'
    BY <1>0, <1>5, SignalsRight
  <2> QED
    BY <1>0, <1>1, <1>5, <2>1, EffectKept
<1>6. CASE StartAll
  <2>1. PICK n \in at[Loop].left : Restart(n) /\ NextChild(Loop, n)
    BY <1>6 DEF StartAll
  <2>2. at[Loop].phase = "start_all" /\ at[Loop].step = "next" /\ UNCHANGED <<requests, batch, stop>>
    BY <1>6 DEF StartAll, MayStep, mcpVars
  <2>3. n \in Existing /\ n \notin Held
    BY <2>1, <2>2 DEF Quiet, AloneOK
  <2> QED
    BY <1>4, <2>1, <2>2, <2>3
<1>7. CASE ScanDue
  <2>1. PICK n \in at[Loop].left : n \notin Held /\ Restart(n) /\ NextChild(Loop, n)
    BY <1>7 DEF ScanDue
  <2>2. at[Loop].phase = "scan" /\ at[Loop].step = "next" /\ UNCHANGED <<requests, batch, stop>>
    BY <1>7 DEF ScanDue, MayStep, mcpVars
  <2>3. n \in Existing
    BY <2>1, <2>2 DEF Quiet, AloneOK
  <2> QED
    BY <1>4, <2>1, <2>2, <2>3
<1>8. CASE StartsPolling \/ Select \/ Scan \/ PollEnds
  <2>1. PICK phase, left : Goto(Loop, phase, left) /\ phase # "reload"
    BY <1>8 DEF StartsPolling, Select, Scan, PollEnds
  <2>2. /\ UNCHANGED <<requests, children, proc, batch, stop>> /\ at[Loop].step = "next"
        /\ batch = <<>> \/ at[Loop].phase # "reload"
    BY <1>8 DEF StartsPolling, Select, Scan, PollEnds, MayStep, mcpVars
  <2>3. at'[Loop].phase = phase /\ at'[Loop].step = "next"
    BY <1>0, <2>1, GoingTo
  <2>4. batch = <<>>
    BY <2>2 DEF EffectOK
  <2> QED
    BY <1>2, <1>5, <2>2, <2>3, <2>4
<1>9. CASE Drain
  <2>1. /\ batch' = FirstAppearances(requests) /\ requests' = <<>> /\ Goto(Loop, "reload", {})
        /\ at[Loop].step = "next" /\ at[Loop].phase = "top" /\ UNCHANGED <<children, proc, stop>>
    BY <1>9 DEF Drain, MayStep
  <2>2. at'[Loop].phase = "reload" /\ at'[Loop].step = "next"
    BY <1>0, <2>1, GoingTo
  <2>3. batch = <<>> /\ requests \in Seq(Controls \cup {NoOne})
    BY <2>1 DEF EffectOK
  <2>4. Listed(batch') /\ Values(requests) \subseteq Values(batch')
    BY <2>1, <2>3, AllAppear
  <2>5. Listed(batch)'
    BY <2>4 DEF Listed, Values
  <2>6. \A m \in Controls : Right(m) => Right(m)'
    BY <1>0, <2>1, SignalsRight
  <2>7. ASSUME NEW m \in Controls, Asked(m) PROVE Asked(m)'
    <3>1. m \in Values(requests) \/ (\E c \in Callers : calls[c].name = m /\ calls[c].step \in {"written", "deleted"})
      BY <2>3, <2>7 DEF Asked, Values
    <3> QED
      BY <1>0, <2>4, <3>1 DEF Asked, Values
  <2>8. ASSUME ~stop.stopped, NEW m \in Controls PROVE SeenTo(m)'
    BY <1>0, <1>1, <1>2, <2>1, <2>2, <2>6, <2>7, <2>8, SeenToKept DEF EffectOK
  <2>9. requests' \in Seq(Controls \cup {NoOne})
    BY <2>1
  <2> QED
    BY <1>0, <2>1, <2>2, <2>5, <2>8, <2>9 DEF EffectOK
<1>10. CASE ReloadRemoves
  <2>0. PICK n : n = Head(batch)
    OBVIOUS
  <2>1. /\ NextReload /\ batch' = Tail(batch) /\ UNCHANGED <<requests, children, stop>>
        /\ store[n] = Missing \/ (Usable(store[n]) /\ ~ControlIsEnabled(store[n]))
        /\ IF n \in Existing THEN LetGo(n, "remove") ELSE UNCHANGED <<at, proc>>
    BY <1>10, <2>0 DEF ReloadRemoves, mcpVars
  <2>2. ~ControlIsEnabled(store[n])
    BY <2>1 DEF ControlIsEnabled, SupervisorAssumption
  <2>3. UNCHANGED proc \/ (\E ns : SendTerm(ns))
    BY <2>1 DEF LetGo
  <2>4. Existing' = Existing /\ Held' = Held /\ \A m \in Controls : Right(m) => Right(m)'
    BY <1>0, <2>1, <2>3, SignalsRight
  <2>5. at[Loop].phase = "reload" /\ at[Loop].step = "next"
    BY <2>1 DEF NextReload, MayStep
  <2>6. CASE n \in Existing
    <3>1. PICK step \in {"ending", "safe"} : Handle(Loop, n, step, "remove")
      BY <2>1, <2>6 DEF LetGo
    <3>2. /\ at'[Loop].phase = "reload" /\ at'[Loop].step = step /\ at'[Loop].cur = n
          /\ at'[Loop].then = "remove"
      BY <1>0, <2>5, <3>1, Handling
    <3>3. \A m \in Controls \ {n} : ~Removing(m)' /\ ~Restarting(m)'
      BY <3>2 DEF Removing, Restarting, TurnsTo
    <3>4. Removing(n)' /\ ~Restarting(n)'
      BY <3>1, <3>2 DEF Removing, Restarting, TurnsTo
    <3>5. SeenTo(n)'
      BY <1>0, <2>2, <3>4 DEF SeenTo, ControlIsEnabled
    <3> QED
      BY <1>0, <2>1, <2>4, <3>2, <3>3, <3>5, <2>0, ReloadKeeps
  <2>7. CASE n \notin Existing
    <3>1. at' = at
      BY <2>1, <2>7
    <3>2. \A m \in Controls : ~Removing(m)' /\ ~Restarting(m)'
      BY <1>2, <2>5, <3>1
    <3>3. n \in Controls => Right(n)'
      BY <1>0, <2>2, <2>4, <2>7 DEF Right, Held, ControlIsEnabled
    <3>4. n \in Controls => SeenTo(n)'
      BY <3>2, <3>3 DEF SeenTo
    <3> QED
      BY <1>0, <2>1, <2>4, <2>5, <3>1, <3>2, <3>4, <2>0, ReloadKeeps
  <2> QED
    BY <2>6, <2>7
<1>11. CASE ReloadFails
  <2>0. PICK n : n = Head(batch)
    OBVIOUS
  <2>1. /\ NextReload /\ batch' = Tail(batch) /\ UNCHANGED <<requests, children, at, stop, proc>>
        /\ store[n] # Missing /\ ~Usable(store[n])
    BY <1>11, <2>0 DEF ReloadFails, mcpVars
  <2>2. at[Loop].phase = "reload" /\ at[Loop].step = "next"
    BY <2>1 DEF NextReload, MayStep
  <2>3. n \notin Controls
    BY <2>1 DEF EffectOK, Usable, CallsOK
  <2>4. \A m \in Controls : Right(m) => Right(m)'
    BY <1>0, <2>1, SignalsRight
  <2> QED
    BY <1>0, <1>2, <2>0, <2>1, <2>2, <2>3, <2>4, <2>0, ReloadKeeps
<1>12. CASE ReloadStarts
  <2>0. PICK n : n = Head(batch)
    OBVIOUS
  <2> DEFINE child == IF n \in Existing
                        THEN [children[n] EXCEPT !.restart = IF n \in Held THEN @ ELSE "due"]
                        ELSE [doc |-> NoDoc, restart |-> "due", held |-> FALSE]
  <2>1. /\ NextReload /\ batch' = Tail(batch) /\ UNCHANGED <<requests, stop>>
        /\ Usable(store[n]) /\ ControlIsEnabled(store[n])
        /\ children' = [children EXCEPT ![n] = child]
        /\ IF n \in Held
             THEN Handle(Loop, n, "ending", "restart") /\ SendTerm({n})
             ELSE Handle(Loop, n, "restart", "nothing") /\ UNCHANGED proc
    BY <1>12, <2>0 DEF ReloadStarts, mcpVars
  <2>2. at[Loop].phase = "reload" /\ at[Loop].step = "next"
    BY <2>1 DEF NextReload, MayStep
  <2>3. PICK step, then :
          /\ Handle(Loop, n, step, then)
          /\ (step = "ending" /\ then = "restart") \/ (step = "restart" /\ then = "nothing")
    BY <2>1
  <2>4. /\ at'[Loop].phase = "reload" /\ at'[Loop].step = step /\ at'[Loop].cur = n
        /\ at'[Loop].then = then
    BY <1>0, <2>2, <2>3, Handling
  <2>5. \A m \in Controls \ {n} : ~Removing(m)' /\ ~Restarting(m)'
    BY <2>3, <2>4 DEF Removing, Restarting, TurnsTo
  <2>6. Restarting(n)' /\ ~Removing(n)'
    BY <2>3, <2>4 DEF Removing, Restarting, TurnsTo
  <2>7. SeenTo(n)'
    BY <1>0, <2>1, <2>6 DEF SeenTo, ControlIsEnabled
  <2>8. UNCHANGED proc \/ (\E ns : SendTerm(ns))
    BY <2>1
  <2>9. UNCHANGED <<lit, missed, stranded>>
    BY <1>12 DEF ReloadStarts, devVars
  <2>10. Held' = Held /\ ProcsOK'
    BY <1>0, <2>1, <2>2, <2>8, <2>9, TakingOnKeeps
  <2>11. \A m \in Controls \ {n} : children'[m] = children[m]
    BY <1>0, <2>1 DEF ChildrenOK
  <2>12. ASSUME NEW m \in Controls \ {n}, Right(m) PROVE Right(m)'
    <3>1. proc'[m].doc = proc[m].doc
      <4>1. CASE UNCHANGED proc
        BY <4>1
      <4>2. CASE \E ns : SendTerm(ns)
        BY <4>2, TermKeeps DEF Quiet, SameProc
      <4> QED
        BY <2>8, <4>1, <4>2
    <3>2. m \in Existing' <=> m \in Existing
      BY <2>11 DEF Existing
    <3> QED
      BY <1>0, <2>10, <2>11, <2>12, <3>1, <3>2, RightKept
  <2> HIDE DEF child
  <2> QED
    BY <1>0, <2>1, <2>4, <2>5, <2>7, <2>12, <2>0, ReloadKeeps
<1>13. CASE ReloadRestarts
  <2>0. PICK n : n = at[Loop].cur
    OBVIOUS
  <2>1. /\ at[Loop].phase = "reload" /\ at[Loop].step = "restart"
        /\ Restart(n) /\ NextChild(Loop, n) /\ UNCHANGED <<requests, batch, stop>>
    BY <1>13, <2>0 DEF ReloadRestarts, MayStep, mcpVars
  <2>2. n \notin Held /\ (n \in Controls => n \in Existing)
    BY <2>0, <2>1 DEF Quiet, AloneOK
  <2>3. /\ \A m \in Controls : Right(m) => Right(m)'
        /\ n \in Controls /\ ControlIsEnabled(store[n]) => Right(n)'
    BY <1>0, <2>1, <2>2, StartsRight
  <2>4. at'[Loop].phase = "reload" /\ at'[Loop].step = "next"
    BY <1>0, <2>1, MovesOn
  <2>5. \A m \in Controls \ {n} : ~Removing(m) /\ ~Restarting(m)
    BY <2>0 DEF Removing, Restarting, TurnsTo
  <2>6. Restarting(n) /\ ~Removing(n)
    BY <2>0, <2>1 DEF Removing, Restarting, TurnsTo
  <2>7. ASSUME ~stop.stopped, NEW m \in Controls PROVE SeenTo(m)'
    <3>1. SeenTo(m) /\ ~Removing(m)' /\ ~Restarting(m)'
      BY <1>2, <2>4, <2>7 DEF EffectOK
    <3>2. CASE Asked(m)
      <4>1. Asked(m)'
        BY <1>0, <2>1, <3>2, AskedKept
      <4> QED
        BY <4>1 DEF SeenTo
    <3>3. CASE ~Asked(m)
      <4>1. Right(m)'
        BY <2>3, <2>5, <2>6, <3>1, <3>3 DEF SeenTo
      <4> QED
        BY <3>1, <4>1 DEF SeenTo
    <3> QED
      BY <3>2, <3>3
  <2>8. Listed(batch)'
    BY <2>1 DEF EffectOK, Listed, Values
  <2> QED
    BY <1>0, <2>1, <2>4, <2>7, <2>8 DEF EffectOK
<1>14. CASE ReadEof
  <2>1. PICK n \in Held : Release(n, "waiting") /\ Handle(Loop, n, "safe", "reap")
    BY <1>14 DEF ReadEof
  <2>2. /\ UNCHANGED <<requests, batch, stop>> /\ at[Loop].step = "next" /\ at[Loop].phase = "read"
    BY <1>14 DEF ReadEof, MayStep, mcpVars
  <2>3. \A m \in Controls : Right(m) => Right(m)'
    BY <1>0, <2>1, ReleasesRight
  <2>4. at'[Loop].phase = "read" /\ at'[Loop].step = "safe" /\ at'[Loop].then = "reap"
    BY <1>0, <2>1, <2>2, Handling
  <2>5. batch = <<>>
    BY <2>2 DEF EffectOK
  <2> QED
    BY <1>0, <1>1, <1>3, <2>2, <2>3, <2>4, <2>5, EffectKept
<1>15. CASE ScanStalled
  <2>1. PICK n : SendTerm({n}) /\ Handle(Loop, n, "ending", "reap")
    BY <1>15 DEF ScanStalled
  <2>2. /\ UNCHANGED <<requests, children, batch, stop>>
        /\ at[Loop].step = "next" /\ at[Loop].phase = "scan"
    BY <1>15 DEF ScanStalled, MayStep, mcpVars
  <2>3. at'[Loop].phase = "scan" /\ at'[Loop].step = "ending" /\ at'[Loop].then = "reap"
    BY <1>0, <2>1, <2>2, Handling
  <2>4. batch = <<>>
    BY <2>2 DEF EffectOK
  <2> QED
    BY <1>3, <1>5, <2>1, <2>2, <2>3, <2>4
<1>16. CASE ScanPasses
  <2>1. PICK n : NextChild(Loop, n)
    BY <1>16 DEF ScanPasses
  <2>2. /\ UNCHANGED <<requests, children, batch, stop, proc>>
        /\ at[Loop].step = "next" /\ at[Loop].phase = "scan"
    BY <1>16 DEF ScanPasses, MayStep, mcpVars
  <2>3. at'[Loop].phase = "scan" /\ at'[Loop].step = "next"
    BY <1>0, <2>1, <2>2, MovesOn
  <2>4. batch = <<>>
    BY <2>2 DEF EffectOK
  <2> QED
    BY <1>2, <1>5, <2>2, <2>3, <2>4
<1>17. CASE LoopStops
  <2>1. /\ StopAll(Loop) /\ UNCHANGED <<requests, children, batch>>
        /\ at[Loop].phase = "top" /\ at[Loop].step = "next"
    BY <1>17 DEF LoopStops, MayStep, mcpVars
  <2>2. PICK phase, left : Goto(Loop, phase, left)
    BY <2>1 DEF StopAll
  <2>3. at'[Loop].step = "next"
    BY <1>0, <2>2, GoingTo
  <2>4. UNCHANGED proc \/ (\E ns : SendTerm(ns))
    BY <2>1 DEF StopAll
  <2>5. stop.stopped => stop'.stopped
    BY <2>1 DEF StopAll
  <2>6. batch = <<>>
    BY <2>1 DEF EffectOK
  <2> QED
    BY <1>2, <1>5, <2>1, <2>3, <2>4, <2>5, <2>6
<1> QED
  BY <1>6, <1>7, <1>8, <1>9, <1>10, <1>11, <1>12, <1>13, <1>14, <1>15, <1>16, <1>17 DEF Polls

(* The end of a process, a safe state and a walk.                           *)
LEMMA HandlesEffect ==
  ASSUME SupervisorAssumption, ThreadInv, Quiet, EffectOK, NEW t \in Threads, Handles(t)
  PROVE  EffectOK'
<1>0. /\ ChildrenOK /\ FramesOK /\ WalksOK /\ Loop \in Threads /\ Exit \in Threads /\ Loop # Exit
      /\ UNCHANGED <<store, readable, calls, requests, batch>>
  BY DEF ThreadInv, Threads, SupervisorAssumption, Handles, Ended, EndedElsewhere, MakeSafe, Walk,
    WalkBreaks, WalkEnds, mcpVars
<1>1. t = Loop
  <2>1. at[Exit].step = "next" /\ at[Exit].phase # "walk"
    BY DEF Quiet, AloneOK
  <2>2. t # Exit
    BY <2>1 DEF Handles, Ended, EndedElsewhere, MakeSafe, Walk, WalkBreaks, WalkEnds, MayStep
  <2> QED
    BY <2>2 DEF Threads
<1>2. CASE Ended(Loop)
  <2>1. PICK n : n = at[Loop].cur
    OBVIOUS
  <2>2. PICK then : then = at[Loop].then
    OBVIOUS
  <2>3. /\ at[Loop].step = "ending" /\ n \in Held /\ Release(n, RestartAfter(then))
        /\ Handle(Loop, n, "safe", then) /\ UNCHANGED stop
    BY <1>2, <2>1, <2>2 DEF Ended, MayStep
  <2>4. RestartAfter(then) \in {"no", "waiting", "due"}
    BY DEF RestartAfter
  <2>5. \A m \in Controls : Right(m) => Right(m)'
    BY <1>0, <2>3, <2>4, ReleasesRight
  <2>6. /\ at'[Loop].phase = at[Loop].phase /\ at'[Loop].step = "safe" /\ at'[Loop].cur = n
        /\ at'[Loop].then = then
    BY <1>0, <2>3, Handling
  <2>7. \A m \in Controls : (Removing(m)' <=> Removing(m)) /\ (Restarting(m)' <=> Restarting(m))
    BY <2>1, <2>2, <2>3, <2>6 DEF Removing, Restarting, TurnsTo
  <2>8. at'[Loop].phase # "reload" => batch = <<>>
    BY <2>6 DEF EffectOK
  <2> QED
    BY <1>0, <2>3, <2>5, <2>7, <2>8, EffectKept
<1>3. ~EndedElsewhere(Loop)
  BY DEF EndedElsewhere, MayStep, Quiet, AloneOK
<1>4. CASE MakeSafe(Loop)
  <2>1. PICK n : n = at[Loop].cur
    OBVIOUS
  <2>2. PICK then : then = at[Loop].then
    OBVIOUS
  <2>3. /\ at[Loop].step = "safe" /\ UNCHANGED <<stop, proc>>
        /\ children' = [children EXCEPT ![n] = IF then = "remove" THEN NoChild ELSE children[n]]
        /\ IF then = "restart" THEN Handle(Loop, n, "restart", "nothing") ELSE NextChild(Loop, n)
    BY <1>4, <2>1, <2>2 DEF MakeSafe, MayStep
  <2>4. \A m \in Controls : children'[m] = IF m = n /\ then = "remove" THEN NoChild ELSE children[m]
    BY <1>0, <2>3 DEF ChildrenOK
  <2>5. /\ at'[Loop].phase = at[Loop].phase
        /\ IF then = "restart" THEN at'[Loop].step = "restart" /\ at'[Loop].cur = n
                                    /\ at'[Loop].then = "nothing"
           ELSE at'[Loop].step = "next"
    <3>1. CASE then = "restart"
      <4>1. Handle(Loop, n, "restart", "nothing")
        BY <2>3, <3>1
      <4> QED
        BY <1>0, <3>1, <4>1, Handling
    <3>2. CASE then # "restart"
      <4>1. NextChild(Loop, n)
        BY <2>3, <3>2
      <4> QED
        BY <1>0, <3>2, <4>1, MovesOn
    <3> QED
      BY <3>1, <3>2
  <2>6. \A m \in Controls : ~Removing(m)' /\ (Restarting(m)' <=> Restarting(m))
    BY <2>1, <2>2, <2>3, <2>5 DEF Removing, Restarting, TurnsTo
  <2>7. ASSUME NEW m \in Controls, m # n \/ then # "remove"
        PROVE  ~Removing(m) /\ (Right(m) => Right(m)')
    <3>1. ~Removing(m)
      BY <2>1, <2>2, <2>7 DEF Removing, TurnsTo
    <3>2. children'[m] = children[m]
      BY <2>4, <2>7
    <3>3. (m \in Existing' <=> m \in Existing) /\ (m \in Held' <=> m \in Held)
      BY <3>2 DEF Existing, Held
    <3> QED
      BY <1>0, <2>3, <3>1, <3>2, <3>3, RightKept
  <2>8. ASSUME n \in Controls, then = "remove", ~ControlIsEnabled(store[n]) PROVE Right(n)'
    <3>1. n \notin Existing' /\ n \notin Held'
      BY <2>4, <2>8 DEF Existing, Held
    <3> QED
      BY <1>0, <2>8, <3>1 DEF Right, ControlIsEnabled
  <2>9. ASSUME ~stop'.stopped, NEW m \in Controls PROVE SeenTo(m)'
    <3>1. SeenTo(m)
      BY <2>3, <2>9 DEF EffectOK
    <3>2. Asked(m) => Asked(m)'
      BY <1>0, AskedKept
    <3>3. CASE m # n \/ then # "remove"
      BY <1>0, <2>6, <2>7, <3>1, <3>2, <3>3, SeenToKept
    <3>4. CASE m = n /\ then = "remove"
      <4>1. Removing(n) /\ ~Restarting(n)
        BY <2>1, <2>2, <2>3, <3>4 DEF Removing, Restarting, TurnsTo
      <4>2. CASE Asked(m)
        BY <3>2, <4>2 DEF SeenTo
      <4>3. CASE ~Asked(m)
        <5>1. Right(m)'
          BY <2>8, <3>1, <3>4, <4>1, <4>3 DEF SeenTo
        <5>2. ~Removing(m)' /\ ~Restarting(m)'
          BY <2>6, <3>4, <4>1
        <5> QED
          BY <5>1, <5>2 DEF SeenTo
      <4> QED
        BY <4>2, <4>3
    <3> QED
      BY <3>3, <3>4
  <2>10. Listed(batch)'
    BY <1>0 DEF EffectOK, Listed, Values
  <2> QED
    BY <1>0, <2>5, <2>9, <2>10 DEF EffectOK
<1>5. CASE Walk(Loop) \/ WalkBreaks(Loop) \/ WalkEnds(Loop)
  <2>1. at[Loop].phase = "walk" /\ stop.stopped
    BY <1>0, <1>5 DEF Walk, WalkBreaks, WalkEnds, MayStep, WalksOK
  <2>2. stop'.stopped
    <3>1. stop' = stop \/ stop' = [stop EXCEPT !.finished = TRUE]
      BY <1>5 DEF Walk, WalkBreaks, WalkEnds
    <3> QED
      BY <1>0, <2>1, <3>1 DEF FramesOK
  <2>3. batch = <<>>
    BY <2>1 DEF EffectOK
  <2> QED
    BY <1>0, <2>2, <2>3, EffectKept
<1> QED
  BY <1>1, <1>2, <1>3, <1>4, <1>5 DEF Handles

(* The exit handler, the processes, time and the bridges.                   *)
LEMMA OthersEffect ==
  ASSUME SupervisorAssumption, ThreadInv, Quiet, EffectOK,
         \/ Shutdown \/ Exits \/ UNCHANGED vars
         \/ \E n \in Controls : Runs(n) \/ BackoffEnds(n)
         \/ \E d \in Devices : Outage(d) \/ Recovers(d)
  PROVE  EffectOK'
<1>0. /\ ChildrenOK /\ FramesOK /\ Loop \in Threads /\ Exit \in Threads /\ Loop # Exit
  BY DEF ThreadInv, Threads, SupervisorAssumption
<1>1. ASSUME at'[Loop] = at[Loop], UNCHANGED <<store, readable, calls, requests, batch>>,
             stop.stopped => stop'.stopped, \A m \in Controls : Right(m) => Right(m)'
      PROVE  EffectOK'
  <2>1. \A m \in Controls : (Removing(m)' <=> Removing(m)) /\ (Restarting(m)' <=> Restarting(m))
    BY <1>1 DEF Removing, Restarting, TurnsTo
  <2>2. at'[Loop].phase # "reload" => batch = <<>>
    BY <1>1 DEF EffectOK
  <2> QED
    BY <1>1, <2>1, <2>2, EffectKept
<1>2. CASE Shutdown \/ Exits
  <2>1. UNCHANGED <<store, readable, calls, requests, batch, children>>
    BY <1>2 DEF Shutdown, Exits, Joined, JoinTimesOut, JoinedAgain, mcpVars
  <2>2. \E phase, left : Goto(Exit, phase, left)
    BY <1>2 DEF Shutdown, Exits, Joined, JoinTimesOut, JoinedAgain, StopAll
  <2>3. at'[Loop] = at[Loop]
    BY <1>0, <2>2, GoingTo
  <2>4. UNCHANGED proc \/ (\E ns : SendTerm(ns))
    BY <1>2 DEF Shutdown, Exits, Joined, JoinTimesOut, JoinedAgain, StopAll
  <2>5. stop.stopped => stop'.stopped
    <3>1. \/ stop' = stop \/ stop' = [stop EXCEPT !.asked = TRUE]
          \/ stop' = [stop EXCEPT !.stopped = TRUE]
      BY <1>2 DEF Shutdown, Exits, Joined, JoinTimesOut, JoinedAgain, StopAll
    <3> QED
      BY <1>0, <3>1 DEF FramesOK
  <2>6. \A m \in Controls : Right(m) => Right(m)'
    BY <2>1, <2>4, SignalsRight
  <2> QED
    BY <1>1, <2>1, <2>3, <2>5, <2>6
<1>3. ASSUME UNCHANGED <<store, readable, calls, requests, batch, children, at, stop, proc>> PROVE EffectOK'
  <2>1. \A m \in Controls : Right(m) => Right(m)'
    BY <1>3, SignalsRight
  <2> QED
    BY <1>1, <1>3, <2>1
<1>4. ASSUME NEW n \in Controls, Runs(n) PROVE EffectOK'
  <2>1. UNCHANGED <<store, readable, calls, requests, batch, children, at, stop>>
    BY <1>4 DEF Runs, Load, AssertStart, Cycle, Terminated, Leave, Fails, Crash, Hang, Wake,
      othersVars, mcpVars, supVars
  <2>2. Existing' = Existing /\ Held' = Held
    BY <2>1 DEF Existing, Held
  <2>3. ASSUME NEW m \in Controls, Right(m) PROVE Right(m)'
    <3>1. proc'[m].doc = proc[m].doc \/ proc'[m].doc = store[m]
      BY <1>4, WhatIsRead DEF Quiet
    <3> QED
      BY <2>1, <2>2, <2>3, <3>1 DEF Right, ControlIsEnabled
  <2> QED
    BY <1>1, <2>1, <2>3
<1>5. ASSUME NEW n \in Controls, BackoffEnds(n) PROVE EffectOK'
  <2>1. /\ UNCHANGED <<store, readable, calls, requests, batch, at, stop, proc>> /\ n \in Existing
        /\ children' = [children EXCEPT ![n] = [children[n] EXCEPT !.restart = "due"]]
    BY <1>0, <1>5 DEF BackoffEnds, mcpVars, ChildrenOK
  <2>2. /\ \A m \in Controls \ {n} : children'[m] = children[m]
        /\ children'[n] = [children[n] EXCEPT !.restart = "due"] /\ children[n] \in Child
    BY <1>0, <2>1 DEF ChildrenOK, Quiet, KidsOK
  <2>3. /\ children'[n] \in Child /\ children'[n].doc = children[n].doc
        /\ children'[n].held = children[n].held
    BY <2>2 DEF Child
  <2>4. \A m \in Controls : m \in Existing' <=> m \in Existing
    BY <2>1, <2>2, <2>3 DEF Existing, Child, SupervisorAssumption
  <2>5. \A m \in Controls : m \in Held' <=> m \in Held
    BY <2>2, <2>3, <2>4 DEF Held
  <2>6. \A m \in Existing : children'[m].doc = children[m].doc
    BY <2>2, <2>3 DEF Existing
  <2>7. \A m \in Controls : Right(m) => Right(m)'
    BY <2>1, <2>4, <2>5, <2>6, RightKept
  <2> QED
    BY <1>1, <2>1, <2>7
<1> QED
  BY <1>2, <1>3, <1>4, <1>5 DEF vars, mcpVars, supVars, Outage, Recovers, othersVars

(* A call that writes asks, before it ends, for what it wrote to be read.   *)
LEMMA ToolsEffect ==
  ASSUME SupervisorAssumption, CallsOK, ThreadInv, Quiet, EffectOK, Tools
  PROVE  EffectOK'
<1>0. UNCHANGED <<readable, children, at, batch, stop, proc>>
  BY DEF Tools, Save, SetEnabled, DeleteControl, StoreControl, StoreFails, RequestReload, supVars
<1>1. Existing' = Existing /\ Held' = Held
  BY <1>0 DEF Existing, Held
<1>2. Listed(batch)' /\ (at'[Loop].phase # "reload" => batch' = <<>>)
  BY <1>0 DEF EffectOK, Listed, Values
<1>3. ASSUME NEW n \in Controls, SeenTo(n), Asked(n) => Asked(n)', store'[n] = store[n] PROVE SeenTo(n)'
  <2>1. Right(n) => Right(n)'
    BY <1>0, <1>1, <1>3 DEF Right, ControlIsEnabled
  <2>2. (Removing(n)' <=> Removing(n)) /\ (Restarting(n)' <=> Restarting(n))
    BY <1>0 DEF Removing, Restarting, TurnsTo
  <2> QED
    BY <1>3, <2>1, <2>2, SeenToKept
<1>4. PICK c \in Callers :
        \/ \E n \in Controls : \/ \E d \in Documents : Save(c, n, d)
                               \/ SetEnabled(c, n) \/ DeleteControl(c, n)
        \/ StoreControl(c) \/ StoreFails(c) \/ RequestReload(c)
  BY DEF Tools
<1>5. calls \in [Callers -> Call] /\ calls[c] \in Call
  BY DEF CallsOK
<1>6. \A e \in Callers \ {c} : calls'[e] = calls[e]
  BY <1>4, <1>5 DEF Save, SetEnabled, DeleteControl, StoreControl, StoreFails, RequestReload
<1>7. ASSUME NEW n \in Controls, Asked(n),
             calls[c].step \in {"written", "deleted"} /\ calls[c].name = n => Asked(n)',
             Values(requests) \subseteq Values(requests')
      PROVE  Asked(n)'
  <2>1. CASE n \in Values(requests) \cup Values(batch)
    BY <1>0, <1>7, <2>1 DEF Asked, Values
  <2>2. ASSUME NEW e \in Callers, calls[e].name = n, calls[e].step \in {"written", "deleted"}
        PROVE  Asked(n)'
    <3>1. CASE e = c
      BY <1>7, <2>2, <3>1
    <3>2. CASE e # c
      BY <1>6, <2>2, <3>2 DEF Asked
    <3> QED
      BY <3>1, <3>2
  <2> QED
    BY <1>7, <2>1, <2>2 DEF Asked
<1>8. CASE calls[c].step \in {"idle", "checked"} /\ UNCHANGED <<store, requests>>
  BY <1>0, <1>2, <1>3, <1>7, <1>8 DEF EffectOK
<1>9. ASSUME NEW n \in Controls, NEW d \in Documents \cup {Missing}, calls[c].step \in {"idle", "checked"},
             store' = [store EXCEPT ![n] = d], UNCHANGED requests,
             calls'[c].name = n, calls'[c].step \in {"written", "deleted"}
      PROVE  EffectOK'
  <2>1. \A m \in Controls : store'[m] = IF m = n THEN d ELSE store[m]
    BY <1>9 DEF CallsOK
  <2>2. \A m \in Controls : store'[m] # Broken
    BY <2>1 DEF EffectOK, SupervisorAssumption
  <2>3. ASSUME ~stop.stopped, NEW m \in Controls PROVE SeenTo(m)'
    <3>1. CASE m = n
      <4>1. Asked(n)'
        BY <1>9 DEF Asked
      <4> QED
        BY <3>1, <4>1 DEF SeenTo
    <3>2. CASE m # n
      BY <1>3, <1>7, <1>9, <2>1, <2>3, <3>2 DEF EffectOK
    <3> QED
      BY <3>1, <3>2
  <2> QED
    BY <1>0, <1>2, <1>9, <2>2, <2>3 DEF EffectOK
<1>10. CASE StoreControl(c)
  <2>1. PICK n \in Controls, d \in Documents : n = calls[c].name /\ d = calls[c].doc
    BY <1>10 DEF CallsOK, StoreControl
  <2>2. calls'[c] = [calls[c] EXCEPT !.step = "written"]
    BY <1>5, <1>10 DEF StoreControl
  <2>3. calls'[c].name = n /\ calls'[c].step = "written"
    BY <1>5, <2>1, <2>2 DEF Call
  <2>4. /\ calls[c].step = "checked" /\ store' = [store EXCEPT ![n] = d] /\ UNCHANGED requests
    BY <1>10, <2>1 DEF StoreControl
  <2> QED
    BY <1>9, <2>3, <2>4
<1>11. ASSUME NEW n \in Controls, DeleteControl(c, n) PROVE EffectOK'
  <2>1. calls'[c] = [name |-> n, doc |-> Missing, step |-> "deleted"]
    BY <1>5, <1>11 DEF DeleteControl
  <2>2. calls[c].step = "idle" /\ store' = [store EXCEPT ![n] = Missing] /\ UNCHANGED requests
    BY <1>11 DEF DeleteControl, Begins
  <2>3. calls'[c].name = n /\ calls'[c].step = "deleted" /\ Missing \in Documents \cup {Missing}
    BY <2>1
  <2> QED
    BY <1>9, <2>2, <2>3
<1>12. CASE RequestReload(c)
  <2>1. /\ UNCHANGED store
        /\ requests' = IF stop.stopped THEN requests ELSE Append(requests, calls[c].name)
    BY <1>12 DEF RequestReload
  <2>2. requests' \in Seq(Controls \cup {NoOne})
    BY <1>5, <2>1 DEF EffectOK, Call
  <2>3. ASSUME ~stop.stopped, NEW n \in Controls PROVE SeenTo(n)'
    <3>1. PICK name \in Controls \cup {NoOne} : name = calls[c].name
      BY <1>5 DEF Call
    <3>2. requests \in Seq(Controls \cup {NoOne}) /\ requests' = Append(requests, name)
      BY <2>1, <2>3, <3>1 DEF EffectOK
    <3>3. /\ \A i \in DOMAIN requests : i \in DOMAIN requests' /\ requests'[i] = requests[i]
          /\ Len(requests) + 1 \in DOMAIN requests' /\ requests'[Len(requests) + 1] = name
      BY <3>2
    <3>4. Values(requests) \subseteq Values(requests') /\ name \in Values(requests')
      BY <3>3 DEF Values
    <3>5. calls[c].name = n => Asked(n)'
      BY <3>1, <3>4 DEF Asked, Values
    <3>6. Asked(n) => Asked(n)'
      BY <1>7, <3>4, <3>5
    <3> QED
      BY <1>3, <2>1, <2>3, <3>6 DEF EffectOK
  <2> QED
    BY <1>0, <1>2, <2>1, <2>2, <2>3 DEF EffectOK
<1>13. CASE StoreFails(c) \/ (\E n \in Controls : SetEnabled(c, n) \/ \E d \in Documents : Save(c, n, d))
  BY <1>8, <1>13 DEF StoreFails, SetEnabled, Save, Begins
<1> QED
  BY <1>4, <1>10, <1>11, <1>12, <1>13

EffectInv ==
  /\ QuietInv /\ StoreInv /\ spent["edits"] = 0
  /\ spent["wedges"] = 0 => EffectOK

LEMMA EffectStart == SupervisorAssumption /\ StartClean /\ Init => EffectInv
<1> SUFFICES ASSUME SupervisorAssumption, StartClean, Init PROVE EffectInv
  OBVIOUS
<1>1. PICK kept \in SUBSET Controls :
        /\ Supervised(kept, store, readable)
        /\ children = [n \in Controls |->
                         IF n \in kept THEN [doc |-> store[n], restart |-> "no", held |-> FALSE]
                         ELSE NoChild]
        /\ at = [t \in Threads |->
                   [phase |-> IF t = Loop THEN "start_all" ELSE "idle", step |-> "next",
                    cur |-> NoOne, then |-> "nothing", seen |-> {},
                    left |-> IF t = Loop THEN kept ELSE {}]]
  BY DEF Init
<1>2. readable /\ OneEnabledStored /\ \A n \in Controls : store[n] # Broken
  BY DEF Init
<1>3. \A n \in Controls : n \in kept <=> ControlIsEnabled(store[n])
  <2>1. \A m, n \in Controls : m < n => m # n
    BY DEF SupervisorAssumption
  <2> QED
    BY <1>1, <1>2, <2>1 DEF Supervised, OneEnabledStored
<1>4. \A n \in kept : children[n] \in Child /\ children[n].doc = store[n] /\ children[n].held = FALSE
  BY <1>1, <1>3 DEF Child, ControlIsEnabled
<1>5. Existing = kept /\ Held = {}
  <2>0. NoChild \notin Child
    BY DEF Child, SupervisorAssumption
  <2>1. Existing = kept
    BY <1>1, <1>4, <2>0 DEF Existing
  <2> QED
    BY <1>4, <2>1 DEF Held
<1>6. \A n \in Controls : Right(n)
  BY <1>3, <1>4, <1>5 DEF Right
<1>7. at[Loop].step = "next" /\ at[Loop].phase = "start_all"
  BY <1>1 DEF Threads
<1>8. \A n \in Controls : ~Removing(n) /\ ~Restarting(n)
  BY <1>7 DEF Removing, Restarting, TurnsTo
<1>9. requests \in Seq(Controls \cup {NoOne}) /\ batch = <<>> /\ Listed(batch)
  <2>1. requests = <<>> /\ batch = <<>>
    BY DEF Init
  <2> QED
    BY <2>1 DEF Listed
<1>10. EffectOK
  BY <1>2, <1>6, <1>8, <1>9 DEF EffectOK, SeenTo
<1>11. StoreInv /\ spent["edits"] = 0
  BY <1>2 DEF Init, StoreInv, CallsOK, NoCall, Call, Writing, Bounds
<1> QED
  BY <1>10, <1>11, QuietStart DEF EffectInv

LEMMA EffectStep ==
  ASSUME SupervisorAssumption, MaxEdits = 0, EffectInv, [Next]_vars
  PROVE  EffectInv'
<1>1. ~EditByHand
  BY DEF EditByHand, Spend, Bounds, EffectInv
<1>2. QuietInv /\ QuietInv'
  BY QuietStep DEF EffectInv
<1>3. spent'["edits"] = 0
  BY <1>1, EditsStay DEF EffectInv, QuietInv, SpentOK
<1>4. StoreInv'
  <2>1. CASE Tools
    BY <2>1, ToolsKeep DEF EffectInv
  <2>2. CASE ~Tools
    BY <1>1, <2>2, OthersLeaveTheStore
       DEF EffectInv, StoreInv, CallsOK, OneEnabledStored, Writing, MayBeStored
  <2> QED
    BY <2>1, <2>2
<1>5. ASSUME spent'["wedges"] = 0 PROVE EffectOK'
  <2>1. spent["wedges"] = 0
    BY <1>2, <1>5, SpentGrows DEF QuietInv, SpentOK, Bounds
  <2>2. ThreadInv /\ Quiet /\ EffectOK /\ CallsOK
    BY <1>2, <2>1 DEF EffectInv, QuietInv, StoreInv
  <2> QED
    BY <1>1, <2>2, PollsEffect, HandlesEffect, OthersEffect, ToolsEffect DEF Next
<1> QED
  BY <1>2, <1>3, <1>4, <1>5 DEF EffectInv

(* Where no document is edited by hand, a pass that finds nothing asked for  *)
(* has supervised exactly the controls stored enabled, from the documents    *)
(* stored, and no process has read another: no request is lost between the   *)
(* callers, the queue, the batch and the child in hand, whatever fails on    *)
(* the way (request_reload, _apply_reload_requests, _reload, _restart).      *)
THEOREM WhatIsStoredIsRun ==
  ASSUME SupervisorAssumption, StartClean, MaxEdits = 0
  PROVE  Safety => [](spent["wedges"] = 0 => InEffect)
<1>1. SupervisorAssumption /\ EffectInv => (spent["wedges"] = 0 => InEffect)
  <2> SUFFICES ASSUME SupervisorAssumption, EffectInv, spent["wedges"] = 0, Settled,
                      NEW n \in Controls
               PROVE  Right(n)
    BY DEF InEffect, Right
  <2>1. Quiet /\ EffectOK
    BY DEF EffectInv, QuietInv
  <2>2. ~stop.stopped
    BY <2>1 DEF Quiet, AloneOK, Settled
  <2>3. ~Asked(n)
    BY DEF Asked, Values, Settled
  <2>4. ~Removing(n) /\ ~Restarting(n)
    BY DEF Removing, Restarting, TurnsTo, Settled
  <2> QED
    BY <2>1, <2>2, <2>3, <2>4 DEF EffectOK, SeenTo
<1>2. EffectInv /\ [Next]_vars => EffectInv'
  BY EffectStep
<1>3. Init => EffectInv
  BY EffectStart
<1> QED
  BY <1>1, <1>2, <1>3, PTL DEF Safety
=============================================================================
