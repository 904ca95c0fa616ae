----------------------------- MODULE Supervisor -----------------------------
(***************************************************************************)
(* The control supervisor (toinflux/supervision.py) and what acts on it:   *)
(* the MCP tools that write control documents (toinflux/mcp_controls.py),  *)
(* the control processes it starts (toinflux/control_process.py), seen     *)
(* from outside, and the collector's exit handler (sendtoinflux.py).       *)
(*                                                                         *)
(* An action is a read of the disk with what is decided from it, a whole   *)
(* command to the devices, or a wait that ends.  Time is abstracted: a     *)
(* backoff, a grace period or a join ends at any later moment, and how     *)
(* often a control failed, which only sets how long it waits, is left out. *)
(* One device name on one source stands for all: an actuator is that       *)
(* device on the instance the document names, or names none.  Documents    *)
(* whose safe state is leave_unchanged are left out.                       *)
(*                                                                         *)
(* Beside some definitions stands one that goes wrong as the code might    *)
(* (SpeltAlike, NoLock, StartNever, ...).  Nothing uses those: put in the  *)
(* place of the definition they stand beside, they make a property fail.   *)
(***************************************************************************)
EXTENDS Integers, Sequences, FiniteSets

CONSTANTS
  Controls,    (* control names, as numbers: names are taken in sorted order  *)
  Devices,     (* the device of each instance, in the order they are grouped  *)
  Unnamed,     (* an actuator spec that names no instance                     *)
  First,       (* the instance it then means: the first configured one        *)
  Documents,   (* the valid documents that may be stored                      *)
  Missing,     (* no document is stored                                       *)
  Broken,      (* what is stored cannot be read or is not valid               *)
  NoDoc,       (* the parent holds no document for the child                  *)
  NoChild,     (* the control is not in Supervisor.children                   *)
  NoOne,       (* no control left the device energised                        *)
  Callers,     (* MCP calls that may run at once, each on a thread            *)
  Loop, Exit,  (* the supervisor's thread and the exit handler                *)
  StartClean,  (* no hand edit precedes the start                             *)
  Shutdowns,   (* the service may be told to stop                             *)
  MaxWrites,   (* bound on MCP calls that write                               *)
  MaxEdits,    (* bound on edits by hand                                      *)
  MaxFaults,   (* bound on faults of processes and of starting one            *)
  MaxOutages,  (* bound on outages of a bridge                                *)
  MaxWedges    (* bound on joins that time out                                *)

Specs == Devices \cup {Unnamed}
Threads == {Loop, Exit}

ASSUME SupervisorAssumption ==
  /\ Controls \subseteq Nat /\ IsFiniteSet(Controls)
  /\ Devices \subseteq Nat /\ First \in Devices
  /\ Unnamed \in Nat /\ \A d \in Devices : d < Unnamed
  /\ Documents \subseteq [specs : SUBSET Specs, enabled : BOOLEAN]
  /\ \A doc \in Documents : \A e \in BOOLEAN : [doc EXCEPT !.enabled = e] \in Documents
  /\ {Missing, Broken} \cap Documents = {} /\ Missing # Broken
  /\ NoDoc \notin Documents
  /\ NoChild \notin [doc : Documents \cup {NoDoc}, restart : {"no", "waiting", "due"}, held : BOOLEAN]
  /\ NoOne \notin Controls
  /\ Loop # Exit
  /\ StartClean \in BOOLEAN /\ Shutdowns \in BOOLEAN
  /\ {MaxWrites, MaxEdits, MaxFaults, MaxOutages, MaxWedges} \subseteq Nat

VARIABLES
  (* on disk *)
  store,     (* the document stored under each name                           *)
  readable,  (* the settings can be read                                      *)
  (* the MCP tools *)
  calls,     (* what each caller is doing                                     *)
  requests,  (* _reload_requests                                              *)
  (* the supervisor *)
  children,  (* children: document, restart_at ("no", "waiting" or "due"),    *)
             (* whether a process is held                                     *)
  at,        (* each thread: the loop or walk it is in (phase), where in the  *)
             (* handling of one child (step), that child (cur), what follows  *)
             (* when it has been made safe (then), the names left (left), and *)
             (* the children there were when a walk of them began (seen)      *)
  batch,     (* the names _apply_reload_requests has drained, yet to reload   *)
  stop,      (* SHUTDOWN, _stopped and _finished                              *)
  (* the control processes and the devices *)
  proc,      (* each control's process: what it does, the document it read,   *)
             (* whether it was sent SIGTERM, and whether the document it read *)
             (* is other than the one the parent holds (stale)                *)
  reach,     (* devices whose bridge answers                                  *)
  lit,       (* the control whose command left the device energised           *)
  missed,    (* devices a safe state was last commanded for without reaching  *)
  stranded,  (* devices a dead process held that no known document names      *)
  spent      (* how much of each bound has been used                          *)

mcpVars == <<calls, requests>>
supVars == <<children, at, batch, stop>>
devVars == <<reach, lit, missed, stranded>>
vars == <<store, readable, mcpVars, supVars, proc, devVars, spent>>

-----------------------------------------------------------------------------
(* Documents and actuators.                                                 *)

Usable(d) == readable /\ d \in Documents

ControlIsEnabled(d) == d \in Documents /\ d.enabled

SpeltAlike(s, t) == s = t

(* An absent instance means the first configured one, so it may be any.     *)
MayBeOne(s, t) == s = t \/ Unnamed \in {s, t}

MayShare(d, e) == \E s \in d.specs, t \in e.specs : MayBeOne(s, t)

Target(s) == IF s = Unnamed THEN First ELSE s
Targets(d) == {Target(s) : s \in d.specs}

(* Another stored control is enabled and may command one of d's actuators.  *)
EnabledOwnerElsewhere(n, d) ==
  \E m \in Controls \ {n} : ControlIsEnabled(store[m]) /\ MayShare(d, store[m])

(* Devices are commanded instance by instance; the first that does not      *)
(* answer ends the command.                                                 *)
Reached(d) ==
  {Target(s) : s \in {s \in d.specs : \A t \in d.specs : t <= s => Target(t) \in reach}}

SwitchOff(devs) ==
  /\ lit' = [d \in Devices |-> IF d \in devs THEN NoOne ELSE lit[d]]
  /\ missed' = missed \ devs /\ stranded' = stranded \ devs

-----------------------------------------------------------------------------
(* The states of processes and of calls.                                    *)

Alive == {"loading", "asserting", "running", "hung", "leaving"}

Call == [name : Controls \cup {NoOne}, doc : Documents \cup {Missing},
         step : {"idle", "checked", "written", "deleted"}]

NoCall == [name |-> NoOne, doc |-> Missing, step |-> "idle"]

Bounds == [writes |-> MaxWrites, edits |-> MaxEdits, faults |-> MaxFaults,
           outages |-> MaxOutages, wedges |-> MaxWedges]

Spend(what) ==
  /\ spent[what] < Bounds[what]
  /\ spent' = [spent EXCEPT ![what] = @ + 1]

-----------------------------------------------------------------------------
(* Starting: the constructor takes the stored names in order and keeps      *)
(* each that is usable, enabled, and no possible sharer of an earlier one's *)
(* actuators.                                                               *)

SupervisedDisabled(kept, st, r) ==
  kept = {n \in Controls :
            /\ r /\ st[n] \in Documents
            /\ \A m \in Controls :
                 m < n /\ ControlIsEnabled(st[m]) /\ ControlIsEnabled(st[n]) => ~MayShare(st[m], st[n])}

Supervised(kept, st, r) ==
  LET able == {n \in Controls : r /\ ControlIsEnabled(st[n])}
  IN  /\ kept \subseteq able
      /\ \A n \in able : n \in kept <=> \A m \in kept : m < n => ~MayShare(st[m], st[n])

Existing == {n \in Controls : children[n] # NoChild}
Held == {n \in Existing : children[n].held}

(* The MCP tools leave no two enabled documents that may share an actuator. *)
OneEnabledStored ==
  \A m, n \in Controls :
    m # n /\ ControlIsEnabled(store[m]) /\ ControlIsEnabled(store[n])
      => ~MayShare(store[m], store[n])

Init ==
  /\ store \in [Controls -> Documents \cup {Missing, Broken}]
  /\ readable \in BOOLEAN
  /\ StartClean => /\ readable /\ OneEnabledStored
                   /\ \A n \in Controls : store[n] # Broken
  /\ calls = [c \in Callers |-> NoCall] /\ requests = <<>>
  /\ \E kept \in SUBSET Controls :
       /\ Supervised(kept, store, readable)
       /\ children = [n \in Controls |->
                        IF n \in kept
                          THEN [doc |-> store[n], restart |-> "no", held |-> FALSE]
                          ELSE NoChild]
       /\ at = [t \in Threads |->
                  [phase |-> IF t = Loop THEN "start_all" ELSE "idle", step |-> "next",
                   cur |-> NoOne, then |-> "nothing", seen |-> {},
                   left |-> IF t = Loop THEN kept ELSE {}]]
  /\ batch = <<>>
  /\ stop = [asked |-> FALSE, stopped |-> FALSE, finished |-> FALSE]
  /\ proc = [n \in Controls |->
               [phase |-> "none", doc |-> NoDoc, term |-> FALSE, stale |-> FALSE]]
  /\ reach = Devices
  /\ lit = [d \in Devices |-> NoOne] /\ missed = {} /\ stranded = {}
  /\ spent = [b \in DOMAIN Bounds |-> 0]

-----------------------------------------------------------------------------
(* The MCP tools.  A call that writes holds _WRITE_LOCK from its check of   *)
(* the stored documents to its request; delete asks after letting it go.    *)

NoLock == TRUE
LockFree == \A c \in Callers : calls[c].step \in {"idle", "deleted"}

Begins(c) == calls[c].step = "idle" /\ LockFree /\ at[Exit].phase # "done"

(* An enabled document that clashes with another is stored disabled.        *)
Save(c, n, d) ==
  /\ Begins(c) /\ readable
  /\ calls' = [calls EXCEPT ![c] =
       [name |-> n, step |-> "checked",
        doc |-> [d EXCEPT !.enabled = @ /\ ~EnabledOwnerElsewhere(n, d)]]]
  /\ Spend("writes")
  /\ UNCHANGED <<store, readable, requests, supVars, proc, devVars>>

(* Enabling one that clashes is refused; no change writes nothing.          *)
SetEnabled(c, n) ==
  /\ Begins(c) /\ Usable(store[n])
  /\ LET d == store[n]
     IN  /\ ~d.enabled => ~EnabledOwnerElsewhere(n, d)
         /\ calls' = [calls EXCEPT ![c] =
              [name |-> n, step |-> "checked", doc |-> [d EXCEPT !.enabled = ~@]]]
  /\ Spend("writes")
  /\ UNCHANGED <<store, readable, requests, supVars, proc, devVars>>

StoreControl(c) ==
  /\ calls[c].step = "checked"
  /\ store' = [store EXCEPT ![calls[c].name] = calls[c].doc]
  /\ calls' = [calls EXCEPT ![c].step = "written"]
  /\ UNCHANGED <<readable, requests, supVars, proc, devVars, spent>>

(* The document cannot be written: nothing is asked for.                    *)
StoreFails(c) ==
  /\ calls[c].step = "checked"
  /\ Spend("faults")
  /\ calls' = [calls EXCEPT ![c] = NoCall]
  /\ UNCHANGED <<store, readable, requests, supVars, proc, devVars>>

DeleteControl(c, n) ==
  /\ Begins(c) /\ store[n] # Missing
  /\ store' = [store EXCEPT ![n] = Missing]
  /\ calls' = [calls EXCEPT ![c] = [name |-> n, doc |-> Missing, step |-> "deleted"]]
  /\ Spend("writes")
  /\ UNCHANGED <<readable, requests, supVars, proc, devVars>>

(* Ignored once the supervisor is stopping.                                 *)
RequestReload(c) ==
  /\ calls[c].step \in {"written", "deleted"}
  /\ requests' = IF stop.stopped THEN requests ELSE Append(requests, calls[c].name)
  /\ calls' = [calls EXCEPT ![c] = NoCall]
  /\ UNCHANGED <<store, readable, supVars, proc, devVars, spent>>

(* Somebody edits a document or the settings by hand.                       *)
EditByHand ==
  /\ Spend("edits")
  /\ \/ /\ \E n \in Controls, d \in Documents \cup {Missing, Broken} :
             store' = [store EXCEPT ![n] = d]
        /\ UNCHANGED readable
     \/ readable' = ~readable /\ UNCHANGED store
  /\ UNCHANGED <<mcpVars, supVars, proc, devVars>>

-----------------------------------------------------------------------------
(* The supervisor's thread, and the exit handler where it walks the         *)
(* children itself.  The interpreter's exit ends the thread.                *)

MayStep(t, phase, step) ==
  /\ at[t].phase = phase /\ at[t].step = step
  /\ at[Exit].phase # "done"

Goto(t, phase, left) ==
  at' = [at EXCEPT ![t] = [phase |-> phase, step |-> "next", cur |-> NoOne,
                           then |-> "nothing", left |-> left,
                           seen |-> IF phase = "walk" THEN left ELSE {}]]

(* Done with one child of the loop the thread is in.                        *)
NextChild(t, n) ==
  at' = [at EXCEPT ![t].step = "next", ![t].cur = NoOne, ![t].then = "nothing",
                   ![t].left = @ \ {n}]

Handle(t, n, step, then) ==
  at' = [at EXCEPT ![t] = [@ EXCEPT !.step = step, !.cur = n, !.then = then]]

SendTerm(ns) ==
  proc' = [n \in Controls |-> IF n \in ns /\ proc[n].phase \in Alive
                                THEN [proc[n] EXCEPT !.term = TRUE] ELSE proc[n]]

(* start: read the settings and the document afresh, then spawn.  The       *)
(* process reads the document for itself, later.                            *)
RefreshedNever(n) == children[n].doc
Refreshed(n) == IF Usable(store[n]) THEN store[n] ELSE children[n].doc

StartNever(n, d) ==
  children' = [children EXCEPT ![n] = [doc |-> d, restart |-> "no", held |-> FALSE]]

StartLater(n, d) ==
  children' = [children EXCEPT ![n] = [doc |-> d, restart |-> "waiting", held |-> FALSE]]

Restart(n) ==
  \/ /\ ~readable
     /\ StartLater(n, children[n].doc)
     /\ UNCHANGED <<proc, spent>>
  \/ /\ readable
     /\ Spend("faults")
     /\ StartLater(n, Refreshed(n))
     /\ UNCHANGED proc
  \/ /\ readable
     /\ children' = [children EXCEPT ![n] =
                       [doc |-> Refreshed(n), restart |-> "no", held |-> TRUE]]
     /\ proc' = [proc EXCEPT ![n] =
                   [phase |-> "loading", doc |-> NoDoc, term |-> FALSE, stale |-> FALSE]]
     /\ UNCHANGED spent

StartAll ==
  /\ MayStep(Loop, "start_all", "next")
  /\ \E n \in at[Loop].left : Restart(n) /\ NextChild(Loop, n)
  /\ UNCHANGED <<store, readable, mcpVars, batch, stop, devVars>>

(* From one loop of a pass to the next, once nothing is left of it.         *)
StartsPolling ==
  /\ MayStep(Loop, "start_all", "next") /\ at[Loop].left = {}
  /\ Goto(Loop, "top", {})
  /\ UNCHANGED <<store, readable, mcpVars, children, batch, stop, proc, devVars, spent>>

FirstAppearances(s) ==
  LET new == {i \in DOMAIN s : \A j \in DOMAIN s : j < i => s[j] # s[i]}
  IN  [k \in 1..Cardinality(new) |->
         s[CHOOSE i \in new : Cardinality({j \in new : j <= i}) = k]]

(* poll, first part: drain the requests, each name once.                    *)
Drain ==
  /\ MayStep(Loop, "top", "next") /\ ~stop.asked
  /\ batch' = FirstAppearances(requests) /\ requests' = <<>>
  /\ Goto(Loop, "reload", {})
  /\ UNCHANGED <<store, readable, calls, children, stop, proc, devVars, spent>>

(* _stop, _drop and _disable, as far as the child's process is concerned.   *)
LetGo(n, then) ==
  IF n \in Held
    THEN Handle(Loop, n, "ending", then) /\ SendTerm({n})
    ELSE Handle(Loop, n, "safe", then) /\ UNCHANGED proc

NextReload == MayStep(Loop, "reload", "next") /\ batch # <<>>

(* _drop or _disable: the document is gone, or usable and not enabled.      *)
ReloadRemoves ==
  /\ NextReload
  /\ LET n == Head(batch)
     IN  /\ store[n] = Missing \/ (Usable(store[n]) /\ ~ControlIsEnabled(store[n]))
         /\ IF n \in Existing THEN LetGo(n, "remove") ELSE UNCHANGED <<at, proc>>
  /\ batch' = Tail(batch)
  /\ UNCHANGED <<store, readable, mcpVars, children, stop, devVars, spent>>

(* The document cannot be used: whatever is running is left alone.          *)
ReloadFails ==
  /\ NextReload
  /\ store[Head(batch)] # Missing /\ ~Usable(store[Head(batch)])
  /\ batch' = Tail(batch)
  /\ UNCHANGED <<store, readable, mcpVars, children, at, stop, proc, devVars, spent>>

(* Take the control on, or stop what is running, and start it afresh.       *)
ReloadStarts ==
  /\ NextReload
  /\ LET n == Head(batch)
     IN  /\ Usable(store[n]) /\ ControlIsEnabled(store[n])
         /\ children' = [children EXCEPT ![n] =
              IF n \in Existing THEN [children[n] EXCEPT !.restart = IF n \in Held THEN @ ELSE "due"]
              ELSE [doc |-> NoDoc, restart |-> "due", held |-> FALSE]]
         /\ IF n \in Held
              THEN Handle(Loop, n, "ending", "restart") /\ SendTerm({n})
              ELSE Handle(Loop, n, "restart", "nothing") /\ UNCHANGED proc
  /\ batch' = Tail(batch)
  /\ UNCHANGED <<store, readable, mcpVars, stop, devVars, spent>>

ReloadRestarts ==
  /\ MayStep(Loop, "reload", "restart")
  /\ Restart(at[Loop].cur) /\ NextChild(Loop, at[Loop].cur)
  /\ UNCHANGED <<store, readable, mcpVars, batch, stop, devVars>>

(* poll, second part: the pipes that have reached EOF when select returns.  *)
(* Beats only put off the moment a child is taken for stalled.              *)
Select ==
  /\ MayStep(Loop, "reload", "next") /\ batch = <<>>
  /\ Goto(Loop, "read", {n \in Held : proc[n].phase = "dead"})
  /\ UNCHANGED <<store, readable, mcpVars, children, batch, stop, proc, devVars, spent>>

Release(n, restart) ==
  /\ children' = [children EXCEPT ![n].held = FALSE, ![n].restart = restart]
  /\ proc' = [proc EXCEPT ![n].phase = "none", ![n].term = FALSE]

(* _reap of a child whose pipe is at its end.                               *)
ReadEof ==
  /\ MayStep(Loop, "read", "next")
  /\ \E n \in at[Loop].left :
       /\ n \in Held
       /\ Release(n, "waiting")
       /\ Handle(Loop, n, "safe", "reap")
  /\ UNCHANGED <<store, readable, mcpVars, batch, stop, devVars, spent>>

(* poll, last part.                                                         *)
Scan ==
  /\ MayStep(Loop, "read", "next") /\ at[Loop].left = {}
  /\ Goto(Loop, "scan", Existing)
  /\ UNCHANGED <<store, readable, mcpVars, children, batch, stop, proc, devVars, spent>>

(* The plausible bug: a silent child passes for a live one.                 *)
ScanStalledPasses ==
  /\ MayStep(Loop, "scan", "next")
  /\ \E n \in at[Loop].left :
       /\ n \in Held /\ proc[n].phase = "hung"
       /\ NextChild(Loop, n)
  /\ UNCHANGED <<store, readable, mcpVars, children, batch, stop, proc, devVars, spent>>

(* _kill of a child that has been silent for too long.                      *)
ScanStalled ==
  /\ MayStep(Loop, "scan", "next")
  /\ \E n \in at[Loop].left :
       /\ n \in Held /\ proc[n].phase = "hung"
       /\ SendTerm({n})
       /\ Handle(Loop, n, "ending", "reap")
  /\ UNCHANGED <<store, readable, mcpVars, children, batch, stop, devVars, spent>>

ScanDue ==
  /\ MayStep(Loop, "scan", "next")
  /\ \E n \in at[Loop].left :
       /\ n \notin Held /\ children[n].restart = "due"
       /\ Restart(n) /\ NextChild(Loop, n)
  /\ UNCHANGED <<store, readable, mcpVars, batch, stop, devVars>>

(* Neither stalled nor due; a silence just begun is not a stall yet.        *)
ScanPasses ==
  /\ MayStep(Loop, "scan", "next")
  /\ \E n \in at[Loop].left :
       /\ n \in Held \/ children[n].restart # "due"
       /\ NextChild(Loop, n)
  /\ UNCHANGED <<store, readable, mcpVars, children, batch, stop, proc, devVars, spent>>

PollEnds ==
  /\ MayStep(Loop, "scan", "next") /\ at[Loop].left = {}
  /\ Goto(Loop, "top", {})
  /\ UNCHANGED <<store, readable, mcpVars, children, batch, stop, proc, devVars, spent>>

(* The end of _terminate and _release: the process has gone, or its grace   *)
(* period ends and it is killed.  A child another thread has released has   *)
(* no process any more, and the exception ends this one.                    *)
RestartAfter(then) ==
  CASE then = "reap" -> "waiting" [] then = "restart" -> "due" [] OTHER -> "no"

Ended(t) ==
  LET n == at[t].cur
  IN  /\ MayStep(t, at[t].phase, "ending")
      /\ n \in Held
      /\ Release(n, RestartAfter(at[t].then))
      /\ Handle(t, n, "safe", at[t].then)
      /\ UNCHANGED <<store, readable, mcpVars, batch, stop, devVars, spent>>

EndedElsewhere(t) ==
  /\ MayStep(t, at[t].phase, "ending")
  /\ at[t].cur \notin Held
  /\ Goto(t, "done", {})
  /\ UNCHANGED <<store, readable, mcpVars, children, batch, stop, proc, devVars, spent>>

DocumentsOnDisk(n) == IF Usable(store[n]) THEN {store[n]} ELSE {}

(* make_safe: from the document the process was started from, and from the  *)
(* one stored now where it can be used, enabled or not.                     *)
DocumentsFor(n) ==
  (IF n \in Existing THEN {children[n].doc} \ {NoDoc} ELSE {})
    \cup (IF Usable(store[n]) THEN {store[n]} ELSE {})

MakeSafe(t) ==
  LET n == at[t].cur
      wanted == UNION {Targets(d) : d \in DocumentsFor(n)}
      off == UNION {Reached(d) : d \in DocumentsFor(n)}
  IN  /\ MayStep(t, at[t].phase, "safe")
      /\ lit' = [d \in Devices |-> IF d \in off THEN NoOne ELSE lit[d]]
      /\ missed' = (missed \cup wanted) \ off
      /\ stranded' = (stranded \ off) \cup
           {d \in Devices \ wanted : lit[d] = n /\ proc[n].stale}
      /\ children' = [children EXCEPT ![n] = IF at[t].then = "remove" THEN NoChild ELSE @]
      /\ IF at[t].then = "restart" THEN Handle(t, n, "restart", "nothing") ELSE NextChild(t, n)
      /\ UNCHANGED <<store, readable, mcpVars, batch, stop, proc, reach, spent>>

StopAllAgain(t) ==
  /\ stop' = [stop EXCEPT !.stopped = TRUE]
  /\ SendTerm(Held)
  /\ Goto(t, "walk", Existing)

StopAllSignals(t) ==
  /\ IF stop.stopped THEN UNCHANGED <<stop, proc>>
     ELSE stop' = [stop EXCEPT !.stopped = TRUE, !.finished = TRUE] /\ SendTerm(Held)
  /\ Goto(t, "done", {})

(* stop_all: once, by whoever comes first.                                  *)
StopAll(t) ==
  IF stop.stopped
    THEN Goto(t, "done", {}) /\ UNCHANGED <<stop, proc>>
    ELSE /\ stop' = [stop EXCEPT !.stopped = TRUE]
         /\ SendTerm(Held)
         /\ Goto(t, "walk", Existing)

LoopStops ==
  /\ MayStep(Loop, "top", "next") /\ stop.asked
  /\ StopAll(Loop)
  /\ UNCHANGED <<store, readable, mcpVars, children, batch, devVars, spent>>

(* A dict that changes size under an iteration ends it with an exception.   *)
Undone(t) == Cardinality(Existing) # Cardinality(at[t].seen)

WalkBreaks(t) ==
  /\ MayStep(t, "walk", "next") /\ Undone(t)
  /\ Goto(t, "done", {})
  /\ UNCHANGED <<store, readable, mcpVars, children, batch, stop, proc, devVars, spent>>

Walk(t) ==
  /\ MayStep(t, "walk", "next") /\ ~Undone(t)
  /\ \E n \in at[t].left :
       IF n \in Held THEN Handle(t, n, "ending", "nothing") ELSE NextChild(t, n)
  /\ UNCHANGED <<store, readable, mcpVars, children, batch, stop, proc, devVars, spent>>

WalkEnds(t) ==
  /\ MayStep(t, "walk", "next") /\ ~Undone(t) /\ at[t].left = {}
  /\ stop' = [stop EXCEPT !.finished = TRUE]
  /\ Goto(t, "done", {})
  /\ UNCHANGED <<store, readable, mcpVars, children, batch, proc, devVars, spent>>

-----------------------------------------------------------------------------
(* The exit handler, _stop_supervising.  Its end is the interpreter's.      *)

(* A signal to the service; systemctl stop signals the controls as well.    *)
Shutdown ==
  /\ Shutdowns /\ MayStep(Exit, "idle", "next")
  /\ stop' = [stop EXCEPT !.asked = TRUE]
  /\ \E ns \in {{}, Controls} : SendTerm(ns)
  /\ Goto(Exit, "join", {})
  /\ UNCHANGED <<store, readable, mcpVars, children, batch, devVars, spent>>

(* The thread has ended: stop_all, which it has ordinarily done itself.     *)
Joined ==
  /\ MayStep(Exit, "join", "next") /\ at[Loop].phase = "done"
  /\ StopAll(Exit)
  /\ UNCHANGED <<store, readable, mcpVars, children, batch, devVars, spent>>

(* The join times out: wait again for a teardown under way, or do it here.  *)
(* Nothing the thread does outlasts the join but a command to a bridge.     *)
JoinTimesOut ==
  /\ MayStep(Exit, "join", "next") /\ at[Loop].step = "safe"
  /\ Spend("wedges")
  /\ IF stop.stopped /\ ~stop.finished
       THEN Goto(Exit, "join2", {}) /\ UNCHANGED <<stop, proc>>
       ELSE StopAll(Exit)
  /\ UNCHANGED <<store, readable, mcpVars, children, batch, devVars>>

JoinedOnceDone ==
  /\ MayStep(Exit, "join2", "next") /\ at[Loop].phase = "done"
  /\ Goto(Exit, "done", {})
  /\ UNCHANGED <<store, readable, mcpVars, children, batch, stop, proc, devVars, spent>>

(* The second join ends, and so does the process, finished or not.          *)
JoinedAgain ==
  /\ MayStep(Exit, "join2", "next")
  /\ \/ at[Loop].phase = "done" /\ UNCHANGED spent
     \/ at[Loop].step = "safe" /\ Spend("wedges")
  /\ Goto(Exit, "done", {})
  /\ UNCHANGED <<store, readable, mcpVars, children, batch, stop, proc, devVars>>

-----------------------------------------------------------------------------
(* A control process, seen from outside.  It reads its own document, makes  *)
(* its devices safe, commands them cycle by cycle, and makes them safe      *)
(* again on its way out unless it is killed.                                *)

othersVars == <<store, readable, mcpVars, supVars>>

Becomes(n, phase) == proc' = [proc EXCEPT ![n].phase = phase]

Load(n) ==
  /\ proc[n].phase = "loading"
  /\ IF Usable(store[n])
       THEN proc' = [proc EXCEPT ![n].phase = "asserting", ![n].doc = store[n],
                                 ![n].stale = store[n] # children[n].doc]
       ELSE Becomes(n, "dead")
  /\ UNCHANGED <<othersVars, devVars, spent>>

(* assert_starting_state; a device it cannot reach ends the process.        *)
AssertStart(n) ==
  /\ proc[n].phase = "asserting"
  /\ SwitchOff(Reached(proc[n].doc))
  /\ Becomes(n, IF Targets(proc[n].doc) \subseteq reach THEN "running" ELSE "leaving")
  /\ UNCHANGED <<othersVars, reach, spent>>

(* One cycle: the gate, then any rung of the ladder.  A command that fails  *)
(* is followed by the safe state, as far as that reaches.                   *)
Cycle(n) ==
  /\ proc[n].phase = "running" /\ proc[n].doc.enabled
  /\ \E on \in SUBSET Targets(proc[n].doc) :
       lit' = [d \in Devices |->
                 IF d \notin Reached(proc[n].doc) THEN lit[d]
                 ELSE IF d \in on /\ Targets(proc[n].doc) \subseteq reach THEN n ELSE NoOne]
  /\ missed' = missed \ Reached(proc[n].doc)
  /\ stranded' = stranded \ Reached(proc[n].doc)
  /\ UNCHANGED <<othersVars, proc, reach, spent>>

(* SIGTERM, or an error a cycle does not survive.                           *)
Terminated(n) ==
  /\ proc[n].term /\ proc[n].phase \in {"loading", "asserting", "running", "leaving"}
  /\ proc' = [proc EXCEPT ![n].term = FALSE,
       ![n].phase = CASE @ = "loading" -> "dead"
                      [] @ \in {"asserting", "running"} -> "leaving"
                      [] @ = "leaving" -> "dead"]
  /\ UNCHANGED <<othersVars, devVars, spent>>

Fails(n) ==
  /\ proc[n].phase \in {"asserting", "running"}
  /\ Spend("faults")
  /\ Becomes(n, "leaving")
  /\ UNCHANGED <<othersVars, devVars>>

(* DeviceGuard.stop.                                                        *)
Leave(n) ==
  /\ proc[n].phase = "leaving"
  /\ SwitchOff(Reached(proc[n].doc))
  /\ Becomes(n, "dead")
  /\ UNCHANGED <<othersVars, reach, spent>>

Crash(n) ==
  /\ proc[n].phase \in Alive
  /\ Spend("faults")
  /\ Becomes(n, "dead")
  /\ UNCHANGED <<othersVars, devVars>>

Hang(n) ==
  /\ proc[n].phase = "running"
  /\ Spend("faults")
  /\ Becomes(n, "hung")
  /\ UNCHANGED <<othersVars, devVars>>

Wake(n) ==
  /\ proc[n].phase = "hung"
  /\ Becomes(n, "running")
  /\ UNCHANGED <<othersVars, devVars, spent>>

-----------------------------------------------------------------------------
(* Time and the bridges.                                                    *)

BackoffEnds(n) ==
  /\ n \in Existing /\ children[n].restart = "waiting" /\ at[Exit].phase # "done"
  /\ children' = [children EXCEPT ![n].restart = "due"]
  /\ UNCHANGED <<store, readable, mcpVars, at, batch, stop, proc, devVars, spent>>

Outage(d) ==
  /\ d \in reach
  /\ Spend("outages")
  /\ reach' = reach \ {d}
  /\ UNCHANGED <<othersVars, proc, lit, missed, stranded>>

Recovers(d) ==
  /\ d \notin reach
  /\ reach' = reach \cup {d}
  /\ UNCHANGED <<othersVars, proc, lit, missed, stranded, spent>>

-----------------------------------------------------------------------------

Tools ==
  \E c \in Callers :
    \/ \E n \in Controls : \/ \E d \in Documents : Save(c, n, d)
                           \/ SetEnabled(c, n) \/ DeleteControl(c, n)
    \/ StoreControl(c) \/ StoreFails(c) \/ RequestReload(c)

Polls ==
  \/ StartAll \/ StartsPolling \/ Drain
  \/ ReloadRemoves \/ ReloadFails \/ ReloadStarts \/ ReloadRestarts
  \/ Select \/ ReadEof \/ Scan \/ ScanStalled \/ ScanDue \/ ScanPasses \/ PollEnds
  \/ LoopStops

Handles(t) ==
  \/ Ended(t) \/ EndedElsewhere(t) \/ MakeSafe(t)
  \/ Walk(t) \/ WalkBreaks(t) \/ WalkEnds(t)

Exits == Joined \/ JoinTimesOut \/ JoinedAgain

Runs(n) ==
  \/ Load(n) \/ AssertStart(n) \/ Cycle(n) \/ Terminated(n) \/ Leave(n)
  \/ Fails(n) \/ Crash(n) \/ Hang(n) \/ Wake(n)

Next ==
  \/ Tools \/ EditByHand \/ Polls \/ Shutdown \/ Exits
  \/ \E t \in Threads : Handles(t)
  \/ \E n \in Controls : Runs(n) \/ BackoffEnds(n)
  \/ \E d \in Devices : Outage(d) \/ Recovers(d)

Safety == Init /\ [][Next]_vars

(* Every process, caller and clock that can step does so in the end, and an *)
(* outage ends.  A control that stays silent is taken for stalled.  Nothing *)
(* makes a tool be called, a signal be sent or a fault happen.              *)
Progress ==
  /\ \A c \in Callers : WF_vars(StoreControl(c)) /\ WF_vars(RequestReload(c))
  /\ WF_vars(Polls) /\ SF_vars(ScanStalled)
  /\ WF_vars(Exits) /\ WF_vars(Handles(Exit))
  /\ \A n \in Controls : /\ WF_vars(Load(n)) /\ WF_vars(AssertStart(n))
                          /\ WF_vars(Terminated(n)) /\ WF_vars(Leave(n))
                          /\ WF_vars(BackoffEnds(n))
  /\ \A d \in Devices : WF_vars(Recovers(d))

Spec == Safety /\ Progress /\ WF_vars(Handles(Loop))

(* The same, but the supervisor's thread may hang in a command to a bridge. *)
WedgedSpec ==
  Safety /\ Progress
    /\ WF_vars(Ended(Loop) \/ EndedElsewhere(Loop) \/ Walk(Loop) \/ WalkBreaks(Loop) \/ WalkEnds(Loop))

-----------------------------------------------------------------------------
(* Properties.                                                              *)

(* No device is left energised by a control that has gone: either its       *)
(* process is still there, or the parent has yet to see it end and make it  *)
(* safe, or the safe state was commanded and did not get through, or the    *)
(* process had read a document nobody else ever knew (_reap, _stop,         *)
(* make_safe, _documents_for).                                              *)
Answering(n) ==
  \/ proc[n].phase \in Alive
  \/ n \in Held /\ at[Exit].phase # "done"
  \/ \E t \in Threads : at[t].step = "safe" /\ at[t].cur = n

NothingLeftOn ==
  \A d \in Devices : lit[d] # NoOne => Answering(lit[d]) \/ d \in missed \/ d \in stranded

(* A pass that finds nothing asked for has every control as its document    *)
(* says: supervised exactly when it is stored enabled, and its process, once*)
(* it has read a document, running the one stored (request_reload, _reload, *)
(* _restart); edits by hand apart.                                          *)
Settled ==
  /\ requests = <<>> /\ batch = <<>>
  /\ \A c \in Callers : calls[c].step = "idle"
  /\ at[Loop].phase \in {"top", "read", "scan"} /\ at[Loop].step = "next"

InEffect ==
  Settled =>
    \A n \in Controls :
      /\ n \in Existing <=> ControlIsEnabled(store[n])
      /\ n \in Existing => children[n].doc = store[n]
      /\ n \in Held /\ proc[n].doc # NoDoc => proc[n].doc = store[n]

(* No child is forgotten: until the service is told to stop, each has       *)
(* between passes a process or a time at which it is started again (_reap,  *)
(* _restart, _reload).                                                      *)
NoneForgotten ==
  at[Exit].phase = "idle" /\ at[Loop].phase \in {"top", "scan"} /\ at[Loop].step = "next" =>
    \A n \in Existing : n \in Held \/ children[n].restart \in {"waiting", "due"}

(* Two control processes never command one device.                          *)
OneOwner ==
  \A m, n \in Controls :
    m # n /\ proc[m].phase = "running" /\ proc[n].phase = "running"
      /\ proc[m].doc.enabled /\ proc[n].doc.enabled
      => Targets(proc[m].doc) \cap Targets(proc[n].doc) = {}

(* Whatever the documents were at the start, the supervisor's choice among  *)
(* them leaves each device one owner until a document changes (__init__).   *)
AsAtStart == spent.writes = 0 /\ spent.edits = 0

OneOwnerAtStart == AsAtStart => OneOwner

(* Until a document changes, what a running control has energised nobody    *)
(* else switches off, its own parent included.                              *)
Undisturbed ==
  [][AsAtStart' =>
       \A n \in Controls, d \in Devices :
         lit[d] = n /\ lit'[d] # n /\ proc[n].phase = "running" => Cycle(n)]_vars

(* Making one control safe switches off nothing another is running: a       *)
(* replacement stored disabled because it clashes is harmless (make_safe,   *)
(* _documents_for).                                                         *)
SafeStateStaysHome ==
  [][\A t \in Threads, d \in Devices :
       MakeSafe(t) /\ lit[d] # NoOne /\ lit[d] # at[t].cur /\ proc[lit[d]].phase = "running"
         => lit'[d] = lit[d]]_vars

(* When the service has gone, no control is left running, and nothing is    *)
(* left on that its last command reached, unless the supervisor's thread was*)
(* given up on (stop_all, _stop_supervising).                               *)
CleanExit ==
  at[Exit].phase = "done" /\ spent.wedges = 0 =>
    /\ \A n \in Controls : proc[n].phase \notin Alive
    /\ \A d \in Devices : lit[d] # NoOne => d \in missed \/ d \in stranded

(* Whatever is asked of the tools, and whatever fails on the way, in the end*)
(* the controls stored enabled run the stored document and no other runs.   *)
Converges ==
  <>[](\A n \in Controls :
         IF ControlIsEnabled(store[n])
           THEN proc[n].phase = "running" /\ proc[n].doc = store[n]
           ELSE proc[n].phase \notin Alive)

(* The children are walked by one thread at most, also where the exit       *)
(* handler does not wait for the other to end (stop_all, _stop_lock).       *)
OneWalk == ~(at[Loop].phase = "walk" /\ at[Exit].phase = "walk")

(* A service told to stop does, even with a supervisor that hangs (run,     *)
(* stop_all, _stop_supervising).                                            *)
Stops == stop.asked ~> at[Exit].phase = "done"
=============================================================================
