------------------------------- MODULE Stream -------------------------------
(***************************************************************************)
(* A streaming source: src/toinflux/mqtt.py and nuki.py with the sink of   *)
(* src/sendtoinflux.py.  The client's network thread receives what the     *)
(* broker sends and puts it on a bounded queue; the worker takes from it,  *)
(* writes one point for each message, and at each interval reads the whole *)
(* state through a client of its own, writes that, and sends a heartbeat.  *)
(*                                                                         *)
(* One lock, whose state counts its changes, behind one broker.  A point   *)
(* goes to the series of the lock's name, or to that of its identifier     *)
(* while the name is not known.                                            *)
(***************************************************************************)
EXTENDS Integers, Sequences, FiniteSetsExt, SequencesExt

CONSTANTS
  QueueSize,     \* MAX_QUEUED_MESSAGES
  MaxChanges,    \* the bound on the changes of the lock
  MaxOutages     \* the bound on failures of the broker and the connection

ASSUME StreamAssumption ==
  QueueSize \in Nat \ {0} /\ MaxChanges \in Nat /\ MaxOutages \in Nat

VARIABLES
  lock,        \* the state of the lock
  broker,      \* whether the broker answers
  retained,    \* the state it has retained
  outages,     \* the failures so far
  net,         \* the connection: "off", "deaf" (without a subscription) or "on"
  wire,        \* what was sent over it and not yet received
  received,    \* the last message the network thread received
  putting,     \* what it is doing with a message: [at |-> ..., item |-> ...]
  queue,       \* the messages for the worker
  handshake,   \* what the callbacks told the waiting worker
  pc,          \* where the worker is
  due,         \* whether the interval is over
  named,       \* whether the worker knows the lock's name
  handled,     \* the last message it took from the queue
  snap,        \* what the probe read
  recorded,    \* the last state written to each series
  alive,       \* whether a message was handled since the last heartbeat
  beat,        \* the last heartbeat
  dark         \* whether nothing came or can have come since

far == <<lock, broker, retained, outages>>
link == <<net, wire>>
network == <<received, putting>>
worker == <<handshake, pc, due, named, handled, snap>>
told == <<recorded, alive, beat, dark>>
vars == <<far, link, network, queue, worker, told>>

\* A message is the lock's name, or one of its states.
Name == [of |-> "name", state |-> 0]
State(n) == [of |-> "state", state |-> n]
Redelivered == {<<Name, State(retained)>>, <<State(retained), Name>>}
Idle == [at |-> "idle", item |-> Name]
Unknown == -1

-----------------------------------------------------------------------------
\* The lock and the broker, which retains the last state it was told.

LockChanges ==
  /\ lock < MaxChanges
  /\ lock' = lock + 1
  /\ IF broker THEN /\ retained' = lock + 1
                    /\ wire' = IF net = "on" THEN Append(wire, State(lock + 1)) ELSE wire
               ELSE UNCHANGED <<retained, wire>>
  /\ UNCHANGED <<broker, outages, net, network, queue, worker, told>>

Outage == outages < MaxOutages /\ outages' = outages + 1
\* The connection is lost; what has reached this host's socket is still read.
LosesConnection == net' = "off" /\ \E n \in 0..Len(wire) : wire' = SubSeq(wire, 1, n)
BrokerFails ==
  /\ Outage
  /\ broker /\ broker' = FALSE
  /\ LosesConnection
  /\ UNCHANGED <<lock, retained, network, queue, worker, told>>
\* The lock connects again and publishes its state.
BrokerReturns ==
  /\ ~broker /\ broker' = TRUE
  /\ retained' = lock
  /\ dark' = FALSE
  /\ UNCHANGED <<lock, outages, link, network, queue, worker, recorded, alive, beat>>
ConnectionDrops ==
  /\ Outage
  /\ net # "off" /\ LosesConnection
  /\ UNCHANGED <<lock, broker, retained, network, queue, worker, told>>

-----------------------------------------------------------------------------
\* The network thread of the client.

\* The connection is made, and the topics subscribed to: what the broker
\* retained comes first, and what was left in the old socket is gone.  Before the stream has started, the outcome is told
\* to the worker that waits for it.
SubscribeOnConnect(ok) ==
  handshake' = CASE ~ok -> "failed" [] ok /\ handshake = "none" -> "connected"
                 [] OTHER -> handshake
Subscribes(ok) ==
  /\ IF ok THEN net' = "on" /\ wire' \in Redelivered ELSE net' = "deaf" /\ wire' = <<>>
  /\ UNCHANGED <<far, network, queue, pc, due, named, handled, snap, told>>
Connected ==
  /\ net = "off" /\ broker /\ pc = "await"
  /\ \E ok \in BOOLEAN : Subscribes(ok) /\ SubscribeOnConnect(ok)
ResubscribeOnReconnect ==
  /\ net = "off" /\ broker /\ pc \notin {"connect", "await"}
  /\ \E ok \in BOOLEAN : Subscribes(ok) /\ UNCHANGED handshake

\* A message is put on the queue, unless it is full.
Receives ==
  /\ wire # <<>> /\ putting = Idle
  /\ LET item == Head(wire)
     IN /\ wire' = Tail(wire)
        /\ received' = {item}
        /\ IF Len(queue) < QueueSize
           THEN queue' = Append(queue, item) /\ UNCHANGED putting
           ELSE putting' = [at |-> "full", item |-> item] /\ UNCHANGED queue
  /\ UNCHANGED <<far, net, worker, told>>

\* The plausible bug of a full queue: what came last is dropped.
DropsNewest == queue' = queue /\ putting' = Idle
\* It is tried again; then the oldest is dropped; then it is tried once more.
DropsOldest ==
  IF Len(queue) < QueueSize THEN queue' = Append(queue, putting.item) /\ putting' = Idle
  ELSE queue' = queue /\ putting' = [putting EXCEPT !.at = "drop"]
RetriesPut ==
  putting.at = "full" /\ DropsOldest /\ UNCHANGED <<far, link, received, worker, told>>
MakesRoom ==
  /\ putting.at = "drop"
  /\ queue' = IF queue = <<>> THEN queue ELSE Tail(queue)
  /\ putting' = [putting EXCEPT !.at = "last"]
  /\ UNCHANGED <<far, link, received, worker, told>>
PutsLast ==
  /\ putting.at = "last"
  /\ queue' = IF Len(queue) < QueueSize THEN Append(queue, putting.item) ELSE queue
  /\ putting' = Idle
  /\ UNCHANGED <<far, link, received, worker, told>>

-----------------------------------------------------------------------------
\* The worker.

\* It starts a client; where the broker does not answer, it fails.
StartsClient ==
  /\ pc = "connect" /\ broker
  /\ pc' = "await" /\ handshake' = "none"
  /\ UNCHANGED <<far, link, network, queue, due, named, handled, snap, told>>
\* The first connection is awaited, and a failure counts whenever it came.
Begins ==
  /\ pc = "await" /\ handshake = "connected"
  /\ pc' = "loop" /\ due' = FALSE
  /\ UNCHANGED <<far, link, network, queue, handshake, named, handled, snap, told>>
\* It fails or takes too long: the client is gone, and the next try has a new
\* handler.
GivesUpWaiting ==
  /\ pc = "await" /\ handshake # "connected"
  /\ pc' = "connect" /\ handshake' = "none"
  /\ net' = "off" /\ wire' = <<>> /\ queue' = <<>>
  /\ putting' = Idle /\ received' = {} /\ handled' = {} /\ named' = FALSE
  /\ UNCHANGED <<far, due, snap, told>>

IntervalEnds ==
  /\ pc = "loop" /\ ~due /\ due' = TRUE
  /\ UNCHANGED <<far, link, network, queue, handshake, pc, named, handled, snap, told>>

Label == IF named THEN "name" ELSE "id"
AfterMessage == pc' = IF due THEN "probe" ELSE "loop"

\* It takes a message: a name is remembered, a state is written.
TakesName ==
  /\ pc = "loop" /\ queue # <<>> /\ Head(queue).of = "name"
  /\ queue' = Tail(queue)
  /\ handled' = {Name} /\ named' = TRUE
  /\ AfterMessage
  /\ UNCHANGED <<far, link, network, handshake, due, snap, told>>
TakesState ==
  /\ pc = "loop" /\ queue # <<>> /\ Head(queue).of = "state"
  /\ queue' = Tail(queue)
  /\ handled' = {Head(queue)}
  /\ recorded' = [recorded EXCEPT ![Label] = Head(queue).state]
  /\ alive' = TRUE
  /\ AfterMessage
  /\ UNCHANGED <<far, link, network, handshake, due, named, snap, beat, dark>>
FindsNothing ==
  /\ pc = "loop" /\ queue = <<>> /\ due
  /\ pc' = "probe"
  /\ UNCHANGED <<far, link, network, queue, handshake, due, named, handled, snap, told>>

\* The interval's probe: it reads all of the state, with the name, or none
\* where nothing came in its window, or it fails.
Reads ==
  /\ pc = "probe" /\ broker
  /\ pc' = "write" /\ snap' = retained
  /\ UNCHANGED <<far, link, network, queue, handshake, due, named, handled, told>>
ReadsNothing ==
  /\ pc = "probe" /\ broker
  /\ pc' = "write" /\ snap' = Unknown
  /\ UNCHANGED <<far, link, network, queue, handshake, due, named, handled, told>>

\* The plausible bug of a sign of life that is never forgotten.
TickKeepingAlive(ok) ==
  /\ beat' = IF ok \/ alive THEN "ok" ELSE "failing"
  /\ UNCHANGED alive
\* The heartbeat: a probe that worked or a message is a sign of life.
TickDone(ok) ==
  /\ beat' = IF ok \/ alive THEN "ok" ELSE "failing"
  /\ alive' = FALSE
BackToLoop(ok) ==
  /\ TickDone(ok)
  /\ dark' = (~broker /\ wire = <<>> /\ queue = <<>> /\ putting = Idle)
  /\ pc' = "loop" /\ due' = FALSE
  /\ UNCHANGED <<far, link, network, queue, handshake, named, handled, snap>>
ProbeFails ==
  pc = "probe" /\ BackToLoop(FALSE) /\ UNCHANGED recorded
\* The plausible bug of a probe that is asked only whether it worked.
OnlyProbes == pc = "write" /\ BackToLoop(TRUE) /\ UNCHANGED recorded
WritesSnapshot ==
  /\ pc = "write"
  /\ recorded' = IF snap = Unknown THEN recorded ELSE [recorded EXCEPT !["name"] = snap]
  /\ BackToLoop(TRUE)

-----------------------------------------------------------------------------
Init ==
  /\ lock = 0 /\ broker = TRUE /\ retained = 0 /\ outages = 0
  /\ net = "off" /\ wire = <<>> /\ received = {} /\ putting = Idle /\ queue = <<>>
  /\ handshake = "none" /\ pc = "connect" /\ due = FALSE /\ named = FALSE
  /\ handled = {} /\ snap = Unknown
  /\ recorded = [label \in {"name", "id"} |-> Unknown]
  /\ alive = FALSE /\ beat = "none" /\ dark = FALSE

Network == Connected \/ ResubscribeOnReconnect \/ Receives \/ RetriesPut \/ MakesRoom \/ PutsLast
Loop == Begins \/ TakesName \/ TakesState \/ FindsNothing \/ WritesSnapshot
Next ==
  \/ LockChanges \/ BrokerFails \/ BrokerReturns \/ ConnectionDrops
  \/ Connected \/ ResubscribeOnReconnect \/ Receives \/ RetriesPut \/ MakesRoom \/ PutsLast
  \/ StartsClient \/ Begins \/ GivesUpWaiting \/ IntervalEnds
  \/ TakesName \/ TakesState \/ FindsNothing
  \/ Reads \/ ReadsNothing \/ ProbeFails \/ WritesSnapshot

Safety == Init /\ [][Next]_vars

(* The two threads run on and time passes; a broker that failed comes back.  *)
(* Nothing is assumed of a subscription, which may fail whenever it is made  *)
(* anew; of the probes, that they do not all fail, and of the handshakes     *)
(* that they do not all come too late.                                       *)
Fairness ==
  /\ WF_vars(Network) /\ WF_vars(Loop) /\ WF_vars(IntervalEnds)
  /\ WF_vars(StartsClient) /\ WF_vars(GivesUpWaiting)
  /\ WF_vars(BrokerReturns)
  /\ SF_vars(Reads) /\ SF_vars(Begins) /\ SF_vars(Connected /\ net' = "on")
Spec == Safety /\ Fairness

-----------------------------------------------------------------------------
(* The record catches up with the lock: once it is left alone, the last      *)
(* point of its series is its state, although messages were lost with a      *)
(* connection or dropped from a full queue, a subscription failed quietly,   *)
(* or a backlog was written after a fresher snapshot.  (stream_mqtt_messages,*)
(* _resubscribe_on_reconnect: "the per-interval snapshot still covers the    *)
(* source until the next reconnect succeeds".)                               *)
CatchesUp == <>[](recorded["name"] = lock)

(* However full the queue is, and whatever the worker takes from it between  *)
(* two steps of the network thread, what came last is never what is dropped: *)
(* it is the last of the queue, or the last the worker took.                 *)
(* (_drop_oldest_and_enqueue: "Dropping the oldest keeps the freshest        *)
(* state".)                                                                  *)
NewestSurvives ==
  putting = Idle => received = IF queue = <<>> THEN handled ELSE {Last(queue)}

(* An outage surfaces: where the broker has been away and nothing was left   *)
(* to handle since the last heartbeat, the next one says so.  (_StreamSink:  *)
(* "only when both go dark is ok=0 reported".)                               *)
OutageSurfaces == [][dark /\ pc \in {"probe", "write"} /\ pc' = "loop" => beat' = "failing"]_vars
=============================================================================
