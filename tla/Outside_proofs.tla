--------------------------- MODULE Outside_proofs ---------------------------
(* What the world outside hands the program: the messages of a broker, and   *)
(* then the secrets of the service manager.                                  *)
EXTENDS Stream, Credentials, SequenceTheorems, TLAPS

-----------------------------------------------------------------------------
(* What came last is never what is dropped, and an outage shows, for any     *)
(* bound on the queue, any number of changes and of failures.                *)

Messages == {Name} \cup {State(n) : n \in Int}

(* Where the network thread is with a message, and what is then known of it: *)
(* nobody but that thread puts anything on the queue, so room once made      *)
(* stays.                                                                    *)
QueueOK ==
  /\ lock \in Int /\ retained \in Int
  /\ wire \in Seq(Messages) /\ queue \in Seq(Messages)
  /\ Len(queue) <= QueueSize
  /\ \/ putting = Idle
     \/ \E place \in {"full", "drop", "last"}, item \in Messages :
          /\ putting = [at |-> place, item |-> item]
          /\ received = {item}
          /\ place = "last" => Len(queue) < QueueSize

StreamInv == QueueOK /\ NewestSurvives

(* What is appended is last.                                                 *)
LEMMA AppendedIsLast ==
  ASSUME NEW s \in Seq(Messages), NEW item \in Messages
  PROVE  /\ Append(s, item) \in Seq(Messages) /\ Append(s, item) # <<>>
         /\ Last(Append(s, item)) = item /\ Len(Append(s, item)) = Len(s) + 1
BY DEF Last

(* What is left of a longer queue has the same last, and the one message of  *)
(* a queue is its first and its last.                                        *)
LEMMA TailKeepsLast ==
  ASSUME NEW s \in Seq(Messages), s # <<>>
  PROVE  /\ Tail(s) \in Seq(Messages) /\ Len(Tail(s)) = Len(s) - 1
         /\ Tail(s) # <<>> => Last(Tail(s)) = Last(s)
         /\ Tail(s) = <<>> => Last(s) = Head(s)
         /\ Head(s) \in Messages
<1>1. Len(s) \in Nat \ {0} /\ \A i \in 1..Len(s) : s[i] \in Messages
  OBVIOUS
<1>2. Tail(s) \in Seq(Messages) /\ Len(Tail(s)) = Len(s) - 1
  BY <1>1
<1>3. \A i \in 1..(Len(s) - 1) : Tail(s)[i] = s[i + 1]
  BY <1>1
<1>4. Head(s) = s[1]
  OBVIOUS
<1>5. CASE Len(s) = 1
  <2>1. Len(Tail(s)) = 0
    BY <1>2, <1>5
  <2>2. Tail(s) = <<>>
    BY <1>2, <2>1, EmptySeq
  <2> QED
    BY <1>1, <1>2, <1>4, <1>5, <2>2 DEF Last
<1>6. CASE Len(s) > 1
  <2>1. Tail(s) # <<>>
    <3> SUFFICES ASSUME Tail(s) = <<>> PROVE FALSE
      OBVIOUS
    <3>1. Len(Tail(s)) = 0
      BY EmptySeq
    <3> QED
      BY <3>1, <1>1, <1>2, <1>6
  <2>2. Last(Tail(s)) = s[(Len(s) - 1) + 1]
    BY <1>1, <1>2, <1>3, <1>6 DEF Last
  <2>3. (Len(s) - 1) + 1 = Len(s)
    BY <1>1
  <2> QED
    BY <1>1, <1>2, <1>4, <2>1, <2>2, <2>3 DEF Last
<1>7. Len(s) = 1 \/ Len(s) > 1
  BY <1>1
<1> QED
  BY <1>5, <1>6, <1>7

(* What the broker has retained is redelivered as messages.                  *)
LEMMA MessagesAreSent ==
  ASSUME lock \in Int, retained \in Int
  PROVE  /\ Redelivered \subseteq Seq(Messages) /\ State(lock + 1) \in Messages
         /\ Name \in Messages
<1>1. Name \in Messages /\ State(retained) \in Messages /\ State(lock + 1) \in Messages
  BY DEF Messages
<1>2. <<Name, State(retained)>> \in Seq(Messages) /\ <<State(retained), Name>> \in Seq(Messages)
  BY <1>1
<1> QED
  BY <1>1, <1>2 DEF Redelivered

(* The lock, the broker and the connection do not touch the queue.           *)
LEMMA FarKeeps ==
  ASSUME StreamInv, UNCHANGED <<received, putting, queue, handled>>,
         lock' \in Int, retained' \in Int, wire' \in Seq(Messages)
  PROVE  StreamInv'
BY DEF StreamInv, QueueOK, NewestSurvives

(* Nor does what happens between the broker and the client.                  *)
LEMMA LinkKeeps ==
  ASSUME StreamInv,
         \/ LockChanges \/ BrokerFails \/ BrokerReturns \/ ConnectionDrops
         \/ Connected \/ ResubscribeOnReconnect
  PROVE  StreamInv'
<1>1. lock \in Int /\ retained \in Int /\ wire \in Seq(Messages) /\ <<>> \in Seq(Messages)
  BY DEF StreamInv, QueueOK
<1>2. /\ Redelivered \subseteq Seq(Messages) /\ State(lock + 1) \in Messages
  BY <1>1, MessagesAreSent
<1>3. CASE LockChanges
  <2>1. wire' \in Seq(Messages) /\ lock' \in Int /\ retained' \in Int
    BY <1>1, <1>2, <1>3 DEF LockChanges
  <2> QED
    BY <1>3, <2>1, FarKeeps DEF LockChanges, network, worker
<1>4. CASE BrokerFails \/ ConnectionDrops
  <2>1. PICK n \in 0..Len(wire) : wire' = SubSeq(wire, 1, n)
    BY <1>4 DEF BrokerFails, ConnectionDrops, LosesConnection
  <2>2. wire' \in Seq(Messages)
    BY <1>1, <2>1
  <2> QED
    BY <1>1, <1>4, <2>2, FarKeeps DEF BrokerFails, ConnectionDrops, network, worker
<1>5. CASE BrokerReturns
  BY <1>1, <1>5, FarKeeps DEF BrokerReturns, network, worker, link
<1>6. CASE Connected \/ ResubscribeOnReconnect
  <2>1. PICK ok \in BOOLEAN : Subscribes(ok)
    BY <1>6 DEF Connected, ResubscribeOnReconnect
  <2> QED
    BY <1>1, <1>2, <2>1, FarKeeps DEF Subscribes, network, far
<1> QED
  BY <1>3, <1>4, <1>5, <1>6

(* The network thread puts what it received last on the queue, at once or    *)
(* after it has made room.                                                   *)
LEMMA PuttingKeeps ==
  ASSUME StreamAssumption, StreamInv, Receives \/ RetriesPut \/ MakesRoom \/ PutsLast
  PROVE  StreamInv'
<1>1. /\ lock \in Int /\ retained \in Int /\ wire \in Seq(Messages) /\ queue \in Seq(Messages)
      /\ Len(queue) <= QueueSize /\ QueueSize \in Nat \ {0} /\ UNCHANGED <<lock, retained>>
  BY DEF StreamInv, QueueOK, StreamAssumption, Receives, RetriesPut, MakesRoom, PutsLast, far
<1>2. ASSUME NEW item \in Messages, received' = {item}, putting' = Idle, Len(queue) < QueueSize,
             queue' = Append(queue, item), wire' \in Seq(Messages)
      PROVE  StreamInv'
  BY <1>1, <1>2, AppendedIsLast DEF StreamInv, QueueOK, NewestSurvives
<1>3. ASSUME NEW item \in Messages, NEW place \in {"full", "drop"}, received' = {item},
             putting' = [at |-> place, item |-> item], queue' = queue, wire' \in Seq(Messages)
      PROVE  StreamInv'
  BY <1>1, <1>3 DEF StreamInv, QueueOK, NewestSurvives, Idle
<1>4. CASE Receives
  <2>1. Head(wire) \in Messages /\ Tail(wire) \in Seq(Messages)
    BY <1>1, <1>4, TailKeepsLast DEF Receives
  <2> QED
    BY <1>2, <1>3, <1>4, <2>1 DEF Receives
<1>5. ASSUME putting.at \in {"full", "drop", "last"}
      PROVE  \E place \in {"full", "drop", "last"}, item \in Messages :
               /\ putting = [at |-> place, item |-> item]
               /\ received = {item}
               /\ place = "last" => Len(queue) < QueueSize
  BY <1>5 DEF StreamInv, QueueOK, Idle
<1>6. CASE RetriesPut
  <2>1. PICK item \in Messages : putting = [at |-> "full", item |-> item] /\ received = {item}
    BY <1>5, <1>6 DEF RetriesPut
  <2> QED
    BY <1>1, <1>2, <1>3, <1>6, <2>1 DEF RetriesPut, DropsOldest, link
<1>7. CASE MakesRoom
  <2>1. PICK item \in Messages : putting = [at |-> "drop", item |-> item] /\ received = {item}
    BY <1>5, <1>7 DEF MakesRoom
  <2>2. queue' \in Seq(Messages) /\ Len(queue') < QueueSize
    BY <1>1, <1>7, TailKeepsLast DEF MakesRoom
  <2> QED
    BY <1>1, <1>7, <2>1, <2>2 DEF MakesRoom, StreamInv, QueueOK, NewestSurvives, Idle, link
<1>8. CASE PutsLast
  <2>1. PICK item \in Messages : /\ putting = [at |-> "last", item |-> item] /\ received = {item}
                                 /\ Len(queue) < QueueSize
    BY <1>5, <1>8 DEF PutsLast
  <2> QED
    BY <1>1, <1>2, <1>8, <2>1 DEF PutsLast, link
<1> QED
  BY <1>4, <1>6, <1>7, <1>8

(* The worker takes the oldest message, which is the last one when there is  *)
(* no other.                                                                 *)
LEMMA TakingKeeps ==
  ASSUME StreamAssumption, StreamInv, TakesName \/ TakesState
  PROVE  StreamInv'
<1>1. queue \in Seq(Messages) /\ queue # <<>> /\ queue' = Tail(queue)
      /\ UNCHANGED <<lock, retained, wire, received, putting>>
  BY DEF StreamInv, QueueOK, TakesName, TakesState, far, link, network
<1>2. /\ Tail(queue) \in Seq(Messages) /\ Len(Tail(queue)) = Len(queue) - 1
      /\ Tail(queue) # <<>> => Last(Tail(queue)) = Last(queue)
      /\ Tail(queue) = <<>> => Last(queue) = Head(queue)
      /\ Head(queue) \in Messages
  BY <1>1, TailKeepsLast
<1>3. handled' = {Head(queue)}
  BY <1>2 DEF TakesName, TakesState, Messages, Name, State
<1>4. Len(queue) \in Nat
  BY <1>1
<1>5. QueueOK'
  BY <1>1, <1>2, <1>4 DEF StreamInv, QueueOK, StreamAssumption
<1>6. NewestSurvives'
  BY <1>1, <1>2, <1>3 DEF StreamInv, NewestSurvives
<1> QED
  BY <1>5, <1>6 DEF StreamInv

(* However full the queue is, what came last is in it, or the last message   *)
(* the worker took (_drop_oldest_and_enqueue).                               *)
THEOREM NewestAlways ==
  ASSUME StreamAssumption
  PROVE  Safety => []NewestSurvives
<1>1. Init => StreamInv
  BY DEF Init, StreamInv, QueueOK, NewestSurvives, StreamAssumption
<1>2. StreamInv /\ [Next]_vars => StreamInv'
  <2> SUFFICES ASSUME StreamInv, [Next]_vars PROVE StreamInv'
    OBVIOUS
  <2>1. ASSUME UNCHANGED <<far, link, network, queue, handled>> PROVE StreamInv'
    BY <2>1 DEF far, link, network, StreamInv, QueueOK, NewestSurvives
  <2>2. CASE UNCHANGED vars
    BY <2>1, <2>2 DEF vars, worker
  <2>3. CASE StartsClient \/ Begins \/ IntervalEnds \/ FindsNothing \/ Reads \/ ReadsNothing
             \/ ProbeFails \/ WritesSnapshot
    BY <2>1, <2>3 DEF StartsClient, Begins, IntervalEnds, FindsNothing, Reads, ReadsNothing,
      ProbeFails, WritesSnapshot, BackToLoop
  <2>4. CASE GivesUpWaiting
    <3>1. lock \in Int /\ retained \in Int /\ 0 <= QueueSize
      BY DEF StreamInv, QueueOK, StreamAssumption
    <3> QED
      BY <2>4, <3>1 DEF GivesUpWaiting, StreamInv, QueueOK, NewestSurvives, far
  <2> QED
    BY <2>2, <2>3, <2>4, LinkKeeps, PuttingKeeps, TakingKeeps DEF Next
<1>3. StreamInv => NewestSurvives
  BY DEF StreamInv
<1> QED
  BY <1>1, <1>2, <1>3, PTL DEF Safety

(* While the broker is away the client is not connected, and nothing comes;  *)
(* so what was dark at a heartbeat is dark at the next one, unless the       *)
(* broker has come back in between.                                          *)
DarkOK ==
  /\ ~broker => net = "off"
  /\ dark => ~broker /\ wire = <<>> /\ queue = <<>> /\ putting = Idle /\ alive = FALSE /\ pc # "write"

(* Each step keeps that.                                                     *)
LEMMA DarkKept == DarkOK /\ [Next]_vars => DarkOK'
<1> SUFFICES ASSUME DarkOK, [Next]_vars PROVE DarkOK'
  OBVIOUS
<1>1. CASE LockChanges \/ BrokerFails \/ BrokerReturns \/ ConnectionDrops
  BY <1>1
  DEF LockChanges, BrokerFails, BrokerReturns, ConnectionDrops, LosesConnection, DarkOK, link, network,
      worker, told
<1>2. CASE Connected \/ ResubscribeOnReconnect
  BY <1>2 DEF Connected, ResubscribeOnReconnect, Subscribes, DarkOK, far, network, told
<1>3. CASE Receives \/ RetriesPut \/ MakesRoom \/ PutsLast
  BY <1>3 DEF Receives, RetriesPut, MakesRoom, PutsLast, DarkOK, Idle, far, link, worker, told
<1>4. CASE StartsClient \/ Begins \/ GivesUpWaiting \/ IntervalEnds \/ FindsNothing
  BY <1>4
  DEF StartsClient, Begins, GivesUpWaiting, IntervalEnds, FindsNothing, DarkOK, far, link, network, told
<1>5. CASE TakesName \/ TakesState
  <2>1. ~dark /\ dark' = dark /\ broker' = broker /\ net' = net
    BY <1>5 DEF TakesName, TakesState, DarkOK, far, link, told
  <2> QED
    BY <2>1 DEF DarkOK
<1>6. CASE Reads \/ ReadsNothing
  BY <1>6 DEF Reads, ReadsNothing, DarkOK, far, link, network, told
<1>7. CASE ProbeFails \/ WritesSnapshot
  <2>1. /\ alive' = FALSE /\ pc' = "loop" /\ UNCHANGED <<broker, net, wire, queue, putting>>
        /\ dark' = (~broker /\ wire = <<>> /\ queue = <<>> /\ putting = Idle)
    BY <1>7 DEF ProbeFails, WritesSnapshot, BackToLoop, TickDone, far, link, network
  <2> QED
    BY <2>1 DEF DarkOK
<1>8. CASE UNCHANGED vars
  BY <1>8 DEF vars, far, link, network, worker, told, DarkOK
<1> QED
  BY <1>1, <1>2, <1>3, <1>4, <1>5, <1>6, <1>7, <1>8 DEF Next

(* An outage of the broker shows in a heartbeat: where it was away at the    *)
(* last one with nothing left to handle, no message and no probe can go on   *)
(* saying that all is well (_StreamSink.tick_done).                          *)
THEOREM OutageShows == Safety => OutageSurfaces
<1>1. Init => DarkOK
  BY DEF Init, DarkOK
<1>2. DarkOK /\ [Next]_vars => [dark /\ pc \in {"probe", "write"} /\ pc' = "loop" => beat' = "failing"]_vars
  <2> SUFFICES ASSUME DarkOK, Next, dark, pc \in {"probe", "write"}, pc' = "loop"
               PROVE  beat' = "failing"
    OBVIOUS
  <2>1. pc = "probe"
    BY DEF DarkOK
  <2>2. ProbeFails
    BY <2>1
    DEF Next, LockChanges, BrokerFails, BrokerReturns, ConnectionDrops, Connected,
      ResubscribeOnReconnect, Subscribes, Receives, RetriesPut, MakesRoom, PutsLast, StartsClient,
      Begins, GivesUpWaiting, IntervalEnds, TakesName, TakesState, FindsNothing, Reads, ReadsNothing,
      WritesSnapshot, worker
  <2> QED
    BY <2>2 DEF ProbeFails, BackToLoop, TickDone, DarkOK
<1> QED
  BY <1>1, <1>2, DarkKept, PTL DEF Safety, OutageSurfaces

-----------------------------------------------------------------------------
(* That the service starts with its secrets, whatever they are, however many *)
(* commands have run and wherever each of them stopped.                      *)
(*                                                                           *)
(* ServiceStarts says nothing of a command in progress, so no step keeps it  *)
(* by itself: to delete a file is safe because a line that named it is gone, *)
(* and to write the sentinel because the line that replaces it is there.     *)
(* CommandInv says so, of each command by its step.                          *)

Commands ==
  [kind : {"set"}, name : Names, value : Secrets, step : 1..4]
    \cup [kind : {"remove"}, name : Names, value : {Placeholder}, step : 1..4]

TypeOK ==
  /\ field \in [Names -> Secrets \cup {Placeholder, Absent, Sentinel}]
  /\ DOMAIN store \subseteq Names
  /\ dropin \subseteq Static /\ loaded \subseteq Static
  /\ late \in BOOLEAN
  /\ command \in Commands \cup {NoCommand}
  /\ given \in [Names -> SUBSET (Secrets \cup {Placeholder, Absent, Sentinel})]

(* Lines that a service may be started with name files that exist, and cover *)
(* every field that holds the sentinel.                                      *)
LinesHold(lines) ==
  /\ lines \subseteq DOMAIN store
  /\ \A n \in Static : field[n] = Sentinel => n \in lines

(* What is stored, and what stands in the settings, is the user's.           *)
Kept ==
  \A n \in Names :
    /\ n \in DOMAIN store => store[n] \in given[n]
    /\ field[n] # Sentinel => field[n] \in given[n]

(* How far the running command has come.                                     *)
SetInv ==
  /\ command.step > 1 => command.name \in DOMAIN store /\ store[command.name] = command.value
  /\ command.step > 2 /\ command.name \in Static => command.name \in dropin
  /\ command.step > 3 /\ command.name \in Static => late \/ command.name \in loaded
RemoveInv ==
  /\ command.step > 1 => field[command.name] = Placeholder
  /\ command.step > 2 => command.name \notin dropin
  /\ command.step > 3 => late \/ command.name \notin loaded
CommandInv ==
  /\ command.kind = "set" => SetInv
  /\ command.kind = "remove" => RemoveInv

CredentialsInv == TypeOK /\ LinesHold(dropin) /\ (~late => LinesHold(loaded)) /\ Kept /\ CommandInv

-----------------------------------------------------------------------------
(* Which command does what at which step: the two orders of Steps.           *)
LEMMA StepOf ==
  ASSUME TypeOK
  PROVE  /\ At("encrypt") => command.kind = "set" /\ command.step = 1
         /\ At("dropin") => \/ command.kind = "set" /\ command.step = 2
                            \/ command.kind = "remove" /\ command.step = 2
         /\ At("reload") => \/ command.kind = "set" /\ command.step = 3
                            \/ command.kind = "remove" /\ command.step = 3
         /\ At("field") => \/ command.kind = "set" /\ command.step = 4
                           \/ command.kind = "remove" /\ command.step = 1
         /\ At("delete") => command.kind = "remove" /\ command.step = 4
         /\ \A s : At(s) => command \in Commands
<1>1. CASE command = NoCommand
  BY <1>1 DEF At
<1>2. CASE command \in Commands
  <2>1. command.step \in 1..4 /\ command.kind \in {"set", "remove"}
    BY <1>2 DEF Commands
  <2>2. Steps["set"] = <<"encrypt", "dropin", "reload", "field">>
        /\ Steps["remove"] = <<"field", "dropin", "reload", "delete">>
    BY DEF Steps
  <2> QED
    BY <1>2, <2>1, <2>2 DEF At
<1> QED
  BY <1>1, <1>2 DEF TypeOK

(* What a step that is done leaves of the command.                           *)
LEMMA AdvancesTo ==
  ASSUME TypeOK, command \in Commands, Advances
  PROVE  /\ command.step = 4 => command' = NoCommand
         /\ command.step # 4 => /\ command' \in Commands
                                /\ command'.kind = command.kind
                                /\ command'.name = command.name
                                /\ command'.value = command.value
                                /\ command'.step = command.step + 1
         /\ given' \in [Names -> SUBSET (Secrets \cup {Placeholder, Absent, Sentinel})]
         /\ command.value \in given'[command.name]
         /\ \A n \in Names \ {command.name} : given'[n] = given[n]
         /\ command.step # 4 => given[command.name] \subseteq given'[command.name]
<1>1. command.name \in Names /\ command.value \in Secrets \cup {Placeholder} /\ command.step \in 1..4
  BY DEF Commands
<1>2. CASE command.step = 4
  BY <1>1, <1>2 DEF Advances, TypeOK
<1>3. CASE command.step # 4
  <2>1. command' = [command EXCEPT !.step = command.step + 1]
    BY <1>3 DEF Advances
  <2>2. command' \in Commands /\ command'.kind = command.kind /\ command'.name = command.name
        /\ command'.value = command.value /\ command'.step = command.step + 1
    BY <1>1, <1>3, <2>1 DEF Commands
  <2> QED
    BY <1>1, <1>3, <2>2 DEF Advances, TypeOK
<1> QED
  BY <1>2, <1>3

(* No command runs: nothing to say of one.                                   *)
LEMMA IdleInv == command = NoCommand => CommandInv
BY DEF NoCommand, CommandInv

(* The invariant holds at first: no file, no line, no sentinel.              *)
LEMMA InitInv == CredentialInit => CredentialsInv
<1> SUFFICES ASSUME CredentialInit PROVE CredentialsInv
  OBVIOUS
<1>1. TypeOK
  BY DEF CredentialInit, TypeOK
<1>2. Kept /\ LinesHold(dropin) /\ LinesHold(loaded)
  BY DEF CredentialInit, Kept, LinesHold, Names
<1>3. CommandInv
  BY IdleInv DEF CredentialInit
<1> QED
  BY <1>1, <1>2, <1>3 DEF CredentialsInv

(* Every step keeps it.                                                      *)
LEMMA NextInv == CredentialsInv /\ [CredentialNext]_credentialVars => CredentialsInv'
<1> SUFFICES ASSUME CredentialsInv, [CredentialNext]_credentialVars PROVE CredentialsInv'
  OBVIOUS
<1> USE DEF CredentialsInv
<1>1. ASSUME NEW kind \in {"set", "remove"}, NEW n \in Names, NEW v,
             BeginsCommand(kind, n, v),
             kind = "set" => v \in Secrets, kind = "remove" => v = Placeholder
      PROVE  CredentialsInv'
  <2>1. command' = [kind |-> kind, name |-> n, value |-> v, step |-> 1]
    BY <1>1 DEF BeginsCommand
  <2>2. command' \in Commands
    BY <1>1, <2>1 DEF Commands
  <2>3. CommandInv'
    BY <2>1 DEF CommandInv, SetInv, RemoveInv
  <2>4. TypeOK'
    BY <1>1, <2>2 DEF TypeOK, BeginsCommand
  <2> QED
    BY <1>1, <2>3, <2>4 DEF BeginsCommand, LinesHold, Kept
<1>2. ASSUME NEW section \in Sections, EnsuresSection(section) PROVE CredentialsInv'
  <2>1. TypeOK'
    BY <1>2 DEF TypeOK, EnsuresSection
  <2>2. LinesHold(dropin)' /\ (~late => LinesHold(loaded))'
    <3>1. UNCHANGED <<store, dropin, loaded, late>>
      BY <1>2 DEF EnsuresSection
    <3>2. ASSUME NEW n \in Static, field'[n] = Sentinel PROVE field[n] = Sentinel
      BY <1>2, <3>2 DEF EnsuresSection, Names, Placeholder, Sentinel
    <3> QED
      BY <3>1, <3>2 DEF LinesHold
  <2>3. Kept'
    BY <1>2 DEF Kept, EnsuresSection, TypeOK, Placeholder, Sentinel, Absent
  <2>4. CommandInv'
    BY <1>2 DEF EnsuresSection, NoCommand, CommandInv
  <2> QED
    BY <2>1, <2>2, <2>3, <2>4
<1>3. CASE Stops
  <2>1. CommandInv'
    BY <1>3 DEF Stops, NoCommand, CommandInv
  <2> QED
    BY <1>3, <2>1 DEF Stops, TypeOK, LinesHold, Kept
<1>4. CASE Boots
  <2>1. CommandInv'
    BY <1>4 DEF Boots, NoCommand, CommandInv
  <2> QED
    BY <1>4, <2>1 DEF Boots, TypeOK, LinesHold, Kept
<1>5. ASSUME At("encrypt"), WritesFile, UNCHANGED <<field, dropin, loaded, late>>,
             command' = NoCommand \/ (command' \in Commands /\ command'.kind = "set" /\ command'.step = 2
                                 /\ command'.name = command.name /\ command'.value = command.value),
             given' \in [Names -> SUBSET (Secrets \cup {Placeholder, Absent, Sentinel})],
             command.value \in given'[command.name],
             \A n \in Names \ {command.name} : given'[n] = given[n],
             given[command.name] \subseteq given'[command.name]
      PROVE  CredentialsInv'
  <2>1. command \in Commands /\ command.kind = "set" /\ command.step = 1 /\ command.name \in Names
    BY <1>5, StepOf DEF Commands
  <2>2. DOMAIN store' = DOMAIN store \cup {command.name} /\ store'[command.name] = command.value
        /\ \A n \in DOMAIN store \ {command.name} : store'[n] = store[n]
    BY <1>5 DEF WritesFile
  <2>3. TypeOK'
    BY <1>5, <2>1, <2>2 DEF TypeOK
  <2>4. LinesHold(dropin)' /\ (~late => LinesHold(loaded))'
    BY <1>5, <2>2 DEF LinesHold
  <2>5. Kept'
    BY <1>5, <2>1, <2>2 DEF Kept
  <2>6. CommandInv'
    BY <1>5, <2>2 DEF CommandInv, SetInv, RemoveInv, NoCommand
  <2> QED
    BY <2>3, <2>4, <2>5, <2>6
<1>6. CASE Encrypts
  <2>1. command \in Commands /\ command.kind = "set" /\ command.step = 1
    BY <1>6, StepOf DEF Encrypts
  <2> QED
    BY <1>5, <1>6, <2>1, AdvancesTo DEF Encrypts
<1>7. CASE EncryptsUnsecured
  <2>1. command \in Commands /\ command.name \in Names /\ command.value \in Secrets \cup {Placeholder}
    BY <1>7, StepOf DEF EncryptsUnsecured, Commands
  <2>2. given' = [given EXCEPT ![command.name] = given[command.name] \cup {command.value}]
    BY <1>7 DEF EncryptsUnsecured
  <2>3. given' \in [Names -> SUBSET (Secrets \cup {Placeholder, Absent, Sentinel})]
        /\ command.value \in given'[command.name]
        /\ (\A n \in Names \ {command.name} : given'[n] = given[n])
        /\ given[command.name] \subseteq given'[command.name]
    BY <2>1, <2>2 DEF TypeOK
  <2> QED
    BY <1>5, <1>7, <2>3 DEF EncryptsUnsecured
<1>8. CASE RegenerateDropin
  <2>1. command \in Commands /\ command.step = 2 /\ command.name \in Names
        /\ command.kind \in {"set", "remove"}
    BY <1>8, StepOf DEF RegenerateDropin, Commands
  <2>2. command' \in Commands /\ command'.kind = command.kind /\ command'.name = command.name
        /\ command'.value = command.value /\ command'.step = 3
    BY <1>8, <2>1, AdvancesTo DEF RegenerateDropin
  <2>3. dropin' = (Static \ Excluded) \cap DOMAIN store /\ UNCHANGED <<field, store, loaded, late>>
    BY <1>8 DEF RegenerateDropin, Listed
  <2>4. TypeOK' /\ Kept'
    BY <1>8, <2>1, <2>2, <2>3, AdvancesTo DEF TypeOK, Kept, RegenerateDropin
  <2>5. \A n \in Static : field[n] = Sentinel => n \in DOMAIN store /\ n \notin Excluded
    BY <2>1 DEF LinesHold, Excluded, CommandInv, RemoveInv, Placeholder, Sentinel
  <2>6. LinesHold(dropin)' /\ (~late => LinesHold(loaded))'
    BY <2>3, <2>5 DEF LinesHold
  <2>7. CommandInv'
    BY <2>1, <2>2, <2>3 DEF CommandInv, SetInv, RemoveInv, Excluded
  <2> QED
    BY <2>4, <2>6, <2>7
<1>9. ASSUME At("reload"), Advances, UNCHANGED <<field, store, dropin>>,
             late' \in BOOLEAN, late' \/ loaded' = dropin, loaded' \subseteq Static
      PROVE  CredentialsInv'
  <2>1. command \in Commands /\ command.step = 3 /\ command.name \in Names
        /\ command.kind \in {"set", "remove"}
    BY <1>9, StepOf DEF Commands
  <2>2. command' \in Commands /\ command'.kind = command.kind /\ command'.name = command.name
        /\ command'.value = command.value /\ command'.step = 4
    BY <1>9, <2>1, AdvancesTo
  <2>3. TypeOK' /\ Kept'
    BY <1>9, <2>1, <2>2, AdvancesTo DEF TypeOK, Kept
  <2>4. LinesHold(dropin)' /\ (~late => LinesHold(loaded))'
    BY <1>9 DEF LinesHold
  <2>5. CommandInv'
    BY <1>9, <2>1, <2>2 DEF CommandInv, SetInv, RemoveInv
  <2> QED
    BY <2>3, <2>4, <2>5
<1>10. CASE ReloadSystemd
  BY <1>9, <1>10 DEF ReloadSystemd, TypeOK
<1>11. CASE ReloadFails
  BY <1>9, <1>11 DEF ReloadFails, TypeOK
<1>12. CASE RewriteSettingsField
  <2>1. /\ command \in Commands /\ command.name \in Names
        /\ \/ command.kind = "set" /\ command.step = 4
           \/ command.kind = "remove" /\ command.step = 1 /\ command.value = Placeholder
    BY <1>12, StepOf DEF RewriteSettingsField, Commands
  <2>2. field' = [field EXCEPT ![command.name] =
                   IF command.kind = "set" THEN Sentinel ELSE Placeholder]
        /\ UNCHANGED <<store, dropin, loaded, late>>
    BY <1>12 DEF RewriteSettingsField
  <2>3. TypeOK'
    BY <1>12, <2>1, <2>2, AdvancesTo DEF TypeOK, RewriteSettingsField
  <2>4. CASE command.kind = "set"
    <3>1. command' = NoCommand /\ command.step = 4
      BY <1>12, <2>1, <2>4, AdvancesTo DEF RewriteSettingsField
    <3>2. SetInv
      BY <2>4 DEF CommandInv
    <3>3. LinesHold(dropin)' /\ (~late => LinesHold(loaded))'
      BY <2>1, <2>2, <2>4, <3>1, <3>2 DEF LinesHold, SetInv, TypeOK
    <3>4. Kept'
      BY <1>12, <2>1, <2>2, <2>4, <3>1, <3>2, AdvancesTo DEF Kept, SetInv, TypeOK, RewriteSettingsField
    <3> QED
      BY <2>3, <3>1, <3>3, <3>4 DEF NoCommand, CommandInv
  <2>5. CASE command.kind = "remove"
    <3>1. /\ command' \in Commands /\ command'.kind = command.kind /\ command'.name = command.name
          /\ command'.step = 2 /\ field'[command.name] = Placeholder
      BY <1>12, <2>1, <2>2, <2>5, AdvancesTo DEF RewriteSettingsField, TypeOK
    <3>2. LinesHold(dropin)' /\ (~late => LinesHold(loaded))'
      BY <2>1, <2>2, <2>5 DEF LinesHold, TypeOK, Placeholder, Sentinel
    <3>3. Kept'
      BY <1>12, <2>1, <2>2, <2>5, AdvancesTo DEF Kept, TypeOK, RewriteSettingsField
    <3>4. CommandInv'
      BY <2>5, <3>1 DEF CommandInv, RemoveInv
    <3> QED
      BY <2>3, <3>2, <3>3, <3>4
  <2> QED
    BY <2>1, <2>4, <2>5
<1>13. CASE Deletes
  <2>1. command \in Commands /\ command.kind = "remove" /\ command.step = 4 /\ command.name \in Names
        /\ command.value = Placeholder
    BY <1>13, StepOf DEF Deletes, Commands
  <2>2. field[command.name] = Placeholder /\ command.name \notin dropin
        /\ (late \/ command.name \notin loaded)
    BY <2>1 DEF CommandInv, RemoveInv
  <2>3. DOMAIN store' = DOMAIN store \ {command.name}
        /\ (\A n \in DOMAIN store' : store'[n] = store[n])
        /\ UNCHANGED <<field, dropin, loaded, late>>
    BY <1>13 DEF Deletes
  <2>4. command' = NoCommand
    BY <1>13, <2>1, AdvancesTo DEF Deletes
  <2>5. TypeOK'
    BY <1>13, <2>1, <2>3, <2>4, AdvancesTo DEF TypeOK, Deletes
  <2>6. LinesHold(dropin)' /\ (~late => LinesHold(loaded))'
    BY <2>2, <2>3 DEF LinesHold
  <2>7. Kept'
    BY <1>13, <2>1, <2>2, <2>3, AdvancesTo DEF Kept, Deletes
  <2> QED
    BY <2>4, <2>5, <2>6, <2>7 DEF NoCommand, CommandInv
<1>14. CASE UNCHANGED credentialVars
  BY <1>14 DEF credentialVars, TypeOK, LinesHold, Kept, CommandInv, SetInv, RemoveInv
<1>15. CASE CredentialNext
  <2>1. ASSUME NEW n \in Names, NEW v \in Secrets, BeginsCommand("set", n, v) PROVE CredentialsInv'
    BY <1>1, <2>1
  <2>2. ASSUME NEW n \in Names, BeginsCommand("remove", n, Placeholder) PROVE CredentialsInv'
    BY <1>1, <2>2
  <2> QED
    BY <1>2, <1>3, <1>4, <1>6, <1>7, <1>8, <1>10, <1>11, <1>12, <1>13, <1>15, <2>1, <2>2
    DEF CredentialNext
<1> QED
  BY <1>14, <1>15

(* A service that starts at any moment starts with the secrets it was given. *)
(* (_cmd_set, _cmd_remove, apply_credential_substitution.)                   *)
THEOREM StartsWithSecrets == CredentialSpec => []ServiceStarts
<1>1. CredentialsInv => ServiceStarts
  BY DEF CredentialsInv, LinesHold, Kept, ServiceStarts, Starts, Loaded, Names
<1> QED
  BY <1>1, InitInv, NextInv, PTL DEF CredentialSpec

=============================================================================
