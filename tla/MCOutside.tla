----------------------------- MODULE MCOutside ------------------------------
(* Two things that reach the service from outside, one in each behaviour: a  *)
(* lock's messages, and what an administrator does to the credentials it is  *)
(* started with.  Each has its own variables; the other's stand still, which *)
(* the stream's fairness allows to no behaviour that is infinite.            *)
EXTENDS Stream, Credentials

MCSections == {{"token"}, {"user", "user2"}}

VARIABLE storing  \* whether the behaviour is one of credentials

MCInit ==
  /\ Init /\ CredentialInit /\ storing \in BOOLEAN
  /\ ~storing => field = [n \in Static \cup Slots |-> Absent]

OfStream == ~storing /\ UNCHANGED <<storing, credentialVars>>
OfCredentials == storing /\ UNCHANGED <<storing, vars>>
MCNext ==
  \/ OfStream /\ LockChanges
  \/ OfStream /\ BrokerFails
  \/ OfStream /\ BrokerReturns
  \/ OfStream /\ ConnectionDrops
  \/ OfStream /\ Connected
  \/ OfStream /\ ResubscribeOnReconnect
  \/ OfStream /\ Receives
  \/ OfStream /\ RetriesPut
  \/ OfStream /\ MakesRoom
  \/ OfStream /\ PutsLast
  \/ OfStream /\ StartsClient
  \/ OfStream /\ Begins
  \/ OfStream /\ GivesUpWaiting
  \/ OfStream /\ IntervalEnds
  \/ OfStream /\ TakesName
  \/ OfStream /\ TakesState
  \/ OfStream /\ FindsNothing
  \/ OfStream /\ Reads
  \/ OfStream /\ ReadsNothing
  \/ OfStream /\ ProbeFails
  \/ OfStream /\ WritesSnapshot
  \/ \E n \in Static \cup Slots :
       \/ OfCredentials /\ \E v \in Secrets : BeginsCommand("set", n, v)
       \/ OfCredentials /\ BeginsCommand("remove", n, Placeholder)
  \/ OfCredentials /\ \E section \in Sections : EnsuresSection(section)
  \/ OfCredentials /\ Stops
  \/ OfCredentials /\ Encrypts
  \/ OfCredentials /\ EncryptsUnsecured
  \/ OfCredentials /\ RegenerateDropin
  \/ OfCredentials /\ ReloadSystemd
  \/ OfCredentials /\ ReloadFails
  \/ OfCredentials /\ RewriteSettingsField
  \/ OfCredentials /\ Deletes
  \/ OfCredentials /\ Boots

MCSpec == MCInit /\ [][MCNext]_<<vars, credentialVars, storing>> /\ Fairness
=============================================================================
