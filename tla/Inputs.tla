------------------------------- MODULE Inputs -------------------------------
(***************************************************************************)
(* How controls read one input: src/toinflux/inputs.py, and gather() of    *)
(* control_process.py that acts on what it returns.  Each control is a     *)
(* process of its own; they share InfluxDB, in which the newest point is   *)
(* looked up first, and a lock of the source, which one of them holds      *)
(* while it fetches live and writes back.  The point it writes goes        *)
(* through its writer, and lands in InfluxDB when that has sent it.        *)
(*                                                                         *)
(* A step takes no time, except to wait for the lock and to fetch.         *)
(***************************************************************************)
EXTENDS Integers, FiniteSets, FiniteSetsExt

CONSTANTS
  Controls,     \* the controls that read the input
  MaxAge,       \* how old a reading each of them may act on
  Minimum,      \* the shortest interval between two reads of the source
  Budget,       \* how long a control waits for the lock
  Skews,        \* how far ahead the collector's clock may be
  Tolerance,    \* FUTURE_TOLERANCE_SECONDS
  MaxUnsent,    \* the bound on the points yet to be sent when one is collected
  MaxTime       \* the bound on the clock

VARIABLES
  now,        \* the time
  live,       \* whether the source can be read live at all
  stored,     \* the time of the newest point in InfluxDB, if there is one
  unsent,     \* the times of the points that writers have yet to send
  holder,     \* the control that holds the lock, if one does
  at,         \* where each control is
  reading,    \* the newest value it has, with its age when it was read
  deadline,   \* when it gives up on the lock
  fetched     \* the time of the last point of a live read, if there was one

database == <<stored, unsent>>
inputVars == <<now, live, stored, unsent, holder, at, reading, deadline, fetched>>

Reading(time, age) == [time |-> time, age |-> age]

\* Whichever is larger: a control cannot have fresher data than the source
\* allows.
Trigger(c) == Max({MaxAge[c], Minimum})
InputMaxAge(c) == MaxAge[c]

\* The age of a point, or nothing where its time is too far in the future.
UsableAge(time) == IF now - time < -Tolerance THEN {} ELSE {Max({now - time, 0})}
\* The newest point, where its age can be judged.
HandlerReading == UNION {{Reading(time, age) : age \in UsableAge(time)} : time \in stored}
Fresh(c) == {r \in HandlerReading : r.age <= Trigger(c)}

Goes(c, place) == at' = [at EXCEPT ![c] = place]
Has(c, readings) == reading' = [reading EXCEPT ![c] = readings]
\* What is left where no fresh value can be had, or the cycle fails.
Require(c) == Goes(c, IF reading[c] = {} THEN "idle" ELSE "judge")
Release == holder' = {}

-----------------------------------------------------------------------------
\* A control looks at what is stored, and is done if that is fresh; otherwise
\* it goes for the lock, unless the source is one that is not read live.
Reads(c) ==
  /\ at[c] = "idle"
  /\ Has(c, HandlerReading)
  /\ \/ Fresh(c) # {} /\ Goes(c, "judge") /\ UNCHANGED deadline
     \/ Fresh(c) = {} /\ ~live /\ UNCHANGED deadline
          /\ Goes(c, IF HandlerReading = {} THEN "idle" ELSE "judge")
     \/ Fresh(c) = {} /\ live /\ Goes(c, "lock")
          /\ deadline' = [deadline EXCEPT ![c] = now + Budget]
  /\ UNCHANGED <<now, live, database, holder, fetched>>

\* The plausible bug of a lock that is taken and a point that is not looked
\* for again.
LocksToFetch(c) ==
  /\ at[c] = "lock" /\ holder = {}
  /\ holder' = {c} /\ Goes(c, "fetch")
  /\ UNCHANGED <<now, live, database, reading, deadline, fetched>>
Locks(c) ==
  /\ at[c] = "lock" /\ holder = {}
  /\ holder' = {c} /\ Goes(c, "again")
  /\ UNCHANGED <<now, live, database, reading, deadline, fetched>>
\* It waited long enough: the value it had is all there is.
StopsWaiting(c) ==
  /\ at[c] = "lock" /\ holder # {} /\ now >= deadline[c]
  /\ Require(c)
  /\ UNCHANGED <<now, live, database, holder, reading, deadline, fetched>>

\* With the lock it looks again, for the one it waited for may have written.
LooksAgain(c) ==
  /\ at[c] = "again"
  /\ \/ Fresh(c) # {} /\ Has(c, Fresh(c)) /\ Goes(c, "judge") /\ Release
     \/ Fresh(c) = {} /\ Goes(c, "fetch") /\ UNCHANGED <<reading, holder>>
  /\ UNCHANGED <<now, live, database, deadline, fetched>>

\* A live read: its point is handed to the writer, and the value is at hand.
Fetches(c) ==
  /\ at[c] = "fetch"
  /\ unsent' = unsent \cup {now}
  /\ fetched' = {now}
  /\ Has(c, {Reading(now, 0)})
  /\ Goes(c, "judge") /\ Release
  /\ UNCHANGED <<now, live, stored, deadline>>
\* It fails, or returns no such field: a point it then sends has none of this
\* input either, and is not among those stored here.
FetchFails(c) ==
  /\ at[c] = "fetch"
  /\ Require(c) /\ Release
  /\ UNCHANGED <<now, live, database, reading, deadline, fetched>>

\* The plausible bug of one rule to refresh by and another to act by.
ActsOnTrigger(c) == \E r \in reading[c] : r.age <= Trigger(c)
Acts(c) == \E r \in reading[c] : r.age <= InputMaxAge(c)
\* It acts on the value, or its cycle fails.
Judges(c) ==
  /\ at[c] = "judge"
  /\ Goes(c, IF Acts(c) THEN "acting" ELSE "idle")
  /\ UNCHANGED <<now, live, database, holder, reading, deadline, fetched>>
Rests(c) ==
  /\ at[c] = "acting"
  /\ Goes(c, "idle")
  /\ UNCHANGED <<now, live, database, holder, reading, deadline, fetched>>

\* Any step that reads InfluxDB may find it away, and the cycle fails.
Unreadable(c) ==
  /\ at[c] = "again"
  /\ Goes(c, "idle") /\ Release
  /\ UNCHANGED <<now, live, database, reading, deadline, fetched>>
\* A control is killed: the kernel releases its lock, and what it wrote is in
\* its spool.
Killed(c) ==
  /\ at[c] # "idle"
  /\ Goes(c, "idle")
  /\ holder' = holder \ {c}
  /\ UNCHANGED <<now, live, database, reading, deadline, fetched>>

-----------------------------------------------------------------------------
\* A writer's thread sends a point; the collector writes one of its own.
Lands ==
  \E time \in unsent :
    /\ unsent' = unsent \ {time}
    /\ stored' = {Max({time} \cup stored)}
    /\ UNCHANGED <<now, live, holder, at, reading, deadline, fetched>>
Collected ==
  \E ahead \in Skews :
    /\ Cardinality(unsent) < MaxUnsent
    /\ unsent' = unsent \cup {now + ahead}
    /\ UNCHANGED <<now, live, stored, holder, at, reading, deadline, fetched>>

\* Time passes while controls sleep, wait for the lock or fetch.
Waiting(c) ==
  \/ at[c] \in {"idle", "fetch"}
  \/ at[c] = "lock" /\ holder # {} /\ now < deadline[c]
Elapses ==
  /\ now < MaxTime /\ \A c \in Controls : Waiting(c)
  /\ now' = now + 1
  /\ UNCHANGED <<live, database, holder, at, reading, deadline, fetched>>

InputInit ==
  /\ now = 0 /\ live \in BOOLEAN
  /\ stored = {} /\ unsent = {} /\ holder = {} /\ fetched = {}
  /\ at = [c \in Controls |-> "idle"] /\ reading = [c \in Controls |-> {}]
  /\ deadline = [c \in Controls |-> 0]

Control(c) ==
  \/ Reads(c) \/ Locks(c) \/ StopsWaiting(c) \/ LooksAgain(c) \/ Fetches(c) \/ FetchFails(c)
  \/ Judges(c) \/ Rests(c) \/ Unreadable(c) \/ Killed(c)
InputNext == (\E c \in Controls : Control(c)) \/ Lands \/ Collected \/ Elapses

InputSpec == InputInit /\ [][InputNext]_inputVars

-----------------------------------------------------------------------------
(* No control acts on a value older than its max_age, on whichever of the    *)
(* ways it came by it: the age is the one of the moment the value was read,  *)
(* and a value kept for want of a better one, after a wait for the lock or a *)
(* fetch that failed, is older by then than it says.  (read_input, gather.)  *)
ActsOnFresh ==
  \A c \in Controls : at[c] = "acting" => \A r \in reading[c] : now - r.time <= MaxAge[c]

(* The minimum interval binds across the processes, once a point has landed: *)
(* nobody reads the source live within it, whoever read it before and        *)
(* whatever the two processes were doing in between.  (read_input: "the      *)
(* holder we were waiting behind has almost certainly just written the       *)
(* value, so look again"; _live_reading: "the floor binds a moment late      *)
(* rather than not at all".)                                                 *)
Fetching(c) == at[c] # "fetch" /\ at'[c] = "fetch"
FloorBindsLate ==
  [][\A c \in Controls, time \in fetched :
       Fetching(c) /\ now - time <= Minimum => time \in unsent]_inputVars

(* The minimum interval binds at once.  The head of inputs.py says of the    *)
(* write-back that it "is what makes the database the shared state: the next *)
(* control to ask reads what this one just stored".                          *)
FloorBinds == [][\A c \in Controls, time \in fetched : Fetching(c) => now - time > Minimum]_inputVars
=============================================================================
