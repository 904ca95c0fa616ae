# Verification of Send to Influx

TLA+ models of the parts of Send to Influx whose correctness depends on order, failure and
concurrency, the TLC configurations that check them, and proofs checked by TLAPS.
Paths below are relative to the root of the repository.

## 1. The system

One service process (`sendtoinflux.py`) polls or streams a set of sources, one thread each,
and writes what they report to InfluxDB through one writer. In the same process run an MCP
server, through which a model reads the data and edits control documents, and a supervisor,
which runs each enabled control as a process of its own. A control process reads its inputs
from InfluxDB, runs a PID loop and switches devices on a bridge.

```
  collectors ----> writer ----> spool (disk) ----> InfluxDB <---- MCP read tools
  (threads)          ^                                ^
                     |   (its own writer and spool)   | inputs
  MCP control tools  |        control process --------+
     | store, request|            ^    | commands
     v               |            |    v
  documents -----> supervisor ----+   bridges and devices
                     |  spawn, beats, SIGTERM   ^
                     +--- safe state -----------+
```

### Inventory

| Part | State | Operations | Hard behaviour | What makes it correct |
|---|---|---|---|---|
| Writer (`toinflux/writer.py`) | spool segments, pointer, retry file; memory queues, heartbeats, timers; the chunk out being posted | `submit`, `submit_live`, passes of the thread, refusals, `close`, start | many callers and one thread; entries change while they are posted; disk faults; kills | every point is stored, given up with a reason, or still to be found; order per worker; the thread never sleeps over work |
| Supervisor (`toinflux/supervision.py`) | `children`: document, process, pipe, restart time; reload queue; stop flags | start, poll, reload, reap, make safe, stop | documents change under running processes; deaths, hangs; bridges away; two threads at shutdown | no device left on by a control that has gone; one owner per device; what is stored is what runs |
| MCP control tools (`toinflux/mcp_controls.py`) | `_WRITE_LOCK` | save, enable, disable, delete | concurrent calls; the supervisor reads later | never two enabled documents for one actuator |
| Documents (`toinflux/controls.py`) | files | store, load, validate | hand edits, half-written files | a stored document is valid or is left alone |
| Control process (`toinflux/control_process.py`) | what it last commanded, whether the loop is held | cycle, fail-safe, run | an exception at any point of a window; SIGTERM | devices safe before the first cycle, after a failure and on the way out |
| Gate, guard (`toinflux/gating.py`) | whether it was acting; stopped once | decide, closed, assert, stop | an edge whose command fails; exit handler against `finally` | each falling edge is applied before it is forgotten |
| Transition log (`toinflux/transitions.py`) | last change of each device, loop state, on disk | record, frozen, released, record_loop | restarts; clocks that go back; unusable files | no device is switched faster than its minimum, except to be made safe |
| Controller (`toinflux/controller.py`) | integral, last output, held | step, hold, resume, capture, resume_from | holds and restarts | a hold does not wind up, a resume does not bump |
| Staging (`toinflux/staging.py`) | none | ladder, bracket, plan_window | rungs that are frozen; minimum transitions | the window's average is the demand where it can be |
| Rules, schedule (`toinflux/rules.py`, `schedule.py`) | none | parse, evaluate; is_inside | depth, NaN; hours skipped and repeated | total evaluation; a window that happens when the wall clock says |
| Inputs (`toinflux/inputs.py`) | lock files | read_input, fetch_lock | several control processes; write-back | one live fetch per interval |
| Collector (`sendtoinflux.py`) | stopped, stalled, last activity; SHUTDOWN | workers, watchdog, streams, signals | workers that end, hang or back off | a worker that stops is noticed; all stopped ends the service |
| MQTT, Nuki (`toinflux/mqtt.py`, `nuki.py`) | bounded queue, connection | callbacks, loop | network thread against loop; reconnects | the newest messages survive; resubscribed after each reconnect |
| Hue, MyEnergi, Octopus, Carbon Intensity, Open-Meteo, Speedtest | none to speak of | poll | HTTP failures | parsing |
| MCP server (`toinflux/mcpserver.py`) | transactions, codes, tokens, state file, throttle | authorize, login, exchange, refresh | concurrent exchanges; restart | codes and refresh tokens are used once |
| MCP read, dashboards, resources, prompts | none | queries | none | quoting |
| MCP write tools (`toinflux/mcp_write.py`) | none | resolve, command | several bridges | one light, or none |
| Settings (`toinflux/general.py`) | `RepeatingProblem` | load, validate, expand | none | a repeated problem is reported once and again after an hour |
| External commands (`toinflux/process.py`) | a child's pipes | run, pump | a child that hangs or floods | a deadline that holds |
| Credentials (`toinflux/credentials.py`, `credential_cli.py`) | credstore, drop-in, settings | set, remove | failure between files | no secret lost, none left in both places |
| Packaging, scripts | files of the installation | install, migrate | interrupted installs | out of scope |

`PROJECT.json` lists every component with its status, and under `hazards` what is hard to
test in the modelled ones, each at its line.

## 2. Modules

| Module | What it is | Uses |
|---|---|---|
| `Spool` | the writer's disk spool as pure operators on one record | |
| `Writer` | callers, the sending thread, kills, restarts, disk faults over that spool | `Spool` |
| `Supervisor` | supervisor, exit handler, MCP control tools, control processes seen from outside, devices | |
| `Staging` | the ladder and the window planner, as operators | |
| `ControlLoop` | one control process: gate, guard, window, transition log, hold and resume of the loop | `Staging` |
| `MinimumHold` | what a control promises of `min_transition_seconds`; `ControlLoop` implements it | |
| `Rules`, `Schedule`, `Documents` | the rule language, the daily window, the validation of a document, as operators | |
| `Decisions` | asks `Schedule`, `Staging` and `Documents` the questions a control decides by, one in each behaviour | the three |
| `Algorithms` | asks the rule language its questions too | `Rules`, `Decisions` |
| `Collector` | polling and streaming workers, their backoff, the watchdog | |
| `Inputs` | controls that read one input through InfluxDB and a lock | |
| `Stream` | a lock behind an MQTT broker: network thread, bounded queue, worker, probe | |
| `Credentials` | storing and removing secrets, and what a start of the service finds | |
| `MCWriter`, `MCSupervisor`, `MCControlLoop`, `MCAlgorithms` | small instances of one module | |
| `MCCollection`, `MCOutside` | small instances of `Collector` and `Inputs`, of `Stream` and `Credentials`: two modules side by side, one of them moving in each behaviour | |
| `Spool_proofs`, `Writer_proofs`, `Supervisor_proofs`, `ControlLoop_proofs`, `Decisions_proofs` | inductive invariants and theorems | the module each is named after |
| `Staging_proofs` | lemmas on ladders, plans and the lengths of windows | `Staging`; used by `ControlLoop_proofs` and `Decisions_proofs` |
| `Collection_proofs`, `Outside_proofs` | inductive invariants and theorems, two modules each as in `MCCollection` and `MCOutside` | `Collector` and `Inputs`; `Stream` and `Credentials` |

Two modules compose by what they share of the program: `Writer` calls the operators of `Spool`,
`ControlLoop` plans with those of `Staging`, and `Supervisor` contains the control process that
`ControlLoop` opens up: its `Load`, `AssertStart`, `Cycle`, `Leave` and `Fails` are what
`ControlLoop` does in `Start`, the round `asserting`, a window, `leaving` and `failing`.
`MCCollection` and `MCOutside` put two unrelated modules in one instance so that one run answers
for both; their variables are disjoint and nothing is claimed of both at once.

### Spool and Writer

The record of `Spool` has one field per attribute of `InfluxWriter` that describes the spool
(`segs` is `_segments`, `size` is `_sizes`, `cur` and `open` the append segment and file,
`ptr` is `_pointer`, `stale` is `_stale_segment`) and the files themselves. Offsets are counted
in lines; a line cut off by a kill or a failed write is the value `Torn`.

In `Writer` one action is one holding of the writer's lock or one post. `lock` and `adding` are
there because `_append` and the release of due points hold the lock over several file
operations, any of which may fail or be the last one before a kill. The thread's program
counter `tpc` follows `_run` and `run_until_idle`: `top`, `due`, `release`, `timer`, `read`,
`post`, `single`, `consume`, `check`, `wait`, `clear`. InfluxDB answers a post as it likes: takes it, refuses it, does
not answer (and may have taken it). `Kill` leaves any state the files could be in (`CutShort`);
`Start` is `__init__` on the directory it finds. `db`, `excused` and `turned` are history: what
InfluxDB has, what was given up where the log says so (dropped over a bound, refused too often,
unconfigured, or only ever in memory), and what was ever refused.

### Supervisor

An action is a read of the disk with what is decided from it, a whole command to the devices,
or a wait that ends. Two threads share the operations on a child, the supervisor's (`Loop`) and
the exit handler (`Exit`); `at` says in which loop each is (`start_all`, `top`, `reload`,
`read`, `scan`, `walk`, `join`), and in which step for one child (`ending`, `safe`, `restart`),
so a tool call, another thread or a control process may come between any two. `store` is the
documents; a document is the set of actuators it names and whether it is enabled. An actuator is
a device on a named instance, or on none, which means the first one configured:
`MayBeOne` is the code's cautious comparison and `Target` what the bridge resolves.

A control process is modelled from outside: `Load` (it reads its own document, after its parent
did), `AssertStart`, `Cycle` (any combination of devices, as any rung might command), `Leave`
(the guard's safe state), with `Terminated`, `Fails`, `Crash`, `Hang` and `Wake` for what can
happen to it. `lit` says which control left a device energised; `missed` which devices a safe
state was commanded for without getting through; `stranded` which devices a dead process held
that no document known to anyone names. Commands go instance by instance and end at the first
that does not answer, as `_command_each` does (`Reached`).

### ControlLoop and MinimumHold

`pc` is where `ControlProcess` is: `down`, `deciding` (the gate), `stepping` (readings and plan),
`turning`, `window` and `dwelling` (a window), `resting`, and the rounds of commands `asserting`,
`closing`, `failing` and `leaving`. A round goes device by device (`Answered`), so a bridge that is
away, an unknown device or a SIGTERM (`Terminate`) may end it anywhere; `RoundEnds` is the `finally`
that records what was answered, and where each failure leads. `entries` and `loop` are the log in
memory, `saved` the log on disk, which a write may fail to replace. `dev` and `since` are the real
devices, which the code never sees. A demand is any level of `Demands` and a cap any of `Caps`; the
plan made of them is `Staging`'s. `blind` marks the devices whose last change the log does not
date: a change not answered, or recorded by a process that was killed or could not write.

`MinimumHold` is the abstract side: devices, a log nobody sees, and one rule, that a bound device is
moved only to a rung no rung at its level or below could replace. `MinimumKept` is
`Hardware!Spec`, with `Hardware == INSTANCE MinimumHold WITH` the mapping `state <- dev`,
`age <- since`, `target <- ` the rung being commanded, and `free <- Released`, the devices the log
does not bind. A dwell, a restart over an old log and an edit of the document all have to map to
its steps.

### Staging, Schedule, Documents, Rules: Decisions and Algorithms

Pure operators over integers and small records. Reals become integers that every quotient divides
(`Staging`) or exact fractions (`Rules`); a token is a string of its own; a zone is the offset
of its clock at each instant, and a change of daylight saving a step of it; a value of a document is
a word for what YAML can put in its place. `Decisions` and `Algorithms` make each question a state, with
the answer of the code's operator beside it, and state what must be right of it against a second
definition: a partition of the day for `is_inside`, distance and average for `plan_window`, the
constructors of `Gate`, `Controller` and `DeviceGuard` for `validate_control`; and, in `Algorithms`,
a writer of trees for the parser (`Written`). They are two modules because the parser and the evaluator are
recursive operators, which a module with theorems cannot reach. `PlansWindow` is `Controller.step`
as `control_process.py:598` calls it: the driven devices read their value off the capped ladder before
the freeze narrows it, and the devices frozen there are switched ones.

### Collector

`pc[u]` follows `source_worker` (`build`, `sleep`, `call`, `connect`, `stream`, `probe`) and, where
`alone`, `run_one_worker`, which sleeps at the other end of its loop. `age` is what `_stamp_activity`
and the staggered start make of the last activity; `Watches` is one look of the watchdog in
`run_workers` at one unit. `hung` is not known to the code: the calls that take longer than a call
may. `Edit` makes the settings file good, invalid or unreadable at any moment, or changes the interval
of a source in it. There are three of that interval: the one in the file (`written`), the one the latest handler was
constructed with (`interval`), by which the worker sleeps, and the one of the start (`Interval`),
by which alone `StallThreshold` goes.

### Inputs

One control goes `idle`, `lock`, `again`, `fetch`, `judge`, `acting`: `read_input` with
`fetch_lock` and `_live_reading`, then `gather`. A live point is handed to the writer (`unsent`) and
is in InfluxDB later (`Lands`), so a second control may find it there or not. The collector's own
points carry its host's clock (`Skews`); a point too far ahead has no usable age. A fetch that
fails for want of the input's field has handed the source's other fields to the writer; the query of this input
selects its own field, so for it nothing was stored (`FetchFails`). A control with several inputs
judges each as it is read, and the first may have aged by the time the last is: the module is about one.

### Stream

The broker's side is `lock`, `retained` and `wire`; the callbacks of the client's thread are
`Connected`, `ResubscribeOnReconnect` and `Receives`, with the three steps of
`_drop_oldest_and_enqueue` apart (`RetriesPut`, `MakesRoom`, `PutsLast`), since the worker may take a
message between them. The worker is `stream_mqtt_messages` with the sink of `sendtoinflux.py`, and
`Reads`, `ReadsNothing` and `ProbeFails` the snapshot through a second client. A connection can be
made without its subscription (`net = "deaf"`). Of what the broker has sent when a connection is lost,
some first part is in the client's socket already and is still received (`LosesConnection`).

### Credentials

`set` and `remove` are sequences of four steps (`Steps`), each one file changed atomically or one
`daemon-reload`; a command may stop before any of them. A section of the settings that is not there is
first copied whole from the template, with a placeholder for each of its static secrets (`EnsuresSection`). `loaded` is
systemd's copy of the drop-in and `given` what a user may expect of a name: both values while a command is not done.
`Loaded` is what `load_settings` makes of it at a start. `ServiceStarts` speaks of the static names; of the
slots findings 7 and 8 say what is wrong.

### Definitions that go wrong

Beside some definitions stands a broken sibling (`PushAll`, `NoLock`, `FrozenByTheEnd`,
`CapLifted`, `ReplacesAny`, `DropsNewest`, ...): the same operator as a plausible bug would have it.
Nothing uses them. Put in the place of the definition they stand beside, each makes TLC report a
violation of the property named with it under `mutants` in `PROJECT.json`; that is how we know the
property can fail at all.

## 3. What the runs check

### Writer

| Run | Instance | Shows |
|---|---|---|
| `writer_faults` | one point, two rejections, two heartbeats against a chunk of one, two disk faults, a spool of two lines | `NeverStuck`, `NoLostWakeup`, `NoHeartbeatHeld`: going over to memory and back leaves no work behind a sleeping thread, and an outage no more heartbeats than the failed chunk did not take; `MemoryEmptyOnDisk` |
| `writer_restarts` | two points, three lives ended by kills or `close()`, a disk fault, segments of two lines, the source configured again or not; or one kill, the second life without the first's source and with another | `NothingForgotten`, `SurvivesKill`, `PointerInSpool`: segment numbers, the stored pointer and torn ends never skip a point of an earlier or later life; `InOrder`; `TypeOK`, with the bounds of the queues |
| `writer_liveness` | three lives, a point refused and retried, fair | `Settles`, and `SurvivesKill` for refused points |

In `writer_faults` segments of one line and a spool of two make every append roll over and every
third one evict. A memory queue of one is full whenever it is not empty. Two rejections are a retry that is refused again. `MaxSegments` (12) is never
reached: a run that reached it would deadlock. Three starts are a life, what it left, and a life
over both. Where a run has more of one thing (lives, points, faults) it has less of another.

### Supervisor

| Run | Instance | Shows |
|---|---|---|
| `supervisor_start` | any two documents, of one or two devices, their instance named or not, or unusable; then a write, an edit by hand, a fault | `OneOwnerAtStart`, `Undisturbed`: after the constructor's choice nobody shares a device, and no safe state of one control reaches another's |
| `supervisor_reloads` | one device per document, two callers, two writes, a fault at any moment, fair | `OneEnabledStored`, `NothingLeftOn`, `NoneForgotten`, `InEffect`; `Converges`: the stored documents end up run and nothing else, no bridge being away |
| `supervisor_stops` | a stop at any moment, a write, a fault, an outage, two joins that time out | `Stops`, `CleanExit`, `OneWalk` |

Two controls and two devices are enough for a clash, for a device moved from one control to another,
and for a device a rewritten document no longer names. Two writes give every pair of operations on a
control between two passes of the loop. One fault at any moment interleaves a death with each step of a
reload; two timed-out joins are both the waits the exit handler has. `supervisor_stops` does not
check for deadlock, since the service is then meant to end.

### Controls

| Run | Instance | Shows |
|---|---|---|
| `control_cycles` | two documents (two heaters in a daily window; a heater and a dimmer behind a rule), every demand of 0 to 4 under two caps, two failures or stops anywhere | `LogIsTrue`, `ShutMeansIdle`, `HoldIsBounded`, `MinimumKept` (the refinement), `FailureIsMadeSafe` under fairness |
| `control_stale_integral` | the same, nothing fails but the readings | violation, finding 1 |
| `algorithms` | rules of three levels, texts of up to six tokens, two days on two clocks, six ladders with every demand, cap, minimum, set of frozen devices and log, documents that differ from a sound one in two parts | `ReadsBack`, `GuardsItself`, `HandOver`, `WindowDelivers`, `AcceptedRunsUnlessEmpty` |

Minimums of 1 and 3 ticks against a cycle of 2 are one that fits a window and one that outlives it.
A hold of at most 2 ticks and a record of the loop resumable for 3 are each outlived by two cycles.
Two bridges with a device each are enough for a round that ends half way. The six ladders are those
of two heaters, with and without two rungs of one level or of the same states, and of a heater and a
dimmer, whose frozen value must come off the curve; one log lacks a device. In `algorithms` two parts
changed at once show a check that is skipped because another section is unusable.

### Collection and what comes from outside

| Run | Instance | Shows |
|---|---|---|
| `collection` | a polling and a streaming unit, or one alone, two events (an edit of the file or of an interval, a hang, a dead thread); two controls of `max_age` 1 and 3, killed at any moment, over five instants | `StoppedStays`, `OnlyOutgrownAlarms`, `BacksOffFromSource`; `ActsOnFresh`, `FloorBindsLate` |
| `collection_backoff` | the same | violation, finding 2 |
| `outside` | a lock that changes twice, an outage, a queue of two, fair; two commands on two static credentials and a slot | `NewestSurvives`, `OutageSurfaces`, `CatchesUp`; `ServiceStarts` |

A polled source has an interval of 1, which an edit makes 4, and a streamed one an interval of 2, which an edit makes 1;
the warning threshold is 4, the multiplier 3, a delay 1 or 2, and a call takes up to a tick. So the silence of
the streamed source reaches its threshold of 6 and passes the flat one, and an edit of the polled source's interval
outgrows its threshold within the instance. A queue of two is full
and not empty with one message taken. Two commands give a second one that meets what the first left
half done.

Deadlock is not checked where the instance ends of itself: the service stopped, every question
asked, the clock at its bound, every change and outage used up.

### Fairness

`Writer!Spec`: the thread and the callers are scheduled, timers run out, systemd starts the service
again (its unit restarts it), and a point posted again and again is in the end taken, which is
InfluxDB being back for long enough. Nothing makes a kill, a close or a disk fault happen or
stop. `SF` and not `WF` for the last, because an attempt is not continuously possible.

`Supervisor!Spec`: each thread, caller and live process goes on, a backoff ends, a bridge comes
back, and a control silent for long enough is taken for stalled (`SF` of `ScanStalled`: the loop
comes by only now and then). Nobody is obliged to call a tool or to send a signal, and no fault
has to happen. `WedgedSpec` drops the assumption that the supervisor's thread returns from a
command to a bridge, the one call of it without a bound of its own; `Stops` is checked under it.

`ControlLoop!Fairness`: a process that is up goes on, and a device asked again and again answers in
the end; nothing starts a process that is down.

`Stream!Fairness`: both threads run on, intervals end, a broker that failed comes back; not every
probe comes back empty and not every handshake comes too late (`SF`). Nothing is assumed of a
subscription, which may fail whenever it is made anew.

The other modules state no liveness.

## 4. What is proved

For every value of the constants, from the named assumptions of each module only.

* `Writer_proofs`: `TypeCorrect` (`TypeOK`), `SpoolKeepsOrder` (`MemoryEmptyOnDisk`: a worker's later
  reading cannot reach the spool ahead of an earlier one that had to wait in memory),
  `PointerStays` (`PointerInSpool`: no rolling, making room, setting aside, retiring, failed write or
  restart leaves the read position behind, so the scan of `writer.py:1066-1074` for a later segment
  is never needed and `ReadSpool` does not model it), `NothingIsForgotten` (`NothingForgotten`),
  `KillSurvived` (`SurvivesKill`), `ReadingsInOrder` (`InOrder`), `HeartbeatsBounded` (`NoHeartbeatHeld`),
  `PassesProgress` (`NeverStuck`), `NeverSleepsOverWork` (`NoLostWakeup`), and the three invariants these rest on, `Invariance`, `LossInvariance` and `OrderInvariance`.
* `Supervisor_proofs`: `OneEnabledAlways` (`OneEnabledStored`, from a clean start and with no edit by
  hand), `OneWalkAlways` (`OneWalk`), `NoneForgottenEver` (`NoneForgotten`), `NothingStaysOn`
  (`NothingLeftOn`, while no join has timed out), `ExitsCleanly` (`CleanExit`), `OneOwnerFromTheStart`
  (`OneOwnerAtStart`), `NobodyDisturbs` (`Undisturbed`), `WhatIsStoredIsRun` (`InEffect`, from a clean start,
  with no edit by hand and while no join has timed out).
* `ControlLoop_proofs`: `TypesKept` (`TypeOK`), `LogAlwaysTrue` (`LogIsTrue`), `ShutAlwaysIdle`
  (`ShutMeansIdle`), `HoldAlwaysBounded` (`HoldIsBounded`), `KeepsMinimums` (`MinimumKept`: the refinement
  of `MinimumHold`).
* `Decisions_proofs`, for the behaviours of `DecisionSpec`: `WindowsHandOver` (`HandOver`), for a day of any
  length and any clock; `EveryWindowDelivers` (`WindowDelivers`), for any stages, log and minimums, a rung
  saying something of every device (`PlansAssumption`, as `controls.py` requires of every stage) and the
  shares of a window being whole (`SharesAssumption`: the code's are reals, and it is there only for the
  average to come out exactly); `ValidDocumentsRun` (`AcceptedRunsUnlessEmpty`), for any documents.
* `Collection_proofs`: `StoppedForGood` (`StoppedStays`); `FailuresAreApart` (`BacksOffFromSource`), no delay being
  longer than the stall warning (`DelaysAreShort`; the code fixes 300 and 900 seconds,
  `sendtoinflux.py:38,49`); `OnlyHungIsReported` (`OnlyOutgrownAlarms`), a wait and the calls after it being
  shorter than the unit's threshold as well, for each interval the settings may come to hold that has not outgrown it
  (`CallsAreShort`: what a user's intervals and the calls' timeouts must satisfy for a report to mean
  anything); `FreshAlways` (`ActsOnFresh`), the settings being
  numbers (`Numbers`); `MinimumBinds` (`FloorBindsLate`), the collector's clock being ahead by the
  tolerance at most (`ClocksAgree`).
* `Outside_proofs`: `NewestAlways` (`NewestSurvives`), `OutageShows` (`OutageSurfaces`), `StartsWithSecrets`
  (`ServiceStarts`).

**Writer.** `TypeOK` is not inductive. That a chunk holds entries needs every file of the spool to be
torn nowhere but at its end (`WellFormed`), which needs a failed write to be cut off before anything
follows it, which needs the segment appended to be the newest and the files on disk to be
exactly the ones counted (`SpoolInv`), which needs to be known of a start that finds another
process's directory (`LoadedGood`). `AppendInv` says who is inside the lock, `ChunkInv` what a
chunk may hold, `MemoryInv` that memory is empty while the spool takes points. `Spool_proofs`
has one lemma per operator of `Spool`: given a good record, what it returns is good, and, for the second
layer, which lines it keeps behind the pointer and behind the stored pointer.

`NothingForgotten` and `SurvivesKill` are that second layer, `LossInv`. `PosInv` says that the
pointer is in the oldest segment, that the stored pointer is not ahead of it and names no number that will be
given out again, and the like of a directory left behind; `ChunkAt`, that a chunk read from disk stands
behind the pointer, entry by entry, as long as its segment is there; `DoneKept`, that what of it has been tried is
stored, given up, or waits with its refusals counted; `RetryInv`, that what waits is in the retry file
before the pointer passes it, so that a kill in the step `consume` finds it in one or the other; `Found` and
`Saved`, that every point is somewhere this process, or the next, will look.

`InOrder` is a third layer, `OrderInv`. A point is settled once it is stored, given up or refused the first time:
none later need wait for it. Of every place a point can be, the layer says that its worker's earlier
readings are settled or are met first from there: a line of the spool, or of the spool a start will make
of the files (`SpoolOrder`); a memory queue, behind the spool and behind its own head (`MemoryOrder`); a chunk
(`ChunkOrder`); the retry list and the retry file, whose points have been refused, so that what waits there holds
nobody up and comes back behind what went on without it (`WaitOrder`, `TurnedInv`); and the append under way
(`AddOrder`). A chunk's entries are grouped by database, and a worker has one, so the groups keep
the order of the chunk; posted one by one they go from the first (`SingleInv`). The memory queues need each to
hold its own worker's readings only (`OwnQueue`).

`_consume` takes entries off a queue by identity. Of a memory chunk the model counts in `gone` how many
entries have left their queue since they were read, by eviction or to the spool; that the rest of the
chunk stands at the queue's head is `MemoryChunk`, part of `LossInv`. `NeverStuck` follows for
memory chunks from this count, for chunks of the spool from `ChunkAt` (each entry ends behind the pointer), and
for heartbeats, which may be pushed out or dropped while they are posted, from `LiveApart`: the queue never holds
one heartbeat twice, and the first of the chunk is at its head or nowhere in it.

`NoLostWakeup` is hard while the disk is away (mode `failed`), for then `pending()` looks at memory alone
although the spool may still hold points, and the thread must not sleep on them. `FailedInv` says why it does not:
with nobody appending, either nothing lies in the spool or some queue holds more than the chunk out of it, since the
failed write put a point there and the thread turns to the queues only once the spool is read to its end. So once
memory is empty the spool is too. `SleepInv` carries what the thread saw through the wait: whoever adds
anything sets `rousing` or `wake`. Both need that only a write adds to what lies in the spool (`Narrower`).
For `NoHeartbeatHeld`, `HeartInv`: while nothing new has been heard of, the thread reads the spool only with no
heartbeat waiting, and a chunk of heartbeats is the head of their queue (`ChunkLeads`), so a chunk that
fails leaves what of a full queue it did not take (`HeldBounded`). Its bound on the queue is the last part of `TypeOK`; that
on the memory queues keeps itself (`MemoryBoundedStep`).

**Supervisor.** For `OneEnabledStored` the invariant adds that one caller at a time is between its check and its
store, and that what it is about to store was checked against the documents as they still are: that is all
`_WRITE_LOCK` gives, and the deletion that asks for its reload after letting the lock go needs no more. For
`OneWalk` and `NoneForgotten` it is `ThreadInv`: what each loop has left to visit, which child a
thread is busy with, that the exit handler walks only once the other thread has ended or can no longer
begin, and that a child without a process or a time is one whose handling is not done.

`NothingLeftOn` and `CleanExit` follow from `Quiet`, which holds while no join has timed out. Then one thread at a
time handles children (`AloneOK`); a process exists exactly while its child holds one, and runs the
parent's copy of the document unless it read its own later (`ProcsOK`); and whatever is lit is in
the hands of a process or of a thread that is about to make it safe, and is named by a document that
thread will command, the parent's copy or the stored one (`LitOK`). The hypothesis is needed: after a join
that timed out, a child removed by one thread under the other's walk leaves a device on.

`OneOwnerAtStart` and `Undisturbed` follow from `Original`, which needs no such hypothesis: until a document
changes, every child is one of those the constructor chose, from the document it chose (`KeptOK`,
`AskedOK`), these share no device, each lit device belongs to a control whose document names it (`LitHome`),
and a thread makes safe only a control without a process and starts only one the other thread is not
making safe (`TurnOK`).

`InEffect` follows from `EffectOK`: for each control, either everything is right already, or the wrong is still known of
to somebody (`SeenTo`): a caller between its write and its request, the queue, the batch being handled, a thread
in the middle of removing a control whose document is not enabled, or of restarting one whose is. That
no request is dropped when a batch is cut down to the first appearance of each name (`AllAppear`) is
shown by counting, since an induction over the batch is out of reach. Once the service is told to
stop requests are ignored, so a settled state is asked for only of a supervisor still polling.

**Control process.** The invariant is one conjunct per question: the plan in hand (`PlanOK`), what is left
between rounds (`Quiet`), the log against the devices it dates (`LogOK`), a round of commands against what
has answered (`RoundOK`, `ForcedOK`), the shut gate (`IdleOK`), the hold (`HoldOK`), the scale of what is sent
(`ScaleOK`) and, for the refinement, that a rung the plan moves a bound device to is one no lower rung
could replace (`DwellsOK`, `WindowOK`). Under it stand lemmas on the planner: a ladder is a set of
rungs under a total order, so it has a bottom, a top and a bracket for every demand; a cap and a
freeze leave a part of it; a window planned from a part is made of its rungs, and pinning the frozen
devices keeps it so. `KeepsMinimums` maps each step of the process to one of `MinimumHold` or to none:
`Start` to `Begin`, `Turn` to `Plan`, a command answered, or lost, to `Move`, the end of a round
to `Record`, whatever lets time pass to `Pass`, the end of a process to `Die`, an edit to `Edit`. The proof
found two corners the instance does not reach, both now in `MinimumHold`: a cap below every rung leaves the lowest
level, which two rungs may share; and a device may move because the log, out of date about another,
takes that other for frozen.

**Decisions.** A behaviour asks one question and keeps the answer, so the invariant is the properties
themselves and all of the work is in what each operator returns. `HandOver` is a case split on the order of the three
times of the day and on the one the clock shows (`ThreeWindows`, `OneIsOpen`). For `WindowDelivers`,
`PlannedWindow` reads off `plan_window` that a window stays on one rung, from which no rung is nearer to the
demand, or is split between the two rungs that bracket it (`OnOne`, `OnTwo`); `LadderOfPlan` says what the
cap and the freeze leave of the stages, so each of the two cases keeps the minimums and delivers
(`WholeWindow`, `SplitWindow`). That the ladder lemmas and the folds that add up a window's seconds and
levels are needed for a plan here and for a running process there is why they stand in
`Staging_proofs`. `ValidDocumentsRun` takes each step of the three constructors to the check that
covers it, across sections (a rule's names to the inputs and parameters, a state of the window to the
devices' full scale). `Algorithms` only adds questions of other kinds, of which the three properties say
nothing. The proof found that the instance had asked `plan_window` with an uncapped curve and with
driven devices among the frozen ones, neither of which `step` does, and that it had no ladder with two
rungs of the same states, where the plan records the level of the lower one: `nearest` is now said of
what a rung commands.

**The others.** For `ActsOnFresh`, a value that is looked past was older than the trigger, which is at least the
control's `max_age`, so no wait makes it usable; any other is judged in the instant it was read. For
`FloorBindsLate`, a point of a live read is unsent or the newest stored is no older (`LandedOK`), and the
trigger is at least the minimum, so a control that looks again within it finds that point fresh. For
`BacksOffFromSource` and `OnlyOutgrownAlarms`, `TimeInv` bounds in each place of a worker's loop what has passed since it
was active together with what it has left to wait: from below by the delay announced (`Delayed`), from above
by the longest wait and the calls after it (`Recent`). That wait is the one of the interval the handler was
constructed with; a worker without a handler waits for a delay only, so an interval read anew never
meets a wait begun under the old one (`EditKeeps`: an edit of the file touches nothing of this). For
`NewestSurvives`, only the network thread puts anything on the queue, so room it has made stays. For
`OutageSurfaces`, while the broker is away nothing new arrives (`DarkOK`). For
`ServiceStarts`, while a command is at a step, the files it has not changed yet are those of before
(`SetInv`, `RemoveInv`), which is what the order of the steps is for.

Only model-checked: liveness (`Settles`, `Converges`, `Stops`, `CatchesUp`, `FailureIsMadeSafe`), which rests on
fairness and on `ENABLED`; `ReadsBack` and `GuardsItself`, of the parser and the evaluator of rules, which
are recursive operators and would take an induction over their trees; and the properties of the
findings below. `Supervisor` has no type invariant of its own: `FramesOK`, `ChildrenOK` and `CallsOK` of
its proofs are the parts of one that are needed. Induction over data is out of the prover's reach; where a
proof needs the least or the first of something, it takes it from a well-ordering or from a cardinality.

## 5. Findings

With a trace from a violation run:

1. `NoStaleIntegral` (`control_stale_integral`). `cycle()` resumes the loop before the readings are
   taken (`control_process.py:527`), so an outage of the readings stamps the hold anew in every cycle
   and its bound never bites. `HoldIsBounded` is what does hold.
2. `BacksOff` (`collection_backoff`). A worker whose settings file cannot be read after a failure tries
   again without its delay (`sendtoinflux.py:438`). `BacksOffFromSource` is what does hold.

Stated in a module and refuted by naming it in the `.cfg` of the instance given:

3. `EndStateOutside` (`control_cycles`). An end state is applied on an edge of the gate only
   (`gating.py:138`), so a control that was not acting when its window closed never applies it.
4. `AcceptedRuns` (`algorithms`). A window that starts when it ends is stored and cannot be started
   (`controls.py:926`, `schedule.py:83-89`).
5. `SafeStateStaysHome` (`supervisor_reloads`). A running control rewritten to clash is stored
   disabled; stopping it makes safe the devices of that disabled document too, which another control
   is running (`supervision.py:1074`).
6. `NoFalseAlarm` (`collection`). The watchdog takes a unit's threshold from the settings of the start
   (`sendtoinflux.py:1225`), and a worker that fails constructs its next handler, with its interval, from the file as it
   then is (`sendtoinflux.py:438-439`, `451-452`). An interval that was raised makes a healthy worker that sleeps for it
   be reported as stuck, against `sendtoinflux.py:44-48`. `OnlyOutgrownAlarms` is what does hold.

Read off the code while modelling it:

7. An additional bridge's credential is stored under a name no line of the drop-in ever mounts
   (`credential_cli.py:250`; `Listed`).
8. `remove` goes on after a failed `daemon-reload` (`credential_cli.py:1104`; `ReloadFails`), and deletes
   a file systemd's copy of the drop-in names. `ServiceStarts` excepts both this and the slots.

Narrower observations, none of which contradicts more than a comment:

* `OneOwner` (`supervisor_reloads` with a third write). Reloads are handled in the order their names were
  first asked for, each against the store as it is by then, so for a moment a control can be given a
  device before its former owner is stopped (`supervision.py:649`).
* `RefusedOnDisk` (`writer_liveness`). `close()` turns the disk off (`writer.py:1351`) while the
  thread may be posting; a point refused then is not written to the retry file (`writer.py:27-28`),
  and `SurvivesKill` counts it among what ends with the process.
* `FloorBinds` (`collection`). A live point still with its writer is not in InfluxDB, so a second
  control may read the source within the floor; `FloorBindsLate` is what holds. A fetch that fails
  leaves nothing of the input behind and is not bounded by the floor at all, and a stored point further ahead
  than the tolerance hides older ones, so that every cycle fetches.
* A restart never asks whether the document it has just read is enabled (`supervision.py:473`;
  compare `CONTROLS.md:218`). A disabled or deleted control whose bridge is away is forgotten with its
  device on (`supervision.py:745`, `767`; compare line 982). A document rewritten between the parent's
  read and the process's, then deleted, leaves a device nobody can name (line 473; compare line 93).
  A thread that comes out of a long command after the exit handler has given up on it goes on to start a
  control (line 722; compare line 627). `NothingLeftOn` and `CleanExit` except what was `missed` or
  `stranded`, and `CleanExit` a join that timed out.
* A ladder with two rungs at the top level takes the last of them at the top and the first anywhere
  below (`staging.py:132-133`, `120-121`; compare `CONTROLS.md:239`).
* A backlog handled after a fresher snapshot steps a series back until the queue is drained, and a
  point goes to the series of the identifier until the name is known: `CatchesUp` says both end.
* A streaming worker's failure count is not reset by a connection that holds, and a source whose
  handler cannot be constructed sends no heartbeat at all.
* Heartbeats may be held through an outage although the comment where they are dropped says
  none are (`writer.py:856-858`): the queue takes `LIVE_POINTS` (200) of them and a chunk `CHUNK_POINTS` (100), and the ones a
  failed chunk did not take stay until the timer. `NoHeartbeatHeld` allows as many (`HeldAtMost`).
* Heartbeats without end could keep points waiting: `Settles` is checked without live points.
* Two credential commands at once are guarded by nothing; one at a time is assumed.

## 6. Not modelled

* The MCP server and its OAuth provider: an authorisation server over a framework of its own, whose
  questions are of access, not of collection or control.
* The MCP read tools, dashboards, resources and prompts, the write tool for lights, the control
  history and InfluxDB's reads: queries, encoding and formatting, without state between two calls.
* Hue, MyEnergi, Octopus, Carbon Intensity, Open-Meteo and Speedtest: one request and the parsing of
  its answer. What a failed or half-done request leads to is in `Supervisor`, `ControlLoop` and `Collector`.
* The settings loader but for credential sentinels: one file at a time, no interaction.
* The pump of external commands: its hazards are in how the operating system fills and empties pipes,
  which a model would have to invent.
* Packaging and the migration script: run by hand or by the package manager.
* Of the modelled parts: the writer's inline mode, an `os.remove` that fails in `_retire` or
  `_enforce_limit`, and the broad `except` of `_run`; documents whose safe state is `leave_unchanged`,
  backoff lengths, single heartbeats and `status()` of the supervisor; the PID's arithmetic, which is in
  reals; a clock that is set back; several locks; credential files' ownership, and the commands that
  edit settings without a secret.
