------------------------------- MODULE Writer -------------------------------
(***************************************************************************)
(* InfluxWriter (toinflux/writer.py): callers commit points to a spool on  *)
(* disk, or to memory where there is none, and one thread posts them.  The *)
(* process may be killed and started again, the disk may fail, and what    *)
(* InfluxDB answers to each post is chosen freely.                         *)
(*                                                                         *)
(* An action is what happens in one holding of the writer's lock, or one   *)
(* post.  Time is abstracted: the retry timer and each refused point's     *)
(* own wait run out at any later moment.                                   *)
(***************************************************************************)
EXTENDS Spool

CONSTANTS
  Sources,        (* settings sections, each its own database                *)
  SourceOf,       (* the source of each worker                               *)
  Settings,       (* the sections the settings may have at a start           *)
  Thread, Nobody, (* the writer's thread, and no one, as holders of the lock *)
  NoEntry,        (* no entry is being appended                              *)
  ReadingsOf,     (* how many of its readings each worker submits            *)
  DiskBuffer,     (* influx.buffer_mb is not 0                               *)
  MemoryPoints,   (* MEMORY_POINTS_PER_WORKER                                *)
  LivePoints,     (* LIVE_POINTS; 0 leaves heartbeats out                    *)
  MaxFaults,      (* bound on disk faults                                    *)
  MaxStarts,      (* bound on starts of the process                          *)
  Endings         (* how a process may end in the instance: kill, close      *)

ASSUME WriterAssumption ==
  /\ SourceOf \in [Workers -> Sources]
  /\ Thread \notin Workers /\ Nobody \notin Workers \cup {Thread}
  /\ NoEntry \notin Entries
  /\ ReadingsOf \in [Workers -> 1..MaxPoints]
  /\ DiskBuffer \in BOOLEAN
  /\ MemoryPoints \in Nat \ {0}
  /\ LivePoints \in Nat
  /\ Settings \subseteq SUBSET Sources /\ Settings # {}
  /\ MaxFaults \in Nat
  /\ MaxStarts \in Nat \ {0}
  /\ Endings \subseteq {"kill", "close"}

VARIABLES
  (* on disk *)
  spool,      (* the segments; their in-memory bookkeeping goes at a restart *)
  stored,     (* pointer.json                                                *)
  retry,      (* retry.jsonl                                                 *)
  (* the process *)
  life,       (* down, running, closing (_closing) or stopped (_stopping)    *)
  mode,       (* disk (_disk), failed (its lock still held) or memory        *)
  waiting,    (* _waiting: refused points before their next attempt          *)
  due,        (* those of them whose time has come                           *)
  dirty,      (* _waiting_changed                                            *)
  memory,     (* _memory                                                     *)
  gone,       (* of the chunk out, those no longer in their memory queue     *)
  live,       (* _live, as identities of heartbeats                          *)
  lastLine,   (* _last_line: the reading each worker submitted last          *)
  dest,       (* the sources _destinations knows                             *)
  timer,      (* _retry_at is in the future                                  *)
  refusing,   (* _refusing                                                   *)
  lock,       (* who is inside a locked section of several steps             *)
  adding,     (* the entry _append is appending                              *)
  rousing,    (* workers back from _append that have yet to set _wake        *)
  wake,       (* _wake                                                       *)
  (* the thread *)
  tpc, force, liveOnly,
  kind,       (* where the chunk came from: live, spool or memory            *)
  chunk,
  tried,      (* sources of the chunk whose group has been posted            *)
  single,     (* the entry being posted on its own, or 0                     *)
  done,       (* indices of the chunk dealt with                             *)
  accepted,   (* some entry of the chunk was taken                           *)
  outcome,    (* sent, refused or failed                                     *)
  sleepFor,   (* what the timeout of the current wait stands for             *)
  (* the world, and history *)
  reading,    (* the latest reading each worker has submitted                *)
  db,         (* points InfluxDB holds                                       *)
  excused,    (* points given up, for a reason the log names                 *)
  turned,     (* points InfluxDB has refused                                 *)
  unsaved,    (* the retry file could not be written last time               *)
  stuck,      (* a pass dealt with points and could not remove them          *)
  faults, starts

diskVars    == <<spool, stored, retry>>
queueVars   == <<mode, waiting, due, dirty, memory, gone, live, lastLine, dest>>
appendVars  == <<lock, adding, rousing>>
timerVars   == <<timer, refusing>>
chunkVars   == <<kind, chunk, tried, single, done, accepted, outcome>>
threadVars  == <<tpc, force, liveOnly, sleepFor, chunkVars>>
historyVars == <<reading, db, excused, turned, unsaved, stuck>>
vars == <<diskVars, life, queueVars, appendVars, timerVars, wake, threadVars,
          historyVars, faults, starts>>

Up == life # "down"
Pcs == {"none", "top", "due", "release", "timer", "read", "post", "single",
        "save", "consume", "check", "wait", "clear", "gone"}
HeartbeatIds == 1..3 * LivePoints
Heartbeat(h) == [live |-> h]

-----------------------------------------------------------------------------
(* Faults of the disk, and what is written beside the segments *)

Fault == faults < MaxFaults /\ faults' = faults + 1

(* _write_pointer: unsynced and its failures tolerated, so that what is      *)
(* stored may stay as it was.                                                *)
WritePointer(ptr) ==
  \/ stored' = ptr /\ UNCHANGED faults
  \/ stored' = stored /\ Fault

(* _write_retry_file for the points waiting, w, the change flag being d. *)
WriteRetryFile(m, w, d) ==
  IF m = "disk" /\ d
  THEN /\ dirty' = FALSE
       /\ \/ retry' = w /\ unsaved' = FALSE /\ UNCHANGED faults
          \/ retry' = retry /\ unsaved' = TRUE /\ Fault
  ELSE dirty' = d /\ UNCHANGED <<retry, unsaved, faults>>

-----------------------------------------------------------------------------
(* Appending: _append, by a caller or by the thread releasing a point *)

MemoryEmpty == \A w \in Workers : memory[w] = <<>>

(* A queue at its bound gives up its oldest; the broken variant grows on.    *)
PushAll(q, e) == Append(q, e)
Push(q, e) == IF Len(q) >= MemoryPoints THEN Append(Tail(q), e) ELSE Append(q, e)
PushedOut(q) == IF Len(q) >= MemoryPoints THEN {Head(q).p} ELSE {}

(* The head of a worker's queue leaves it, while a chunk of it may be out.   *)
HeadGone(w) ==
  gone' = IF kind = "memory" /\ chunk[1].e.p[1] = w /\ gone < Len(chunk) THEN gone + 1 ELSE gone

(* The append is over: the lock is released, or the thread goes on to the    *)
(* next point due.                                                           *)
AppendOver ==
  /\ adding' = NoEntry
  /\ IF lock = Thread
     THEN /\ waiting' = waiting \ {adding}
          /\ due' = due \ {adding}
          /\ UNCHANGED <<lock, rousing>>
     ELSE /\ lock' = Nobody
          /\ rousing' = rousing \cup {lock}
          /\ UNCHANGED <<waiting, due>>

KeepInMemory ==
  LET w == adding.p[1] IN
  /\ memory' = [memory EXCEPT ![w] = Push(@, adding)]
  /\ IF Len(memory[w]) >= MemoryPoints THEN HeadGone(w) ELSE UNCHANGED gone
  /\ excused' = excused \cup PushedOut(memory[w])
  /\ AppendOver

(* _move_memory_to_spool, one entry at a time, whichever worker's is first. *)
MoveToSpool(w) ==
  /\ adding # NoEntry /\ mode \in {"disk", "failed"} /\ memory[w] # <<>>
  /\ CanStart(spool)
  /\ spool' = Wrote(spool, Head(memory[w]))
  /\ excused' = excused \cup EvictedPoints(Appended(spool, Head(memory[w])))
  /\ memory' = [memory EXCEPT ![w] = Tail(@)]
  /\ HeadGone(w)
  /\ UNCHANGED <<stored, retry, life, mode, waiting, due, dirty, live, lastLine, dest, appendVars,
                 timerVars, wake, threadVars, reading, db, turned, unsaved, stuck, faults, starts>>

(* Broken variant: the disk is back, and what memory held meanwhile stays there. *)
WriteLeavingMemory ==
  /\ adding # NoEntry /\ mode \in {"disk", "failed"} /\ CanStart(spool)
  /\ spool' = Wrote(spool, adding)
  /\ excused' = excused \cup EvictedPoints(Appended(spool, adding))
  /\ mode' = "disk"
  /\ AppendOver
  /\ UNCHANGED <<dirty, retry, unsaved, faults, stored, life, memory, gone, live, lastLine, dest, timerVars,
                 wake, threadVars, reading, db, turned, stuck, starts>>

WriteToSpool ==
  /\ adding # NoEntry /\ mode \in {"disk", "failed"} /\ MemoryEmpty
  /\ CanStart(spool)
  /\ spool' = Wrote(spool, adding)
  /\ excused' = excused \cup EvictedPoints(Appended(spool, adding))
  /\ mode' = "disk"
  /\ AppendOver
  /\ IF mode = "failed"
     THEN WriteRetryFile("disk", waiting, TRUE)
     ELSE UNCHANGED <<dirty, retry, unsaved, faults>>
  /\ UNCHANGED <<stored, life, memory, gone, live, lastLine, dest, timerVars, wake, threadVars,
                 reading, db, turned, stuck, starts>>

(* The write of the entry at hand - one from memory first - fails, and the   *)
(* point is held in memory.                                                  *)
AppendFails ==
  /\ adding # NoEntry /\ mode \in {"disk", "failed"}
  /\ CanStart(spool)
  /\ \E e \in IF MemoryEmpty THEN {adding}
              ELSE {Head(memory[w]) : w \in {v \in Workers : memory[v] # <<>>}} :
       spool' \in FailedWrites(spool, e)
  /\ Fault
  /\ mode' = "failed"
  /\ KeepInMemory
  /\ UNCHANGED <<stored, retry, life, dirty, live, lastLine, dest, timerVars, wake, threadVars,
                 reading, db, turned, unsaved, stuck, starts>>

(* There is no spool to try. *)
AppendToMemory ==
  /\ adding # NoEntry /\ mode = "memory"
  /\ KeepInMemory
  /\ UNCHANGED <<diskVars, life, mode, dirty, live, lastLine, dest, timerVars, wake, threadVars,
                 reading, db, turned, unsaved, stuck, faults, starts>>

-----------------------------------------------------------------------------
(* Callers: DataHandler.send_data and InfluxWriter.submit *)

CallerFree(w) == Up /\ lock = Nobody /\ w \notin rousing

(* A worker submits its next reading, or serves its latest one again after   *)
(* a restart.                                                                *)
Submit(w, n) ==
  /\ CallerFree(w)
  /\ n = reading[w] \/ n = reading[w] + 1
  /\ n \in 1..ReadingsOf[w] /\ n # lastLine[w]
  /\ reading' = [reading EXCEPT ![w] = n]
  /\ lastLine' = [lastLine EXCEPT ![w] = n]
  /\ dest' = dest \cup {SourceOf[w]}
  /\ lock' = w
  /\ adding' = [p |-> <<w, n>>, r |-> 0]
  /\ UNCHANGED <<diskVars, life, mode, waiting, due, dirty, memory, gone, live, rousing, timerVars, wake,
                 threadVars, db, excused, turned, unsaved, stuck, faults, starts>>

(* The same line as the last one: nothing to do, and nobody to wake. *)
SubmitAgain(w) ==
  /\ CallerFree(w)
  /\ lastLine[w] # 0
  /\ dest' = dest \cup {SourceOf[w]}
  /\ UNCHANGED <<diskVars, life, mode, waiting, due, dirty, memory, gone, live, lastLine, appendVars, timerVars,
                 wake, threadVars, historyVars, faults, starts>>

(* The heartbeats in the queue or out being posted. *)
InUse == {h \in HeartbeatIds : (\E i \in DOMAIN live : live[i] = h)
                               \/ \E i \in DOMAIN chunk : chunk[i].e = Heartbeat(h)}

(* A live point, not buffered: the queue's oldest goes when it is full.  The *)
(* new one has the first identity not in use.                                *)
SubmitLive(w, h) ==
  /\ CallerFree(w)
  /\ h \notin InUse /\ 1..h - 1 \subseteq InUse
  /\ live' = IF Len(live) >= LivePoints THEN Append(Tail(live), h) ELSE Append(live, h)
  /\ dest' = dest \cup {SourceOf[w]}
  /\ rousing' = rousing \cup {w}
  /\ UNCHANGED <<diskVars, life, mode, waiting, due, dirty, memory, gone, lastLine, lock, adding, timerVars,
                 wake, threadVars, historyVars, faults, starts>>

(* _ensure_thread, then _wake.set(). *)
Rouse(w) ==
  /\ w \in rousing /\ lock = Nobody
  /\ rousing' = rousing \ {w}
  /\ wake' = TRUE
  /\ tpc' = IF tpc \in {"none", "gone"} /\ life # "stopped" THEN "top" ELSE tpc
  /\ UNCHANGED <<diskVars, life, queueVars, lock, adding, timerVars, force, liveOnly, sleepFor, chunkVars,
                 historyVars, faults, starts>>

-----------------------------------------------------------------------------
(* The thread: _run and run_until_idle *)

EmptyChunk ==
  /\ kind' = "none" /\ chunk' = <<>> /\ tried' = {} /\ single' = 0
  /\ done' = {} /\ accepted' = FALSE /\ outcome' = "sent"

Goto(pc) == tpc' = pc

ThreadTop ==
  /\ tpc = "top"
  /\ Goto(IF life = "stopped" THEN "gone" ELSE "due")
  /\ force' = (life = "closing")
  /\ UNCHANGED <<diskVars, life, queueVars, appendVars, timerVars, wake, liveOnly, sleepFor, chunkVars,
                 historyVars, faults, starts>>

(* _release_due takes the lock where a refused point's time has come. *)
ThreadDue ==
  /\ tpc = "due" /\ lock = Nobody
  /\ IF due = {} THEN Goto("timer") /\ UNCHANGED lock ELSE Goto("release") /\ lock' = Thread
  /\ UNCHANGED <<diskVars, life, queueVars, adding, rousing, timerVars, wake, force, liveOnly, sleepFor,
                 chunkVars, historyVars, faults, starts>>

Release(e) ==
  /\ tpc = "release" /\ adding = NoEntry /\ e \in due
  /\ adding' = e
  /\ UNCHANGED <<diskVars, life, queueVars, lock, rousing, timerVars, wake, threadVars, historyVars,
                 faults, starts>>

(* Everything due is back in the spool; only now does it leave the file. *)
ReleaseOver ==
  /\ tpc = "release" /\ adding = NoEntry /\ due = {}
  /\ WriteRetryFile(mode, waiting, TRUE)
  /\ lock' = Nobody
  /\ Goto("timer")
  /\ UNCHANGED <<spool, stored, life, mode, waiting, due, memory, gone, live, lastLine, dest, adding, rousing,
                 timerVars, wake, force, liveOnly, sleepFor, chunkVars, reading, db, excused, turned,
                 stuck, starts>>

(* Whether this pass may post, or the retry timer holds it back. *)
PostsAll == force \/ ~timer

(* _drop_live; the broken variant keeps the heartbeats for the timer.        *)
KeepsLive(q) == q
DropsLive(q) == <<>>

ThreadTimer ==
  /\ tpc = "timer" /\ lock = Nobody
  /\ \/ /\ (PostsAll \/ refusing)
        /\ Goto("read") /\ liveOnly' = ~PostsAll
        /\ UNCHANGED live
     \/ /\ ~PostsAll /\ ~refusing
        /\ Goto("check") /\ live' = DropsLive(live)
        /\ UNCHANGED liveOnly
  /\ UNCHANGED <<diskVars, life, mode, waiting, due, dirty, memory, gone, lastLine, dest, appendVars, timerVars,
                 wake, force, sleepFor, chunkVars, historyVars, faults, starts>>

-----------------------------------------------------------------------------
(* The thread: _read_chunk *)

FirstOf(q, n) == SubSeq(q, 1, IF Len(q) < n THEN Len(q) ELSE n)

NewChunk(from, c) ==
  /\ Goto("post") /\ UNCHANGED liveOnly
  /\ kind' = from /\ chunk' = c
  /\ tried' = {} /\ single' = 0 /\ done' = {} /\ accepted' = FALSE /\ outcome' = "sent"

Idle == Goto("check") /\ liveOnly' = FALSE /\ EmptyChunk

TakesLive == live # <<>> \/ liveOnly

ReadLive ==
  /\ tpc = "read" /\ lock = Nobody /\ TakesLive
  /\ IF live # <<>>
     THEN NewChunk("live", [i \in DOMAIN FirstOf(live, ChunkPoints) |->
                              [e |-> Heartbeat(live[i]), end |-> NoPtr]])
     ELSE Idle
  /\ UNCHANGED <<diskVars, life, queueVars, appendVars, timerVars, wake, force, sleepFor,
                 historyVars, faults, starts>>

(* The thread is at the spool, alone or part-way through _read_spool. *)
AtSpool ==
  /\ tpc = "read"
  /\ lock = Thread \/ (lock = Nobody /\ ~TakesLive)

ReadSpool ==
  /\ AtSpool /\ Readable(spool)
  /\ NewChunk("spool", SpoolChunk(spool))
  /\ lock' = Nobody
  /\ UNCHANGED <<diskVars, life, queueVars, adding, rousing, timerVars, wake, force, sleepFor,
                 historyVars, faults, starts>>

RetireSegment ==
  /\ AtSpool /\ Finished(spool)
  /\ spool' = Retired(spool, PtrSeg(spool))
  /\ WritePointer(spool'.ptr)
  /\ lock' = Thread
  /\ UNCHANGED <<retry, life, queueVars, adding, rousing, timerVars, wake, threadVars,
                 historyVars, starts>>

(* A segment that cannot be read is set aside; if it was the one appended    *)
(* to, appends move to a fresh one, or to memory for good.                   *)
SetAsideSegment ==
  LET g == PtrSeg(spool)
      rest == Retired(spool, g)
      closed == Retired([spool EXCEPT !.open = FALSE], g)
  IN
  /\ AtSpool /\ PtrInSpool(spool) /\ spool.ptr[2] < spool.size[g]
  /\ CanStart(closed)
  /\ \/ g # spool.cur /\ spool' = rest /\ UNCHANGED mode
     \/ g = spool.cur /\ spool' = Started(closed) /\ UNCHANGED mode
     \/ g = spool.cur /\ spool' = AbandonSpool(closed) /\ mode' = "memory"
  /\ stored' \in {stored, rest.ptr}
  /\ Fault
  /\ excused' = excused \cup PointsIn(From(spool, g, spool.ptr[2]))
  /\ lock' = Thread
  /\ UNCHANGED <<retry, life, waiting, due, dirty, memory, gone, live, lastLine, dest, adding, rousing,
                 timerVars, wake, threadVars, reading, db, turned, unsaved, stuck, starts>>

(* Nothing in the spool: a memory queue, or nothing at all. *)
ReadMemory ==
  /\ AtSpool /\ Exhausted(spool)
  /\ spool' = SkipTorn(spool)
  /\ lock' = Nobody
  /\ \/ \E w \in Workers :
          /\ memory[w] # <<>>
          /\ NewChunk("memory", [i \in DOMAIN FirstOf(memory[w], ChunkPoints) |->
                                   [e |-> memory[w][i], end |-> NoPtr]])
     \/ MemoryEmpty /\ Idle
  /\ UNCHANGED <<stored, retry, life, queueVars, adding, rousing, timerVars, wake, force,
                 sleepFor, historyVars, faults, starts>>

-----------------------------------------------------------------------------
(* The thread: _post_next_chunk and _send_run.  The groups of _by_database   *)
(* are posted in the order their first entries come in the chunk.            *)

SourceAt(i) == SourceOf[chunk[i].e.p[1]]
Group ==
  LET first == Min(DOMAIN chunk \ tried) IN
  IF kind = "live" THEN DOMAIN chunk ELSE {i \in DOMAIN chunk : SourceAt(i) = SourceAt(first)}
Configured == IF kind = "live" THEN TRUE ELSE SourceAt(Min(Group)) \in dest
PointsAt(I) == IF kind = "live" THEN {} ELSE {chunk[i].e.p : i \in I}

(* On to the next group, or to the end of the chunk. *)
GroupOver ==
  /\ tried' = tried \cup Group
  /\ single' = 0
  /\ Goto(IF DOMAIN chunk = tried \cup Group THEN "save" ELSE "post")

PostAccepted ==
  /\ tpc = "post" /\ lock = Nobody
  /\ Configured
  /\ db' = db \cup PointsAt(Group)
  /\ done' = done \cup Group /\ accepted' = TRUE
  /\ GroupOver
  /\ UNCHANGED <<diskVars, life, queueVars, appendVars, timerVars, wake, force, liveOnly, sleepFor, kind,
                 chunk, outcome, reading, excused, turned, unsaved, stuck, faults, starts>>

(* The server refused something in the group: one entry at a time, then. *)
PostRefused ==
  /\ tpc = "post" /\ lock = Nobody
  /\ Configured
  /\ Goto("single") /\ single' = Min(Group)
  /\ outcome' = "refused"
  /\ UNCHANGED <<diskVars, life, queueVars, appendVars, timerVars, wake, force, liveOnly, sleepFor, kind,
                 chunk, tried, done, accepted, historyVars, faults, starts>>

(* No answer, or one that says nothing about the points - which may have     *)
(* been taken all the same.                                                  *)
PostUnanswered ==
  /\ tpc \in {"post", "single"} /\ lock = Nobody
  /\ Configured
  /\ db' \in {db, db \cup PointsAt(IF single = 0 THEN Group ELSE {single})}
  /\ outcome' = "failed" /\ single' = 0
  /\ Goto("save")
  /\ UNCHANGED <<diskVars, life, queueVars, appendVars, timerVars, wake, force, liveOnly, sleepFor, kind,
                 chunk, tried, done, accepted, reading, excused, turned, unsaved, stuck, faults, starts>>

(* The source has no database configured any more. *)
DropUnconfigured ==
  /\ tpc = "post" /\ lock = Nobody
  /\ ~Configured
  /\ excused' = excused \cup PointsAt(Group)
  /\ done' = done \cup Group
  /\ GroupOver
  /\ UNCHANGED <<diskVars, life, queueVars, appendVars, timerVars, wake, force, liveOnly, sleepFor, kind,
                 chunk, accepted, outcome, reading, db, turned, unsaved, stuck, faults, starts>>

NextSingle ==
  /\ done' = done \cup {single}
  /\ IF \E j \in Group : j > single
     THEN /\ single' = Min({j \in Group : j > single})
          /\ UNCHANGED <<tpc, tried>>
     ELSE GroupOver

SingleAccepted ==
  /\ tpc = "single"
  /\ db' = db \cup PointsAt({single})
  /\ accepted' = TRUE
  /\ NextSingle
  /\ UNCHANGED <<diskVars, life, queueVars, appendVars, timerVars, wake, force, liveOnly, sleepFor, kind,
                 chunk, outcome, reading, excused, turned, unsaved, stuck, faults, starts>>

GivesUpOn(rejections) == rejections >= MaxRejections

(* _refused: the point waits for its next attempt, or has had its last. *)
SingleRefused ==
  LET e == chunk[single].e IN
  /\ tpc = "single" /\ lock = Nobody
  /\ IF kind = "live" THEN UNCHANGED <<waiting, dirty, excused>>
     ELSE IF GivesUpOn(e.r + 1)
     THEN excused' = excused \cup {e.p} /\ UNCHANGED <<waiting, dirty>>
     ELSE /\ waiting' = waiting \cup {[e EXCEPT !.r = @ + 1]}
          /\ dirty' = TRUE
          /\ UNCHANGED excused
  /\ turned' = turned \cup PointsAt({single})
  /\ NextSingle
  /\ UNCHANGED <<diskVars, life, mode, due, memory, gone, live, lastLine, dest, appendVars, timerVars, wake,
                 force, liveOnly, sleepFor, kind, chunk, accepted, outcome, reading, db, unsaved, stuck,
                 faults, starts>>

(* Broken variant: the retry file is left for later. *)
SaveNothing ==
  /\ tpc = "save" /\ lock = Nobody
  /\ Goto("consume")
  /\ UNCHANGED <<diskVars, life, queueVars, appendVars, timerVars, wake, force, liveOnly, sleepFor, chunkVars,
                 historyVars, faults, starts>>

(* The refused points are on disk before the spool moves past them. *)
SaveRefused ==
  /\ tpc = "save" /\ lock = Nobody
  /\ WriteRetryFile(mode, waiting, dirty)
  /\ Goto("consume")
  /\ UNCHANGED <<spool, stored, life, mode, waiting, due, memory, gone, live, lastLine, dest, appendVars,
                 timerVars, wake, force, liveOnly, sleepFor, chunkVars, reading, db, excused, turned,
                 stuck, starts>>

-----------------------------------------------------------------------------
(* The thread: _consume, and what the outcome does to the retry timer *)

HandledPrefix(d) == Max({k \in 0..Cardinality(d) : 1..k \subseteq d})

(* The entries to consume: those at the chunk's start that were dealt with.  *)
(* A live chunk is dropped whole where nothing answered.                     *)
Consumed ==
  IF kind = "live" /\ outcome = "failed" THEN Len(chunk) ELSE HandledPrefix(done)

(* A queue without its first n entries. *)
DropFirst(q, n) == SubSeq(q, n + 1, Len(q))

(* The queues are consumed by identity, as some entries may have been pushed *)
(* out or moved to the spool while they were posted.  Of a memory chunk,     *)
(* those still queued come first in the queue; of heartbeats, the leading    *)
(* ones that are being consumed.                                             *)
RemovedByCount == Consumed
Removed == IF Consumed > gone THEN Consumed - gone ELSE 0

Lead(q, es) == Max({k \in 0..Len(q) : \A i \in 1..k : q[i] \in es})
After(q, es) == DropFirst(q, Lead(q, es))
ProgressByRemoval(q, es) == Lead(q, es) > 0
Progress(q, es) == Lead(q, es) > 0 \/ \E e \in es : \A i \in DOMAIN q : q[i] # e

ConsumedEntries == {chunk[i].e : i \in 1..Consumed}

(* Where the pointer goes, and what that leaves of the spool. *)
SpoolAfter(end) ==
  IF end[1] \notin spool.segs THEN spool
  ELSE IF end[2] >= spool.size[end[1]] /\ end[1] # spool.cur THEN Retired(spool, end[1])
  ELSE [spool EXCEPT !.ptr = end]

(* How the chunk ended, given whether anything was removed. *)
Verdict(removed) ==
  CASE Consumed > 0 /\ ~removed -> "stuck"
    [] outcome = "failed" -> "failed"
    [] outcome = "refused" /\ ~accepted /\ kind # "live" -> "refused_all"
    [] OTHER -> "sent"

(* _note_failure or _note_success, and whether the pass goes on. *)
PassGoesOn(removed) ==
  LET verdict == Verdict(removed) IN
  /\ stuck' = (stuck \/ verdict = "stuck")
  /\ IF verdict = "sent"
     THEN /\ Goto("read") /\ UNCHANGED liveOnly
          /\ IF liveOnly THEN UNCHANGED timerVars ELSE timer' = FALSE /\ refusing' = FALSE
     ELSE /\ Goto("check") /\ liveOnly' = FALSE
          /\ timer' = TRUE /\ refusing' = (verdict = "refused_all")
  /\ EmptyChunk

ConsumeLive ==
  LET es == {e.live : e \in ConsumedEntries} IN
  /\ tpc = "consume" /\ lock = Nobody /\ kind = "live"
  /\ live' = After(live, es)
  /\ PassGoesOn(Progress(live, es))
  /\ UNCHANGED <<diskVars, life, mode, waiting, due, dirty, memory, gone, lastLine, dest, appendVars, wake, force,
                 sleepFor, reading, db, excused, turned, unsaved, faults, starts>>

ConsumeMemory ==
  LET w == chunk[1].e.p[1] IN
  /\ tpc = "consume" /\ lock = Nobody /\ kind = "memory"
  /\ memory' = [memory EXCEPT ![w] = DropFirst(@, Removed)]
  /\ gone' = 0
  /\ PassGoesOn(Removed > 0 \/ gone > 0)
  /\ UNCHANGED <<diskVars, life, mode, waiting, due, dirty, live, lastLine, dest, appendVars, wake, force,
                 sleepFor, reading, db, excused, turned, unsaved, faults, starts>>

ConsumeSpool ==
  /\ tpc = "consume" /\ lock = Nobody /\ kind = "spool"
  /\ IF Consumed = 0
     THEN UNCHANGED <<spool, stored, faults>> /\ PassGoesOn(FALSE)
     ELSE LET end == chunk[Consumed].end IN
          /\ spool' = SpoolAfter(end)
          /\ IF end[1] \in spool.segs
             THEN WritePointer(spool'.ptr) /\ PassGoesOn(spool'.ptr # spool.ptr)
             ELSE UNCHANGED <<stored, faults>> /\ PassGoesOn(TRUE)
  /\ UNCHANGED <<retry, life, queueVars, appendVars, wake, force, sleepFor, reading, db, excused,
                 turned, unsaved, starts>>

-----------------------------------------------------------------------------
(* The thread: waiting for more, or for a timer *)

(* Broken variant: what memory holds is not looked at. *)
PendingOnDisk ==
  /\ mode = "disk"
  /\ \/ \E g \in LaterSegs(spool) : spool.size[g] > 0
     \/ PtrInSpool(spool) /\ spool.size[PtrSeg(spool)] > spool.ptr[2]

(* pending(): as the code reads it, by recorded sizes. *)
Pending ==
  \/ ~MemoryEmpty
  \/ /\ mode = "disk"
     /\ \/ \E g \in LaterSegs(spool) : spool.size[g] > 0
        \/ PtrInSpool(spool) /\ spool.size[PtrSeg(spool)] > spool.ptr[2]

(* What bounds the wait; the broken variant forgets the refused points.      *)
TimeoutsWithoutDue == IF Pending \/ live # <<>> THEN {"timer"} ELSE {}
Timeouts ==
  (IF Pending \/ live # <<>> THEN {"timer"} ELSE {}) \cup (IF waiting # {} THEN {"due"} ELSE {})

ThreadCheck ==
  /\ tpc = "check" /\ lock = Nobody
  /\ IF force THEN Goto("gone") /\ sleepFor' = {} ELSE Goto("wait") /\ sleepFor' = Timeouts
  /\ UNCHANGED <<diskVars, life, queueVars, appendVars, timerVars, wake, force, liveOnly, chunkVars,
                 historyVars, faults, starts>>

ThreadWakes ==
  /\ tpc = "wait"
  /\ \/ wake
     \/ "timer" \in sleepFor /\ ~timer
     \/ "due" \in sleepFor /\ due # {}
  /\ Goto("clear")
  /\ UNCHANGED <<diskVars, life, queueVars, appendVars, timerVars, wake, force, liveOnly, sleepFor, chunkVars,
                 historyVars, faults, starts>>

ThreadClears ==
  /\ tpc = "clear"
  /\ wake' = FALSE
  /\ Goto("top") /\ sleepFor' = {}
  /\ UNCHANGED <<diskVars, life, queueVars, appendVars, timerVars, force, liveOnly, chunkVars, historyVars,
                 faults, starts>>

-----------------------------------------------------------------------------
(* Time *)

TimerRunsOut ==
  /\ Up /\ timer
  /\ timer' = FALSE
  /\ UNCHANGED <<diskVars, life, queueVars, appendVars, refusing, wake, threadVars, historyVars, faults, starts>>

FallsDue(e) ==
  /\ Up /\ e \in waiting \ due /\ lock # Thread
  /\ due' = due \cup {e}
  /\ UNCHANGED <<diskVars, life, mode, waiting, dirty, memory, gone, live, lastLine, dest, appendVars, timerVars,
                 wake, threadVars, historyVars, faults, starts>>

-----------------------------------------------------------------------------
(* The process: starting, closing, ending *)

NoThread ==
  /\ tpc' = "none" /\ force' = FALSE /\ liveOnly' = FALSE /\ sleepFor' = {}
  /\ EmptyChunk

(* The points of the queues, of the retry list, and of the append under way. *)
InMemory == UNION {PointsIn(memory[w]) : w \in Workers}
Waiting  == {e.p : e \in waiting}
Adding   == IF adding = NoEntry THEN {} ELSE {adding.p}

(* What ends with the process in any case: points in memory, the one being   *)
(* submitted, and refused points not on disk because the disk was away.      *)
Volatile == InMemory \cup Adding \cup (IF mode # "disk" \/ unsaved THEN Waiting ELSE {})

(* What a kill can leave of the spool: the state between two steps, part of  *)
(* the line being written, or a segment just deleted with the stored pointer *)
(* still naming it.                                                          *)
TornLine(s) ==
  IF adding # NoEntry /\ mode # "memory" /\ s.open
  THEN {[s EXCEPT !.files[s.cur] = AppendLine(@, Torn), !.open = FALSE]}
  ELSE {}

CutShort(s) ==
  {s} \cup TornLine(s)
  \cup (IF AtSpool /\ Finished(s) THEN {Retired(s, PtrSeg(s))} ELSE {})
  \cup (IF tpc = "consume" /\ kind = "spool" /\ Consumed > 0
        THEN {SpoolAfter(chunk[Consumed].end)} ELSE {})

ProcessEnds ==
  /\ life' = "down"
  /\ \E s \in CutShort(spool) : spool' = [AbandonSpool(s) EXCEPT !.stale = 0]
  /\ excused' = excused \cup Volatile
  /\ mode' = "memory" /\ waiting' = {} /\ due' = {} /\ dirty' = FALSE
  /\ memory' = [w \in Workers |-> <<>>] /\ gone' = 0 /\ live' = <<>>
  /\ lastLine' = [w \in Workers |-> 0] /\ dest' = {}
  /\ timer' = FALSE /\ refusing' = FALSE
  /\ lock' = Nobody /\ adding' = NoEntry /\ rousing' = {} /\ wake' = FALSE
  /\ NoThread
  /\ unsaved' = FALSE
  /\ UNCHANGED <<stored, retry, reading, db, turned, stuck, faults, starts>>

(* A kill, at any point. *)
Kill == "kill" \in Endings /\ Up /\ starts < MaxStarts /\ ProcessEnds

(* close(): closing, and the thread woken for its last pass. *)
Close ==
  /\ "close" \in Endings /\ starts < MaxStarts
  /\ life = "running" /\ lock = Nobody
  /\ life' = "closing"
  /\ wake' = TRUE
  /\ UNCHANGED <<diskVars, queueVars, appendVars, timerVars, threadVars, historyVars, faults, starts>>

(* The thread has finished, or the time it was given has passed. *)
CloseEnds ==
  /\ life = "closing" /\ lock = Nobody
  /\ life' = "stopped"
  /\ spool' = [spool EXCEPT !.open = FALSE]
  /\ mode' = "memory"
  /\ UNCHANGED <<stored, retry, waiting, due, dirty, memory, gone, live, lastLine, dest, appendVars, timerVars,
                 wake, threadVars, historyVars, faults, starts>>

Exit == life = "stopped" /\ ProcessEnds

(* configure() and _open_spool. *)
OpensSpool ==
  LET s == Loaded(spool, stored) IN
  /\ DiskBuffer /\ CanStart(s)
  /\ \/ spool' = Started(s) /\ mode' = "disk" /\ waiting' = retry /\ UNCHANGED faults
     \/ spool' = AbandonSpool(s) /\ mode' = "memory" /\ waiting' = retry /\ Fault

(* influx.buffer_mb is 0, or another process holds the spool's lock. *)
OpensNoSpool ==
  /\ IF DiskBuffer THEN Fault ELSE UNCHANGED faults
  /\ mode' = "memory" /\ waiting' = {}
  /\ UNCHANGED spool

Start ==
  /\ life = "down" /\ starts < MaxStarts
  /\ starts' = starts + 1
  /\ life' = "running"
  /\ OpensSpool \/ OpensNoSpool
  /\ dest' \in Settings
  /\ UNCHANGED <<stored, retry, due, dirty, memory, gone, live, lastLine, appendVars, timerVars, wake, threadVars,
                 historyVars>>

-----------------------------------------------------------------------------
Init ==
  /\ spool = EmptySpool /\ stored = NoPtr /\ retry = {}
  /\ life = "down" /\ mode = "memory"
  /\ waiting = {} /\ due = {} /\ dirty = FALSE
  /\ memory = [w \in Workers |-> <<>>] /\ gone = 0 /\ live = <<>>
  /\ lastLine = [w \in Workers |-> 0] /\ dest = {}
  /\ timer = FALSE /\ refusing = FALSE
  /\ lock = Nobody /\ adding = NoEntry /\ rousing = {} /\ wake = FALSE
  /\ tpc = "none" /\ force = FALSE /\ liveOnly = FALSE /\ sleepFor = {}
  /\ kind = "none" /\ chunk = <<>> /\ tried = {} /\ single = 0
  /\ done = {} /\ accepted = FALSE /\ outcome = "sent"
  /\ reading = [w \in Workers |-> 0] /\ db = {} /\ excused = {} /\ turned = {}
  /\ unsaved = FALSE /\ stuck = FALSE
  /\ faults = 0 /\ starts = 0

AppendStep == (\E w \in Workers : MoveToSpool(w)) \/ WriteToSpool \/ AppendFails \/ AppendToMemory

ReleaseStep == ThreadDue \/ (\E e \in due : Release(e)) \/ ReleaseOver
ReadStep ==
  \/ ReadLive \/ ReadSpool \/ RetireSegment \/ SetAsideSegment \/ ReadMemory
PostStep ==
  \/ PostAccepted \/ PostRefused \/ PostUnanswered \/ DropUnconfigured
  \/ SingleAccepted \/ SingleRefused
ConsumeStep == SaveRefused \/ ConsumeLive \/ ConsumeMemory \/ ConsumeSpool
WaitStep == ThreadCheck \/ ThreadWakes \/ ThreadClears

ThreadStep == ThreadTop \/ ReleaseStep \/ ThreadTimer \/ ReadStep \/ PostStep \/ ConsumeStep \/ WaitStep

CallerStep ==
  \E w \in Workers :
    \/ \E n \in 1..MaxPoints : Submit(w, n)
    \/ SubmitAgain(w)
    \/ \E h \in HeartbeatIds : SubmitLive(w, h)
    \/ Rouse(w)

Next ==
  \/ AppendStep \/ ThreadStep \/ CallerStep
  \/ TimerRunsOut \/ (\E e \in waiting : FallsDue(e))
  \/ Start \/ Close \/ CloseEnds \/ Exit \/ Kill

Safety == Init /\ [][Next]_vars

(* The scheduler runs every thread that can go on, and time passes; every    *)
(* collector goes on submitting readings; systemd starts the service again;  *)
(* and a point posted over and over is over and over accepted, InfluxDB      *)
(* being back for long enough.                                               *)
Fairness ==
  /\ WF_vars(AppendStep) /\ WF_vars(ThreadStep) /\ WF_vars(TimerRunsOut)
  /\ \A w \in Workers : WF_vars(Rouse(w)) /\ WF_vars(\E n \in 1..MaxPoints : Submit(w, n))
  /\ WF_vars(\E e \in waiting : FallsDue(e))
  /\ WF_vars(CloseEnds) /\ WF_vars(Exit) /\ WF_vars(Start)
  /\ \A p \in Points : SF_vars(PostAccepted /\ p \in PointsAt(Group))

Spec == Safety /\ Fairness

-----------------------------------------------------------------------------
(* Properties *)

ChunkEntries ==
  [e : Entries \cup {Heartbeat(h) : h \in HeartbeatIds}, end : Pointers]

DiskTypeOK ==
  spool \in SpoolType /\ stored \in Pointers /\ retry \subseteq Entries

QueueTypeOK ==
  /\ life \in {"down", "running", "closing", "stopped"}
  /\ mode \in {"disk", "failed", "memory"}
  /\ waiting \subseteq Entries /\ due \subseteq waiting /\ dirty \in BOOLEAN
  /\ memory \in [Workers -> Seq(Entries)] /\ gone \in Nat /\ live \in Seq(HeartbeatIds)
  /\ lastLine \in [Workers -> 0..MaxPoints] /\ dest \subseteq Sources
  /\ timer \in BOOLEAN /\ refusing \in BOOLEAN
  /\ lock \in Workers \cup {Thread, Nobody} /\ adding \in Entries \cup {NoEntry}
  /\ rousing \subseteq Workers /\ wake \in BOOLEAN

ThreadTypeOK ==
  /\ tpc \in Pcs /\ force \in BOOLEAN /\ liveOnly \in BOOLEAN /\ sleepFor \subseteq {"timer", "due"}
  /\ kind \in {"none", "live", "spool", "memory"} /\ chunk \in Seq(ChunkEntries)
  /\ tried \subseteq DOMAIN chunk /\ single \in {0} \cup DOMAIN chunk /\ done \subseteq DOMAIN chunk
  /\ accepted \in BOOLEAN /\ outcome \in {"sent", "refused", "failed"}

HistoryTypeOK ==
  /\ reading \in [Workers -> 0..MaxPoints]
  /\ db \subseteq Points /\ excused \subseteq Points /\ turned \subseteq Points
  /\ unsaved \in BOOLEAN /\ stuck \in BOOLEAN
  /\ faults \in 0..MaxFaults /\ starts \in 0..MaxStarts

MemoryBounded == \A w \in Workers : Len(memory[w]) <= MemoryPoints
LiveBounded   == Len(live) <= LivePoints

(* Every variable keeps its type: the spool directory, the queues, the       *)
(* thread and the history; and the queues that an outage fills (_append,     *)
(* submit) stay within their bounds.                                         *)
TypeOK ==
  DiskTypeOK /\ QueueTypeOK /\ ThreadTypeOK /\ HistoryTypeOK /\ MemoryBounded /\ LiveBounded

Submitted == {p \in Points : p[2] <= reading[p[1]]}
OnDisk == Recoverable(spool, stored) \cup {e.p : e \in retry}

(* A running writer forgets no point: whatever send_data() handed over is in *)
(* InfluxDB, given up for a reason the log names, or still where this        *)
(* process will find it - through segments dropped or set aside while their  *)
(* points are out, disks that fail and come back, and partly refused chunks. *)
NothingForgotten ==
  Up => Submitted \subseteq
          db \cup excused \cup Ahead(spool) \cup InMemory \cup Waiting \cup Adding
          \cup (IF mode = "memory" /\ spool.segs = {} THEN OnDisk ELSE {})

(* A kill at any moment loses nothing the spool had: what is not in InfluxDB *)
(* or given up can be found again from the directory alone, from whatever    *)
(* pointer and retry file happen to be there.                                *)
SurvivesKill == Submitted \subseteq db \cup excused \cup OnDisk \cup Volatile

(* While there are segments the pointer is in one, whichever of them is      *)
(* dropped, retired, set aside or gone at a start: the search of _read_spool *)
(* for a later segment is never needed, and no point is left behind it.      *)
PointerInSpool == spool.segs # {} => PtrInSpool(spool)

(* The pass that "dealt with points and could not remove them" - the bug the *)
(* code guards its loop against - does not happen.                           *)
NeverStuck == ~stuck

(* The thread never sleeps over work: asleep with no timeout, nothing about  *)
(* to wake it and nobody appending, it owes nothing - every point is stored, *)
(* given up, waiting for its own retry (which has a timeout of its own), or  *)
(* on a disk this process has no spool on.                                   *)
NoLostWakeup ==
  (tpc = "wait" /\ ~wake /\ rousing = {} /\ lock = Nobody) =>
    /\ ("timer" \notin sleepFor) =>
         /\ live = <<>>
         /\ Submitted \subseteq
              db \cup excused \cup Waiting \cup (IF mode = "memory" THEN OnDisk ELSE {})
    /\ ("due" \notin sleepFor) => waiting = {}

(* What a failed chunk of heartbeats leaves of a full queue: the rest of it. *)
HeldAtMost == IF LivePoints > ChunkPoints THEN LivePoints - ChunkPoints ELSE 0

(* An outage piles up no heartbeats: while the thread waits for the timer    *)
(* the queue holds no more of them than the failed chunk left of it, and     *)
(* those that come later are dropped.                                        *)
NoHeartbeatHeld ==
  (tpc = "wait" /\ timer /\ ~refusing /\ ~wake /\ rousing = {}) => Len(live) <= HeldAtMost

(* While the spool takes points, memory holds none: no worker's later        *)
(* reading reaches the spool ahead of an earlier one still in memory.        *)
MemoryEmptyOnDisk == (mode = "disk" /\ adding = NoEntry) => MemoryEmpty

(* Each worker's readings reach InfluxDB in order, but for those it has      *)
(* refused before and those given up: when one is first stored by a process  *)
(* that has its spool, every earlier one has been stored.                    *)
InOrder ==
  [][spool.segs # {} =>
       \A p \in db' \ db : \A q \in Submitted :
         (q[1] = p[1] /\ q[2] < p[2]) => q \in db' \cup excused \cup turned]_vars

(* Every reading is stored or given up in the end, if InfluxDB comes back    *)
(* for long enough, however often the writer was killed or closed.           *)
Settles == \A p \in Points : (p \in Submitted) ~> (p \in db \cup excused)

(* What the module's own docstring promises of a refused point: it is on     *)
(* disk before the spool moves past it, so a kill loses nothing - the disk   *)
(* never having failed.                                                      *)
RefusedOnDisk ==
  (faults = 0 /\ spool.segs # {}) => Waiting \subseteq db \cup OnDisk
=============================================================================
