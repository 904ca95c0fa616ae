---------------------------- MODULE Writer_proofs ---------------------------
(***************************************************************************)
(* Theorems about module Writer, for any workers, points, disk faults and  *)
(* restarts.                                                               *)
(*                                                                         *)
(* TypeOK is not inductive: what a chunk holds is only known to be entries *)
(* because no file of the spool is cut off anywhere but at its end, and a  *)
(* segment is only known to be new because every file on disk is one the   *)
(* process counts.  IInv adds those facts.                                 *)
(*                                                                         *)
(* That no point is lost is a second layer, LossInv, proved from the first:*)
(* where the pointer and the stored pointer stand, that the chunk being    *)
(* posted is what stands behind the pointer, that what it has dealt with   *)
(* is accounted for, that the retry file holds what waits when the spool   *)
(* moves past it, and then that every point is held somewhere.             *)
(*                                                                         *)
(* That a worker's readings arrive in order is a third, OrderInv, which    *)
(* says of every place a point can be that the earlier ones are settled or *)
(* come first from there.  HeartInv and LiveApart, about the heartbeats,   *)
(* and FailedInv and SleepInv, about the wait, need the second layer only. *)
(***************************************************************************)
EXTENDS Writer, Spool_proofs

SpoolInv ==
  /\ WellFormed(spool)
  /\ spool.onDisk \subseteq spool.segs \/ (mode = "memory" /\ spool.segs = {})

AppendInv ==
  /\ adding # NoEntry => lock # Nobody
  /\ tpc = "release" => lock = Thread
  /\ lock = Thread => tpc = "release" \/ (tpc = "read" /\ adding = NoEntry)
  /\ life = "down" => tpc = "none" /\ adding = NoEntry /\ rousing = {} /\ due = {}

ChunkInv ==
  /\ kind # "live" => \A i \in DOMAIN chunk : chunk[i].e \in Entries
  /\ tpc \in {"post", "single"} => DOMAIN chunk \ tried # {}
  /\ tpc = "single" => single \in DOMAIN chunk

MemoryInv == (mode = "disk" \/ life = "down") => MemoryEmpty

DiskInv   == DiskTypeOK /\ SpoolInv
QueueInv  == QueueTypeOK /\ AppendInv /\ MemoryInv
ThreadInv == ThreadTypeOK /\ ChunkInv
IInv      == DiskInv /\ QueueInv /\ ThreadInv /\ HistoryTypeOK

-----------------------------------------------------------------------------
(* What is consumed *)

(* A queue without its first entries, as many as there are at most.          *)
LEMMA DropFirstFacts ==
  ASSUME NEW S, NEW q \in Seq(S), NEW n \in Nat
  PROVE  /\ DropFirst(q, n) \in Seq(S)
         /\ n <= Len(q) => /\ Len(DropFirst(q, n)) = Len(q) - n
                           /\ \A j \in 1..Len(q) - n : DropFirst(q, n)[j] = q[n + j]
<1>1. Len(q) \in Nat /\ \A i \in n + 1..Len(q) : q[i] \in S
  OBVIOUS
<1>2. PICK r : r = SubSeq(q, n + 1, Len(q))
  OBVIOUS
<1>3. /\ Len(r) = IF n + 1 <= Len(q) THEN Len(q) - (n + 1) + 1 ELSE 0
      /\ \A j \in 1..Len(q) - (n + 1) + 1 : r[j] = q[(n + 1) + j - 1]
      /\ r \in Seq(S)
  BY <1>1, <1>2, SubSeqProperties
<1>4. ASSUME n <= Len(q) PROVE Len(r) = Len(q) - n
  BY <1>1, <1>3, <1>4
<1>5. ASSUME n <= Len(q), NEW j \in 1..Len(q) - n PROVE r[j] = q[n + j]
  <2>1. j \in 1..Len(q) - (n + 1) + 1 /\ (n + 1) + j - 1 = n + j
    BY <1>1, <1>5
  <2> QED
    BY <1>3, <2>1
<1>6. DropFirst(q, n) = r
  BY <1>2 DEF DropFirst
<1> QED
  BY <1>3, <1>4, <1>5, <1>6

(* It is no longer than the queue.                                           *)
LEMMA DropFirstShortens ==
  ASSUME NEW S, NEW q \in Seq(S), NEW n \in Nat
  PROVE  Len(DropFirst(q, n)) <= Len(q)
<1>1. Len(q) \in Nat /\ \A i \in n + 1..Len(q) : q[i] \in S
  OBVIOUS
<1>2. Len(SubSeq(q, n + 1, Len(q))) = IF n + 1 <= Len(q) THEN Len(q) - (n + 1) + 1 ELSE 0
  BY <1>1, SubSeqProperties
<1> QED
  BY <1>1, <1>2 DEF DropFirst

(* The leading entries consumed are a prefix of the queue, the longest one.  *)
LEMMA LeadFacts ==
  ASSUME NEW S, NEW q \in Seq(S), NEW es
  PROVE  /\ Lead(q, es) \in Nat /\ Lead(q, es) <= Len(q)
         /\ \A i \in 1..Lead(q, es) : q[i] \in es
         /\ \A n \in 0..Len(q) : (\A i \in 1..n : q[i] \in es) => n <= Lead(q, es)
<1> DEFINE K == {k \in 0..Len(q) : \A i \in 1..k : q[i] \in es}
<1>1. Len(q) \in Nat /\ 0 \in K /\ K \in SUBSET Nat /\ \A k \in K : k <= Len(q)
  OBVIOUS
<1>2. PICK m : m = Max(K)
  OBVIOUS
<1>3. m \in K /\ \A k \in K : k <= m
  <2> HIDE DEF K
  <2> QED
    BY <1>1, <1>2, MaxIsGreatest
<1>4. m \in Nat /\ m <= Len(q) /\ \A i \in 1..m : q[i] \in es
  BY <1>3
<1>5. \A n \in 0..Len(q) : (\A i \in 1..n : q[i] \in es) => n <= m
  BY <1>3
<1>6. Lead(q, es) = m
  BY <1>2 DEF Lead
<1> QED
  BY <1>4, <1>5, <1>6

(* What is left of the queue then.                                           *)
LEMMA AfterType ==
  ASSUME NEW S, NEW q \in Seq(S), NEW es
  PROVE  After(q, es) \in Seq(S)
BY LeadFacts, DropFirstFacts DEF After

(* What is dealt with of a chunk is counted.                                 *)
LEMMA HandledIsNat ==
  ASSUME ThreadTypeOK
  PROVE  HandledPrefix(done) \in Nat /\ HandledPrefix(done) <= Len(chunk)
<1>1. done \in SUBSET (1..Len(chunk)) /\ Len(chunk) \in Nat
  BY DEF ThreadTypeOK
<1>2. Cardinality(done) \in Nat
  <2>1. IsFiniteSet(1..Len(chunk))
    BY <1>1, FS_Interval
  <2>2. IsFiniteSet(done)
    BY <1>1, <2>1, FS_Subset
  <2> QED
    BY <2>2, FS_CardinalityType
<1> DEFINE K == {k \in 0..Cardinality(done) : 1..k \subseteq done}
<1>3. 0 \in K /\ K \in SUBSET Nat /\ \A k \in K : k <= Cardinality(done)
  BY <1>2
<1>4. PICK m : m = Max(K)
  OBVIOUS
<1>5. m \in K
  <2> HIDE DEF K
  <2> QED
    BY <1>2, <1>3, <1>4, MaxIsGreatest
<1>6. HandledPrefix(done) = m
  BY <1>4 DEF HandledPrefix
<1>7. m \in Nat /\ 1..m \subseteq done
  BY <1>2, <1>5
<1>8. m = 0 \/ m \in 1..m
  BY <1>7
<1> QED
  BY <1>1, <1>6, <1>7, <1>8

(* So is what leaves its queue of it.                                        *)
LEMMA RemovedIsNat ==
  ASSUME ThreadTypeOK, QueueTypeOK, kind # "live"
  PROVE  Removed \in Nat /\ Consumed \in Nat /\ Consumed <= Len(chunk)
<1>1. Consumed \in Nat /\ Consumed <= Len(chunk) /\ gone \in Nat
  BY HandledIsNat DEF Consumed, QueueTypeOK
<1> QED
  BY <1>1 DEF Removed

(* What is consumed of a chunk ends at an entry of it, all of it dealt with. *)
LEMMA ConsumedInChunk ==
  ASSUME ThreadTypeOK, kind # "live", Consumed # 0
  PROVE  Consumed \in DOMAIN chunk /\ Consumed \in Nat /\ 1..Consumed \subseteq done
<1>1. done \in SUBSET (1..Len(chunk)) /\ Len(chunk) \in Nat /\ DOMAIN chunk = 1..Len(chunk)
  BY DEF ThreadTypeOK
<1>2. Cardinality(done) \in Nat
  <2>1. IsFiniteSet(1..Len(chunk))
    BY <1>1, FS_Interval
  <2>2. IsFiniteSet(done)
    BY <1>1, <2>1, FS_Subset
  <2> QED
    BY <2>2, FS_CardinalityType
<1> DEFINE K == {k \in 0..Cardinality(done) : 1..k \subseteq done}
<1>3. 0 \in K /\ K \in SUBSET Nat /\ \A k \in K : k <= Cardinality(done)
  BY <1>2
<1>4. PICK m : m = Max(K)
  OBVIOUS
<1>5. m \in K
  <2> HIDE DEF K
  <2> QED
    BY <1>2, <1>3, <1>4, MaxIsGreatest
<1>6. Consumed = m
  BY <1>4 DEF Consumed, HandledPrefix
<1>7. m \in Nat /\ m > 0 /\ 1..m \subseteq done
  BY <1>2, <1>5, <1>6
<1>8. m \in 1..m
  BY <1>7
<1> QED
  BY <1>1, <1>6, <1>7, <1>8

(* Where the pointer goes for it is a good spool again. *)
LEMMA SpoolAfterGood ==
  ASSUME GoodSpool(spool), NEW end \in Pointers
  PROVE  /\ GoodSpool(SpoolAfter(end))
         /\ SpoolAfter(end).ptr \in Pointers
         /\ \/ SpoolAfter(end) = spool
            \/ spool.onDisk \subseteq spool.segs => SpoolAfter(end).onDisk \subseteq SpoolAfter(end).segs
<1>1. CASE end[1] \notin spool.segs
  BY <1>1 DEF SpoolAfter, GoodSpool, SpoolType
<1>2. CASE end[1] \in spool.segs /\ end[2] >= spool.size[end[1]] /\ end[1] # spool.cur
  <2>1. end[1] \in SegIds
    BY <1>2 DEF GoodSpool, SpoolType
  <2>2. SpoolAfter(end) = Retired(spool, end[1])
    BY <1>2 DEF SpoolAfter
  <2> QED
    BY <1>2, <2>1, <2>2, RetiredGood
<1>3. CASE end[1] \in spool.segs /\ ~(end[2] >= spool.size[end[1]] /\ end[1] # spool.cur)
  <2>1. SpoolAfter(end) = [spool EXCEPT !.ptr = end]
    BY <1>3 DEF SpoolAfter
  <2>2. [spool EXCEPT !.ptr = end].ptr = end
    BY DEF GoodSpool, SpoolType
  <2> QED
    BY <2>1, <2>2, MovedGood
<1> QED
  BY <1>1, <1>2, <1>3

-----------------------------------------------------------------------------
(* The disk *)

(* The pointer's file holds the former pointer or the new one.               *)
LEMMA PointerStored ==
  ASSUME stored \in Pointers, NEW p \in Pointers, WritePointer(p)
  PROVE  stored' \in Pointers
BY DEF WritePointer

(* The retry file holds entries, whether the write succeeds or not.          *)
LEMMA RetryFileWritten ==
  ASSUME retry \subseteq Entries, NEW w \in SUBSET Entries, NEW m, NEW d, WriteRetryFile(m, w, d)
  PROVE  retry' \subseteq Entries
BY DEF WriteRetryFile

(* What a kill leaves is a good spool: the writer's own, with a line cut off *)
(* at its end, or with the pointer moved on.                                 *)
LEMMA CutShortGood ==
  ASSUME DiskInv, QueueInv, ThreadInv, NEW s \in CutShort(spool)
  PROVE  GoodSpool(s)
<1>1. GoodSpool(spool)
  BY DEF DiskInv, DiskTypeOK, SpoolInv, GoodSpool
<1>2. CASE s = spool
  BY <1>1, <1>2
<1>3. CASE spool.open /\ s = [spool EXCEPT !.files[spool.cur] = AppendLine(@, Torn), !.open = FALSE]
  <2>1. PICK old : old = spool.files[spool.cur]
    OBVIOUS
  <2>2. PICK file : file = AppendLine(old, Torn)
    OBVIOUS
  <2>3. /\ spool \in SpoolType /\ spool.cur \in SegIds
        /\ old \in Seq(Lines) /\ \A i \in DOMAIN old : old[i] # Torn
    BY <1>1, <1>3, <2>1 DEF GoodSpool, WellFormed, SpoolType
  <2>4. Torn \in Lines /\ \A i \in 1..Len(old) - 1 : old[i] # Torn
    BY <2>3 DEF Lines
  <2>5. file \in Seq(Lines) /\ \A i \in 1..Len(file) - 1 : file[i] # Torn
    BY <2>2, <2>3, <2>4, AppendLineProperties
  <2>6. PICK fs : fs = [spool.files EXCEPT ![spool.cur] = file]
    OBVIOUS
  <2>7. fs \in [SegIds -> Seq(Lines)]
    BY <2>3, <2>5, <2>6 DEF SpoolType
  <2>8. s = [spool EXCEPT !.files = fs, !.open = FALSE]
    BY <1>3, <2>1, <2>2, <2>6
  <2>9. /\ s \in SpoolType /\ s.onDisk = spool.onDisk /\ s.segs = spool.segs /\ s.cur = spool.cur
        /\ s.files = [spool.files EXCEPT ![spool.cur] = file] /\ ~s.open
    BY <2>3, <2>6, <2>7, <2>8 DEF SpoolType
  <2> QED
    BY <1>1, <1>3, <2>5, <2>9, FileChangedGood
<1>4. CASE Finished(spool) /\ s = Retired(spool, PtrSeg(spool))
  <2>1. PtrSeg(spool) \in SegIds /\ PtrSeg(spool) # spool.cur
    BY <1>1, <1>4 DEF Finished, PtrInSpool, PtrSeg, GoodSpool, SpoolType
  <2> QED
    BY <1>1, <1>4, <2>1, RetiredGood
<1>5. CASE kind = "spool" /\ Consumed > 0 /\ s = SpoolAfter(chunk[Consumed].end)
  <2>1. Consumed \in DOMAIN chunk /\ chunk \in Seq(ChunkEntries)
    BY <1>5, ConsumedInChunk DEF ThreadInv, ThreadTypeOK
  <2>2. chunk[Consumed] \in ChunkEntries
    BY <2>1
  <2>3. chunk[Consumed].end \in Pointers
    BY <2>2 DEF ChunkEntries
  <2> QED
    BY <1>1, <1>5, <2>3, SpoolAfterGood
<1> QED
  BY <1>2, <1>3, <1>4, <1>5 DEF CutShort, TornLine

(* A step that touches neither the disk nor the mode keeps DiskInv.          *)
LEMMA DiskFrame ==
  ASSUME DiskInv, UNCHANGED <<spool, stored, retry, mode>>
  PROVE  DiskInv'
BY DEF DiskInv, DiskTypeOK, SpoolInv, WellFormed

(* The same, where only the retry file and its flag are written. *)
LEMMA DiskRetry ==
  ASSUME DiskInv, UNCHANGED <<spool, stored, mode>>, retry' \subseteq Entries
  PROVE  DiskInv'
BY DEF DiskInv, DiskTypeOK, SpoolInv, WellFormed

(* A good spool whose files are all counted, in any mode. *)
LEMMA DiskSpool ==
  ASSUME GoodSpool(spool'), spool'.onDisk \subseteq spool'.segs,
         stored' \in Pointers, retry' \subseteq Entries
  PROVE  DiskInv'
BY DEF DiskInv, DiskTypeOK, SpoolInv, GoodSpool, WellFormed

(* A spool given up, or none. *)
LEMMA DiskAbandoned ==
  ASSUME NEW s, GoodSpool(s), spool' = AbandonSpool(s), mode' = "memory",
         stored' \in Pointers, retry' \subseteq Entries
  PROVE  DiskInv'
<1>1. GoodSpool(spool')
  BY AbandonGood
<1>2. spool'.segs = {}
  BY DEF AbandonSpool, GoodSpool, SpoolType
<1> QED
  BY <1>1, <1>2 DEF DiskInv, DiskTypeOK, SpoolInv, GoodSpool, WellFormed

(* The end of the process keeps DiskInv, whatever it cuts short.             *)
LEMMA ProcessEndsDisk ==
  ASSUME IInv, ProcessEnds
  PROVE  DiskInv'
<1>1. PICK s \in CutShort(spool) : spool' = [AbandonSpool(s) EXCEPT !.stale = 0]
  BY DEF ProcessEnds
<1>2. GoodSpool(AbandonSpool(s)) /\ AbandonSpool(s).segs = {}
  <2>1. GoodSpool(s)
    BY CutShortGood DEF IInv
  <2> QED
    BY <2>1, AbandonGood DEF AbandonSpool, GoodSpool, SpoolType
<1>3. 0 \in 0..MaxSegments + 1
  BY SpoolAssumption
<1>4. PICK t : t = AbandonSpool(s)
  OBVIOUS
<1>5. GoodSpool(spool') /\ spool'.segs = {}
  BY <1>1, <1>2, <1>3, <1>4 DEF GoodSpool, SpoolType, WellFormed
<1>6. stored' \in Pointers /\ retry' \subseteq Entries /\ mode' = "memory"
  BY DEF ProcessEnds, IInv, DiskInv, DiskTypeOK
<1> QED
  BY <1>5, <1>6 DEF DiskInv, DiskTypeOK, SpoolInv, GoodSpool, WellFormed

(* Every step keeps DiskInv.                                                 *)
LEMMA DiskStep ==
  ASSUME IInv, Next
  PROVE  DiskInv'
<1>1. GoodSpool(spool) /\ stored \in Pointers /\ retry \subseteq Entries /\ DiskInv
  BY DEF IInv, DiskInv, DiskTypeOK, SpoolInv, GoodSpool
<1>2. mode # "memory" => spool.onDisk \subseteq spool.segs
  BY DEF IInv, DiskInv, SpoolInv
<1>3. QueueTypeOK
  BY DEF IInv, QueueInv
<1>4. ASSUME NEW w \in Workers, MoveToSpool(w) PROVE DiskInv'
  <2>1. Head(memory[w]) \in Entries
    BY <1>3, <1>4 DEF QueueTypeOK, MoveToSpool
  <2>2. spool' = Wrote(spool, Head(memory[w])) /\ UNCHANGED <<stored, retry>>
    BY <1>4 DEF MoveToSpool
  <2>3. CanStart(spool) /\ mode # "memory"
    BY <1>4 DEF MoveToSpool
  <2> QED
    BY <1>1, <1>2, <2>1, <2>2, <2>3, WroteGood, DiskSpool
<1>5. CASE WriteToSpool
  <2>1. adding \in Entries /\ CanStart(spool) /\ mode # "memory"
    BY <1>3, <1>5 DEF WriteToSpool, QueueTypeOK
  <2>2. spool' = Wrote(spool, adding) /\ UNCHANGED stored
    BY <1>5 DEF WriteToSpool
  <2>3. retry' \subseteq Entries
    BY <1>1, <1>3, <1>5, RetryFileWritten DEF WriteToSpool, QueueTypeOK
  <2> QED
    BY <1>1, <1>2, <2>1, <2>2, <2>3, WroteGood, DiskSpool
<1>6. CASE AppendFails
  <2>1. PICK e \in Entries : spool' \in FailedWrites(spool, e)
    BY <1>3, <1>6 DEF AppendFails, QueueTypeOK, MemoryEmpty
  <2>2. CanStart(spool) /\ mode # "memory" /\ UNCHANGED <<stored, retry>>
    BY <1>6 DEF AppendFails
  <2> QED
    BY <1>1, <1>2, <2>1, <2>2, FailedWritesGood, DiskSpool
<1>7. CASE AppendToMemory
  BY <1>1, <1>7, DiskFrame DEF AppendToMemory, diskVars
<1>8. CASE CallerStep
  <2>1. UNCHANGED <<spool, stored, retry, mode>>
    BY <1>8 DEF CallerStep, Submit, SubmitAgain, SubmitLive, Rouse, diskVars, queueVars
  <2> QED
    BY <1>1, <2>1, DiskFrame
<1>9. CASE ThreadTop \/ ThreadDue \/ (\E e \in due : Release(e)) \/ ThreadTimer \/ ReadLive
           \/ ReadSpool \/ PostStep \/ ConsumeLive \/ ConsumeMemory \/ WaitStep
  <2>1. UNCHANGED <<spool, stored, retry, mode>>
    BY <1>9 DEF ThreadTop, ThreadDue, Release, ThreadTimer, ReadLive, ReadSpool, PostStep, PostAccepted,
       PostRefused, PostUnanswered, DropUnconfigured, SingleAccepted, SingleRefused, ConsumeLive,
       ConsumeMemory, WaitStep, ThreadCheck, ThreadWakes, ThreadClears, diskVars, queueVars
  <2> QED
    BY <1>1, <2>1, DiskFrame
<1>10. CASE ReleaseOver \/ SaveRefused
  <2>1. UNCHANGED <<spool, stored, mode>>
    BY <1>10 DEF ReleaseOver, SaveRefused
  <2>2. retry' \subseteq Entries
    BY <1>1, <1>3, <1>10, RetryFileWritten DEF ReleaseOver, SaveRefused, QueueTypeOK
  <2> QED
    BY <1>1, <2>1, <2>2, DiskRetry
<1>11. ASSUME PtrInSpool(spool) PROVE spool.onDisk \subseteq spool.segs
  BY <1>1, <1>11 DEF DiskInv, SpoolInv, PtrInSpool
<1>13. CASE RetireSegment
  <2>1. PtrSeg(spool) \in SegIds /\ PtrSeg(spool) # spool.cur
    BY <1>1, <1>13 DEF RetireSegment, Finished, PtrInSpool, PtrSeg, GoodSpool, SpoolType
  <2>2. spool.onDisk \subseteq spool.segs
    BY <1>11, <1>13 DEF RetireSegment, Finished
  <2>3. spool' = Retired(spool, PtrSeg(spool)) /\ WritePointer(spool'.ptr) /\ UNCHANGED retry
    BY <1>13 DEF RetireSegment
  <2>4. /\ GoodSpool(spool') /\ spool'.onDisk \subseteq spool'.segs /\ spool'.ptr \in Pointers
    BY <1>1, <2>1, <2>2, <2>3, RetiredGood
  <2> QED
    BY <1>1, <2>3, <2>4, PointerStored, DiskSpool
<1>14. CASE SetAsideSegment
  <2>1. PICK g, rest, closed :
          /\ g = PtrSeg(spool) /\ rest = Retired(spool, g)
          /\ closed = Retired([spool EXCEPT !.open = FALSE], g)
    OBVIOUS
  <2>2. /\ g \in SegIds /\ spool.onDisk \subseteq spool.segs /\ CanStart(closed)
        /\ \/ g # spool.cur /\ spool' = rest
           \/ spool' = Started(closed)
           \/ spool' = AbandonSpool(closed) /\ mode' = "memory"
        /\ stored' \in {stored, rest.ptr} /\ UNCHANGED retry
    BY <1>1, <1>11, <1>14, <2>1 DEF SetAsideSegment, PtrInSpool, PtrSeg, GoodSpool, SpoolType
  <2>3. PICK t : t = [spool EXCEPT !.open = FALSE]
    OBVIOUS
  <2>4. GoodSpool(t) /\ ~t.open /\ t.onDisk = spool.onDisk /\ t.segs = spool.segs
    BY <1>1, <2>3, ClosedGood
  <2>5. GoodSpool(closed) /\ closed.onDisk \subseteq closed.segs
    <3>1. closed = Retired(t, g) /\ (t.open => t.cur # g)
      BY <2>1, <2>3, <2>4
    <3>2. GoodSpool(Retired(t, g)) /\ Retired(t, g).onDisk = t.onDisk \ {g} /\ Retired(t, g).segs = t.segs \ {g}
      BY <2>2, <2>4, <3>1, RetiredGood
    <3> QED
      BY <2>2, <2>4, <3>1, <3>2
  <2>6. rest.ptr \in Pointers
    <3>1. spool \in SpoolType /\ g \in SegIds
      BY <1>1, <2>2 DEF GoodSpool
    <3>2. Retired(spool, g).ptr \in Pointers
      BY <3>1, RetiredPtr
    <3> QED
      BY <2>1, <3>2
  <2>7. stored' \in Pointers /\ retry' \subseteq Entries
    BY <1>1, <2>2, <2>6
  <2>8. CASE g # spool.cur /\ spool' = rest
    BY <1>1, <2>1, <2>2, <2>7, <2>8, RetiredGood, DiskSpool
  <2>9. CASE spool' = Started(closed)
    BY <2>2, <2>5, <2>7, <2>9, StartedGood, DiskSpool
  <2>10. CASE spool' = AbandonSpool(closed) /\ mode' = "memory"
    BY <2>5, <2>7, <2>10, DiskAbandoned
  <2> QED
    BY <2>2, <2>8, <2>9, <2>10
<1>15. CASE ReadMemory
  <2>1. spool' = SkipTorn(spool) /\ UNCHANGED <<stored, retry, mode>>
    BY <1>15 DEF ReadMemory, queueVars
  <2>2. GoodSpool(spool') /\ spool'.onDisk = spool.onDisk /\ spool'.segs = spool.segs
    BY <1>1, <2>1, SkipTornGood
  <2> QED
    BY <1>1, <2>1, <2>2 DEF DiskInv, DiskTypeOK, SpoolInv, GoodSpool, WellFormed
<1>16. CASE ConsumeSpool
  <2>1. CASE Consumed = 0
    <3>1. UNCHANGED <<spool, stored, retry, mode>>
      BY <1>16, <2>1 DEF ConsumeSpool, queueVars
    <3> QED
      BY <1>1, <3>1, DiskFrame
  <2>2. CASE Consumed # 0
    <3>1. Consumed \in DOMAIN chunk /\ chunk \in Seq(ChunkEntries)
      BY <1>16, <2>2, ConsumedInChunk DEF ConsumeSpool, IInv, ThreadInv, ThreadTypeOK
    <3>2. chunk[Consumed] \in ChunkEntries
      BY <3>1
    <3>3. PICK end \in Pointers : end = chunk[Consumed].end
      BY <3>2 DEF ChunkEntries
    <3>4. /\ spool' = SpoolAfter(end) /\ UNCHANGED <<retry, mode>>
          /\ WritePointer(spool'.ptr) \/ UNCHANGED stored
      BY <1>16, <2>2, <3>3 DEF ConsumeSpool, queueVars
    <3>5. /\ GoodSpool(spool') /\ spool'.ptr \in Pointers
          /\ spool' = spool \/ (spool.onDisk \subseteq spool.segs => spool'.onDisk \subseteq spool'.segs)
      BY <1>1, <3>4, SpoolAfterGood
    <3>6. stored' \in Pointers /\ retry' \subseteq Entries
      BY <1>1, <3>4, <3>5, PointerStored
    <3>7. CASE spool' = spool
      BY <1>1, <3>4, <3>6, <3>7 DEF DiskInv, DiskTypeOK, SpoolInv, GoodSpool, WellFormed
    <3>8. CASE spool.onDisk \subseteq spool.segs /\ spool' # spool
      BY <3>5, <3>6, <3>8, DiskSpool
    <3>9. CASE ~(spool.onDisk \subseteq spool.segs)
      <4>1. spool.segs = {}
        BY <1>1, <3>9 DEF DiskInv, SpoolInv
      <4>2. spool' = spool
        BY <3>4, <4>1 DEF SpoolAfter
      <4> QED
        BY <3>7, <4>2
    <3> QED
      BY <3>7, <3>8, <3>9
  <2> QED
    BY <2>1, <2>2
<1>17. CASE TimerRunsOut \/ (\E e \in waiting : FallsDue(e)) \/ Close
  <2>1. UNCHANGED <<spool, stored, retry, mode>>
    BY <1>17 DEF TimerRunsOut, FallsDue, Close, diskVars, queueVars
  <2> QED
    BY <1>1, <2>1, DiskFrame
<1>18. CASE CloseEnds
  <2>1. spool' = [spool EXCEPT !.open = FALSE] /\ mode' = "memory" /\ UNCHANGED <<stored, retry>>
    BY <1>18 DEF CloseEnds
  <2>2. GoodSpool(spool') /\ spool'.onDisk = spool.onDisk /\ spool'.segs = spool.segs
    BY <1>1, <2>1, ClosedGood
  <2> QED
    BY <1>1, <2>1, <2>2 DEF DiskInv, DiskTypeOK, SpoolInv, GoodSpool, WellFormed
<1>19. CASE Exit \/ Kill
  BY <1>19, ProcessEndsDisk DEF Exit, Kill
<1>20. CASE Start
  <2>1. PICK s : s = Loaded(spool, stored)
    OBVIOUS
  <2>2. GoodSpool(s) /\ s.onDisk \subseteq s.segs
    BY <1>1, <2>1, LoadedGood
  <2>3. UNCHANGED <<stored, retry>>
    BY <1>20 DEF Start
  <2>4. CASE spool' = Started(s) /\ CanStart(s)
    BY <1>1, <2>2, <2>3, <2>4, StartedGood, DiskSpool
  <2>5. CASE spool' = AbandonSpool(s) /\ mode' = "memory"
    BY <1>1, <2>2, <2>3, <2>5, DiskAbandoned
  <2>6. CASE OpensNoSpool
    BY <1>1, <2>3, <2>6 DEF OpensNoSpool, DiskInv, DiskTypeOK, SpoolInv, GoodSpool, WellFormed
  <2> QED
    BY <1>20, <2>1, <2>4, <2>5, <2>6 DEF Start, OpensSpool
<1> QED
  BY <1>4, <1>5, <1>6, <1>7, <1>8, <1>9, <1>10, <1>13, <1>14, <1>15, <1>16, <1>17, <1>18,
     <1>19, <1>20
     DEF Next, AppendStep, ThreadStep, ReleaseStep, ReadStep, ConsumeStep

-----------------------------------------------------------------------------
(* The lock, and memory *)

(* Whoever is appending holds the lock, and the thread holds it from one     *)
(* step to the next only while it releases or reads.                         *)
LEMMA AppendInvStep ==
  ASSUME IInv, Next
  PROVE  AppendInv'
<1>1. AppendInv /\ lock \in Workers \cup {Thread, Nobody} /\ rousing \subseteq Workers
  BY DEF IInv, QueueInv, QueueTypeOK
<1>2. Thread # Nobody /\ Thread \notin Workers /\ Nobody \notin Workers
  BY WriterAssumption
<1>3. CASE AppendStep
  BY <1>1, <1>2, <1>3 DEF AppendStep, MoveToSpool, WriteToSpool, AppendFails, AppendToMemory, KeepInMemory,
     AppendOver, AppendInv, appendVars, threadVars
<1>4. CASE CallerStep
  BY <1>1, <1>2, <1>4 DEF CallerStep, Submit, SubmitAgain, SubmitLive, Rouse, CallerFree, Up,
     AppendInv, appendVars, threadVars
<1>5. CASE ThreadTop \/ ThreadDue \/ ReleaseOver \/ ThreadTimer
  BY <1>1, <1>2, <1>5 DEF ThreadTop, ThreadDue, ReleaseOver, ThreadTimer, Goto, AppendInv, appendVars
<1>6. ASSUME NEW e \in due, Release(e) PROVE AppendInv'
  BY <1>1, <1>2, <1>6 DEF Release, AppendInv, threadVars
<1>7. CASE ReadStep
  BY <1>1, <1>2, <1>7 DEF ReadStep, ReadLive, ReadSpool, RetireSegment, SetAsideSegment,
     ReadMemory, AtSpool, NewChunk, Idle, Goto, AppendInv, appendVars, threadVars
<1>8. CASE PostStep
  BY <1>1, <1>2, <1>8 DEF PostStep, PostAccepted, PostRefused, PostUnanswered, DropUnconfigured,
     SingleAccepted, SingleRefused, NextSingle, GroupOver, Goto, AppendInv, appendVars
<1>9. CASE ConsumeStep
  BY <1>1, <1>2, <1>9 DEF ConsumeStep, SaveRefused, ConsumeLive, ConsumeMemory, ConsumeSpool, PassGoesOn,
     Goto, AppendInv, appendVars
<1>10. CASE WaitStep
  BY <1>1, <1>2, <1>10 DEF WaitStep, ThreadCheck, ThreadWakes, ThreadClears, Goto, AppendInv, appendVars
<1>11. CASE TimerRunsOut \/ (\E e \in waiting : FallsDue(e)) \/ Start \/ Close \/ CloseEnds
  BY <1>1, <1>2, <1>11 DEF TimerRunsOut, FallsDue, Start, Close, CloseEnds, Up, AppendInv, appendVars,
     threadVars
<1>12. CASE Exit \/ Kill
  BY <1>2, <1>12 DEF Exit, Kill, ProcessEnds, NoThread, AppendInv
<1> QED
  BY <1>3, <1>4, <1>5, <1>6, <1>7, <1>8, <1>9, <1>10, <1>11, <1>12 DEF Next, ThreadStep, ReleaseStep

(* Memory holds nothing while the spool takes points, or after a stop. *)
LEMMA MemoryInvStep ==
  ASSUME IInv, Next
  PROVE  MemoryInv'
<1>1. MemoryInv /\ mode \in {"disk", "failed", "memory"} /\ memory \in [Workers -> Seq(Entries)]
  BY DEF IInv, QueueInv, QueueTypeOK
<1>2. CASE AppendStep
  <2>1. life # "down" /\ UNCHANGED life
    BY <1>2 DEF AppendStep, MoveToSpool, WriteToSpool, AppendFails, AppendToMemory, IInv, QueueInv, AppendInv
  <2>2. CASE \E w \in Workers : MoveToSpool(w)
    BY <1>1, <2>1, <2>2 DEF MoveToSpool, MemoryInv, MemoryEmpty
  <2>3. CASE WriteToSpool
    BY <2>1, <2>3 DEF WriteToSpool, MemoryInv, MemoryEmpty
  <2>4. CASE AppendFails \/ AppendToMemory
    BY <2>1, <2>4 DEF AppendFails, AppendToMemory, MemoryInv
  <2> QED
    BY <1>2, <2>2, <2>3, <2>4 DEF AppendStep
<1>3. CASE CallerStep
  BY <1>1, <1>3 DEF CallerStep, Submit, SubmitAgain, SubmitLive, Rouse, MemoryInv, MemoryEmpty, queueVars
<1>4. CASE ThreadTop \/ ReleaseStep \/ ThreadTimer \/ ReadStep \/ PostStep \/ WaitStep
  BY <1>1, <1>4 DEF ThreadTop, ReleaseStep, ThreadDue, Release, ReleaseOver, ThreadTimer, ReadStep,
     ReadLive, ReadSpool, RetireSegment, SetAsideSegment, ReadMemory, PostStep,
     PostAccepted, PostRefused, PostUnanswered, DropUnconfigured, SingleAccepted, SingleRefused,
     WaitStep, ThreadCheck, ThreadWakes, ThreadClears, MemoryInv, MemoryEmpty, queueVars
<1>5. CASE SaveRefused \/ ConsumeLive \/ ConsumeSpool
  BY <1>1, <1>5 DEF SaveRefused, ConsumeLive, ConsumeSpool, MemoryInv, MemoryEmpty, queueVars
<1>6. CASE ConsumeMemory
  <2>1. PICK w, n : n = Removed /\ memory' = [memory EXCEPT ![w] = DropFirst(@, n)] /\ UNCHANGED <<life, mode>>
    BY <1>6 DEF ConsumeMemory
  <2>2. n \in Nat
    BY <1>6, <2>1, RemovedIsNat DEF ConsumeMemory, IInv, ThreadInv, QueueInv
  <2>3. ASSUME mode = "disk" \/ life = "down", NEW v \in Workers PROVE memory'[v] = <<>>
    <3>1. memory[v] = <<>> /\ <<>> \in Seq({})
      BY <1>1, <2>3 DEF MemoryInv, MemoryEmpty
    <3>2. DropFirst(memory[v], n) \in Seq({})
      BY <2>2, <3>1, DropFirstFacts
    <3>3. memory'[v] \in {<<>>, DropFirst(memory[v], n)}
      BY <1>1, <2>1, <3>1
    <3> QED
      BY <3>2, <3>3
  <2> QED
    BY <2>1, <2>3 DEF MemoryInv, MemoryEmpty
<1>7. CASE TimerRunsOut \/ (\E e \in waiting : FallsDue(e)) \/ Close \/ CloseEnds \/ Start
  BY <1>1, <1>7 DEF TimerRunsOut, FallsDue, Close, CloseEnds, Start, MemoryInv, MemoryEmpty, queueVars
<1>8. CASE Exit \/ Kill
  BY <1>8 DEF Exit, Kill, ProcessEnds, MemoryInv, MemoryEmpty
<1> QED
  BY <1>2, <1>3, <1>4, <1>5, <1>6, <1>7, <1>8 DEF Next, ThreadStep, ConsumeStep

-----------------------------------------------------------------------------
(* The queues *)

(* A queue of bounded length stays a queue, and what falls out are points.   *)
LEMMA PushType ==
  ASSUME NEW q \in Seq(Entries), NEW e \in Entries
  PROVE  Push(q, e) \in Seq(Entries) /\ PushedOut(q) \subseteq Points
<1>1. MemoryPoints \in Nat /\ MemoryPoints > 0 /\ Len(q) \in Nat
  BY WriterAssumption
<1>2. CASE Len(q) >= MemoryPoints
  <2>1. q # <<>>
    BY <1>1, <1>2
  <2>2. Tail(q) \in Seq(Entries) /\ Head(q) \in Entries
    BY <2>1
  <2>3. Head(q).p \in Points
    BY <2>2 DEF Entries
  <2> QED
    BY <2>2, <2>3 DEF Push, PushedOut
<1>3. CASE ~(Len(q) >= MemoryPoints)
  BY <1>3 DEF Push, PushedOut
<1> QED
  BY <1>2, <1>3

(* The queue of heartbeats, at its limit or short of it. *)
LEMMA LivePushType ==
  ASSUME NEW h \in HeartbeatIds, live \in Seq(HeartbeatIds)
  PROVE  (IF Len(live) >= LivePoints THEN Append(Tail(live), h) ELSE Append(live, h)) \in Seq(HeartbeatIds)
<1>1. LivePoints \in Nat /\ h \in 1..3 * LivePoints
  BY WriterAssumption DEF HeartbeatIds
<1>2. LivePoints > 0
  BY <1>1
<1>3. CASE Len(live) >= LivePoints
  <2>1. live # <<>>
    BY <1>1, <1>2, <1>3
  <2> QED
    BY <2>1
<1> QED
  BY <1>3

(* A refused point's count of rejections stays below the limit. *)
LEMMA RejectedAgain ==
  ASSUME NEW e \in Entries, ~GivesUpOn(e.r + 1)
  PROVE  [e EXCEPT !.r = @ + 1] \in Entries
<1>1. e.r \in Nat /\ e.r + 1 < MaxRejections /\ MaxRejections \in Nat
  BY SpoolAssumption DEF GivesUpOn, Entries
<1>2. e.r + 1 \in 0..MaxRejections - 1
  BY <1>1
<1> QED
  BY <1>2 DEF Entries

(* Every step keeps the types of the queues.                                 *)
LEMMA QueueTypeStep ==
  ASSUME IInv, Next
  PROVE  QueueTypeOK'
<1>1. QueueTypeOK /\ retry \subseteq Entries /\ ChunkInv /\ ThreadTypeOK
  BY DEF IInv, QueueInv, DiskInv, DiskTypeOK, ThreadInv
<1> USE <1>1
<1>2. CASE AppendStep
  <2>1. ASSUME AppendOver, adding # NoEntry
        PROVE  /\ adding' \in Entries \cup {NoEntry} /\ lock' \in Workers \cup {Thread, Nobody}
               /\ rousing' \subseteq Workers /\ waiting' \subseteq Entries /\ due' \subseteq waiting'
    <3>1. lock # Nobody
      BY <2>1 DEF IInv, QueueInv, AppendInv
    <3> QED
      BY <2>1, <3>1 DEF AppendOver, QueueTypeOK
  <2>2. ASSUME KeepInMemory, adding # NoEntry PROVE memory' \in [Workers -> Seq(Entries)]
    <3>1. adding \in Entries /\ adding.p[1] \in Workers
      BY <2>2 DEF QueueTypeOK, Entries, Points
    <3>2. memory[adding.p[1]] \in Seq(Entries)
      BY <3>1 DEF QueueTypeOK
    <3>3. Push(memory[adding.p[1]], adding) \in Seq(Entries)
      BY <3>1, <3>2, PushType
    <3> QED
      BY <2>2, <3>1, <3>3 DEF KeepInMemory, QueueTypeOK
  <2>3. \A w : HeadGone(w) => gone' \in Nat
    BY DEF HeadGone, QueueTypeOK
  <2>4. ASSUME NEW w \in Workers, MoveToSpool(w) PROVE QueueTypeOK'
    <3>1. memory[w] \in Seq(Entries) /\ memory[w] # <<>>
      BY <2>4 DEF QueueTypeOK, MoveToSpool
    <3>2. Tail(memory[w]) \in Seq(Entries) /\ gone' \in Nat
      BY <2>3, <2>4, <3>1 DEF MoveToSpool
    <3> QED
      BY <2>4, <3>2 DEF QueueTypeOK, MoveToSpool, appendVars, timerVars
  <2>5. CASE WriteToSpool
    <3>1. dirty' \in BOOLEAN
      BY <2>5 DEF WriteToSpool, WriteRetryFile, QueueTypeOK
    <3> QED
      BY <2>1, <2>5, <3>1 DEF WriteToSpool, QueueTypeOK, timerVars
  <2>6. ASSUME KeepInMemory PROVE gone' \in Nat
    BY <2>3, <2>6 DEF KeepInMemory, QueueTypeOK
  <2>7. CASE AppendFails
    <3>1. KeepInMemory /\ adding # NoEntry
      BY <2>7 DEF AppendFails
    <3> QED
      BY <2>1, <2>2, <2>6, <2>7, <3>1 DEF AppendFails, KeepInMemory, QueueTypeOK, timerVars
  <2>8. CASE AppendToMemory
    <3>1. KeepInMemory /\ adding # NoEntry
      BY <2>8 DEF AppendToMemory
    <3> QED
      BY <2>1, <2>2, <2>6, <2>8, <3>1 DEF AppendToMemory, KeepInMemory, QueueTypeOK, timerVars
  <2> QED
    BY <1>2, <2>4, <2>5, <2>7, <2>8 DEF AppendStep
<1>3. ASSUME NEW w \in Workers, NEW n \in 1..MaxPoints, Submit(w, n) PROVE QueueTypeOK'
  <2>1. SourceOf[w] \in Sources /\ MaxPoints \in Nat
    BY WriterAssumption, SpoolAssumption
  <2>2. [p |-> <<w, n>>, r |-> 0] \in Entries
    BY SpoolAssumption DEF Entries, Points
  <2>3. [lastLine EXCEPT ![w] = n] \in [Workers -> 0..MaxPoints]
    BY <2>1 DEF QueueTypeOK
  <2> QED
    BY <1>3, <2>1, <2>2, <2>3 DEF Submit, QueueTypeOK, timerVars
<1>4. ASSUME NEW w \in Workers, SubmitAgain(w) PROVE QueueTypeOK'
  BY <1>4, WriterAssumption DEF SubmitAgain, QueueTypeOK, timerVars, appendVars
<1>5. ASSUME NEW w \in Workers, NEW h \in HeartbeatIds, SubmitLive(w, h) PROVE QueueTypeOK'
  <2>1. live' \in Seq(HeartbeatIds)
    BY <1>5, LivePushType DEF SubmitLive, QueueTypeOK
  <2> QED
    BY <1>5, <2>1, WriterAssumption DEF SubmitLive, QueueTypeOK, timerVars
<1>6. ASSUME NEW w \in Workers, Rouse(w) PROVE QueueTypeOK'
  BY <1>6 DEF Rouse, QueueTypeOK, timerVars, queueVars
<1>7. CASE ThreadTop \/ ReleaseStep
  BY <1>7 DEF ThreadTop, ReleaseStep, ThreadDue, Release, ReleaseOver, WriteRetryFile, QueueTypeOK,
     timerVars, queueVars, appendVars
<1>8. CASE ThreadTimer
  <2>1. DropsLive(live) \in Seq(HeartbeatIds)
    BY DEF DropsLive, QueueTypeOK
  <2> QED
    BY <1>8, <2>1 DEF ThreadTimer, QueueTypeOK, timerVars, appendVars
<1>9. CASE ReadStep
  BY <1>9 DEF ReadStep, ReadLive, ReadSpool, RetireSegment, SetAsideSegment, ReadMemory,
     QueueTypeOK, timerVars, queueVars, appendVars
<1>10. CASE PostAccepted \/ PostRefused \/ PostUnanswered \/ DropUnconfigured \/ SingleAccepted
  BY <1>10 DEF PostAccepted, PostRefused, PostUnanswered, DropUnconfigured, SingleAccepted, QueueTypeOK,
     timerVars, queueVars, appendVars
<1>11. CASE SingleRefused
  <2>1. waiting' \subseteq Entries /\ waiting \subseteq waiting' /\ dirty' \in BOOLEAN
    <3>1. CASE kind = "live"
      BY <1>11, <3>1 DEF SingleRefused, QueueTypeOK
    <3>2. CASE kind # "live"
      <4>1. PICK e \in Entries : e = chunk[single].e
        BY <1>11, <3>2 DEF SingleRefused, ChunkInv
      <4>2. CASE GivesUpOn(e.r + 1)
        BY <1>11, <3>2, <4>1, <4>2 DEF SingleRefused, QueueTypeOK
      <4>3. CASE ~GivesUpOn(e.r + 1)
        <5>1. waiting' = waiting \cup {[e EXCEPT !.r = @ + 1]} /\ dirty' = TRUE
          BY <1>11, <3>2, <4>1, <4>3 DEF SingleRefused
        <5> QED
          BY <4>3, <5>1, RejectedAgain DEF QueueTypeOK
      <4> QED
        BY <4>2, <4>3
    <3> QED
      BY <3>1, <3>2
  <2> QED
    BY <1>11, <2>1 DEF SingleRefused, QueueTypeOK, timerVars, appendVars
<1>12. CASE SaveRefused
  BY <1>12 DEF SaveRefused, WriteRetryFile, QueueTypeOK, timerVars, appendVars
<1>13. ASSUME NEW removed, PassGoesOn(removed) PROVE timer' \in BOOLEAN /\ refusing' \in BOOLEAN
  BY <1>13 DEF PassGoesOn, QueueTypeOK, timerVars
<1>14. CASE ConsumeLive
  <2>1. PICK es : live' = After(live, es)
    BY <1>14 DEF ConsumeLive
  <2>2. live' \in Seq(HeartbeatIds)
    BY <2>1, AfterType DEF QueueTypeOK
  <2>3. timer' \in BOOLEAN /\ refusing' \in BOOLEAN
    BY <1>13, <1>14 DEF ConsumeLive
  <2> QED
    BY <1>14, <2>2, <2>3 DEF ConsumeLive, QueueTypeOK, appendVars
<1>15. CASE ConsumeMemory
  <2>1. PICK w, n : n = Removed /\ memory' = [memory EXCEPT ![w] = DropFirst(@, n)]
    BY <1>15 DEF ConsumeMemory
  <2>2. memory' \in [Workers -> Seq(Entries)]
    <3>1. CASE w \in Workers
      <4>1. memory[w] \in Seq(Entries)
        BY <3>1 DEF QueueTypeOK
      <4>2. n \in Nat
        BY <1>15, <2>1, RemovedIsNat DEF ConsumeMemory
      <4>3. DropFirst(memory[w], n) \in Seq(Entries)
        BY <4>1, <4>2, DropFirstFacts
      <4> QED
        BY <2>1, <3>1, <4>3 DEF QueueTypeOK
    <3>2. CASE w \notin Workers
      BY <2>1, <3>2 DEF QueueTypeOK
    <3> QED
      BY <3>1, <3>2
  <2>3. timer' \in BOOLEAN /\ refusing' \in BOOLEAN
    BY <1>13, <1>15 DEF ConsumeMemory
  <2> QED
    BY <1>15, <2>2, <2>3 DEF ConsumeMemory, QueueTypeOK, appendVars
<1>16. CASE ConsumeSpool
  <2>1. timer' \in BOOLEAN /\ refusing' \in BOOLEAN
    BY <1>13, <1>16 DEF ConsumeSpool
  <2> QED
    BY <1>16, <2>1 DEF ConsumeSpool, QueueTypeOK, queueVars, appendVars
<1>17. CASE WaitStep
  BY <1>17 DEF WaitStep, ThreadCheck, ThreadWakes, ThreadClears, QueueTypeOK, timerVars, queueVars, appendVars
<1>18. CASE TimerRunsOut \/ (\E e \in waiting : FallsDue(e)) \/ Close \/ CloseEnds
  BY <1>18 DEF TimerRunsOut, FallsDue, Close, CloseEnds, QueueTypeOK, timerVars, queueVars, appendVars
<1>19. CASE Start
  <2>1. dest' \subseteq Sources /\ due = {}
    BY <1>19, WriterAssumption DEF Start, IInv, QueueInv, AppendInv
  <2> QED
    BY <1>19, <2>1 DEF Start, OpensSpool, OpensNoSpool, QueueTypeOK, timerVars, appendVars
<1>20. CASE Exit \/ Kill
  <2>1. [w \in Workers |-> <<>>] \in [Workers -> Seq(Entries)]
    OBVIOUS
  <2>2. [w \in Workers |-> 0] \in [Workers -> 0..MaxPoints]
    BY SpoolAssumption
  <2>3. /\ life' = "down" /\ mode' = "memory" /\ waiting' = {} /\ due' = {} /\ dirty' = FALSE
        /\ memory' = [w \in Workers |-> <<>>] /\ gone' = 0 /\ live' = <<>>
        /\ lastLine' = [w \in Workers |-> 0] /\ dest' = {} /\ timer' = FALSE /\ refusing' = FALSE
        /\ lock' = Nobody /\ adding' = NoEntry /\ rousing' = {} /\ wake' = FALSE
    BY <1>20 DEF Exit, Kill, ProcessEnds
  <2>4. /\ memory' \in [Workers -> Seq(Entries)] /\ live' \in Seq(HeartbeatIds)
        /\ lastLine' \in [Workers -> 0..MaxPoints]
    BY <2>1, <2>2, <2>3
  <2> QED
    BY <2>3, <2>4 DEF QueueTypeOK
<1> QED
  BY <1>2, <1>3, <1>4, <1>5, <1>6, <1>7, <1>8, <1>9, <1>10, <1>11, <1>12, <1>14, <1>15, <1>16, <1>17,
     <1>18, <1>19, <1>20 DEF Next, CallerStep, ThreadStep, PostStep, ConsumeStep

-----------------------------------------------------------------------------
(* The thread *)

(* The head of a queue that is read as a chunk is not empty and is its prefix. *)
LEMMA FirstOfType ==
  ASSUME NEW S, NEW q \in Seq(S), q # <<>>
  PROVE  \E n \in Nat \ {0} : /\ n = IF Len(q) < ChunkPoints THEN Len(q) ELSE ChunkPoints
                              /\ DOMAIN FirstOf(q, ChunkPoints) = 1..n
                              /\ \A i \in 1..n : FirstOf(q, ChunkPoints)[i] = q[i] /\ q[i] \in S
<1>1. PICK n \in Nat \ {0} : n = IF Len(q) < ChunkPoints THEN Len(q) ELSE ChunkPoints
  BY SpoolAssumption
<1>2. n <= Len(q) /\ Len(q) \in Nat /\ \A i \in 1..n : q[i] \in S
  BY <1>1, SpoolAssumption
<1>3. FirstOf(q, ChunkPoints) = SubSeq(q, 1, n)
  BY <1>1 DEF FirstOf
<1>4. SubSeq(q, 1, n) \in Seq(S) /\ Len(SubSeq(q, 1, n)) = n /\ \A i \in 1..n : SubSeq(q, 1, n)[i] = q[i]
  BY <1>2, SubSeqProperties
<1>5. DOMAIN FirstOf(q, ChunkPoints) = 1..n
  BY <1>3, <1>4
<1>6. \A i \in 1..n : FirstOf(q, ChunkPoints)[i] = q[i] /\ q[i] \in S
  BY <1>2, <1>3, <1>4
<1> QED
  BY <1>1, <1>5, <1>6, Zenon

(* The group at hand is part of the chunk, and has a first entry. *)
LEMMA GroupOfChunk ==
  ASSUME ThreadTypeOK, DOMAIN chunk \ tried # {}
  PROVE  Group \subseteq DOMAIN chunk /\ Min(Group) \in Group /\ Min(Group) \in DOMAIN chunk
<1>1. DOMAIN chunk \in SUBSET Nat
  BY DEF ThreadTypeOK
<1>2. PICK first : first = Min(DOMAIN chunk \ tried)
  OBVIOUS
<1>3. first \in DOMAIN chunk
  BY <1>1, <1>2, MinIsLeast
<1>4. PICK G : G = Group
  OBVIOUS
<1>5. G \in SUBSET DOMAIN chunk /\ first \in G
  BY <1>2, <1>3, <1>4 DEF Group
<1>6. Min(G) \in G
  BY <1>1, <1>5, MinIsLeast
<1> QED
  BY <1>4, <1>5, <1>6

(* A chunk just read. *)
LEMMA NewChunkInv ==
  ASSUME NEW from \in {"live", "spool", "memory"}, NEW c, NewChunk(from, c),
         c \in Seq(ChunkEntries), DOMAIN c # {}, liveOnly \in BOOLEAN, force' \in BOOLEAN,
         sleepFor' \subseteq {"timer", "due"},
         from # "live" => \A i \in DOMAIN c : c[i].e \in Entries
  PROVE  ThreadInv'
BY DEF NewChunk, Goto, Pcs, ThreadInv, ThreadTypeOK, ChunkInv

(* No chunk in hand. *)
LEMMA NoChunkInv ==
  ASSUME EmptyChunk, tpc' \in {"none", "read", "check"}, liveOnly' \in BOOLEAN, force' \in BOOLEAN,
         sleepFor' \subseteq {"timer", "due"}
  PROVE  ThreadInv'
<1>1. <<>> \in Seq(ChunkEntries) /\ DOMAIN <<>> = {}
  OBVIOUS
<1>2. /\ kind' = "none" /\ chunk' = <<>> /\ tried' = {} /\ single' = 0
      /\ done' = {} /\ accepted' = FALSE /\ outcome' = "sent"
  BY DEF EmptyChunk
<1>3. ThreadTypeOK'
  BY <1>1, <1>2 DEF Pcs, ThreadTypeOK
<1> QED
  BY <1>1, <1>2, <1>3 DEF ThreadInv, ChunkInv

(* The thread moves on, its chunk left as it is. *)
LEMMA ChunkFrame ==
  ASSUME ThreadInv, UNCHANGED chunkVars, tpc' \in Pcs \ {"post", "single"}, liveOnly' \in BOOLEAN,
         force' \in BOOLEAN, sleepFor' \subseteq {"timer", "due"}
  PROVE  ThreadInv'
BY DEF chunkVars, ThreadInv, ThreadTypeOK, ChunkInv

(* Every step keeps ThreadInv.                                               *)
LEMMA ThreadStepInv ==
  ASSUME IInv, Next
  PROVE  ThreadInv'
<1>1. /\ ThreadInv /\ ThreadTypeOK /\ ChunkInv /\ QueueTypeOK
      /\ force \in BOOLEAN /\ liveOnly \in BOOLEAN /\ sleepFor \subseteq {"timer", "due"}
  BY DEF IInv, ThreadInv, ThreadTypeOK, QueueInv
<1>2. ASSUME UNCHANGED threadVars PROVE ThreadInv'
  BY <1>1, <1>2 DEF threadVars, chunkVars, ThreadInv, ThreadTypeOK, ChunkInv
<1>3. CASE \/ AppendStep \/ TimerRunsOut \/ (\E e \in waiting : FallsDue(e)) \/ Start \/ Close \/ CloseEnds
  <2>1. UNCHANGED threadVars
    BY <1>3 DEF AppendStep, MoveToSpool, WriteToSpool, AppendFails, AppendToMemory, TimerRunsOut, FallsDue,
       Start, Close, CloseEnds
  <2> QED
    BY <1>2, <2>1
<1>4. CASE CallerStep
  <2>1. PICK w \in Workers : \/ \E n \in 1..MaxPoints : Submit(w, n)
                             \/ SubmitAgain(w) \/ \E h \in HeartbeatIds : SubmitLive(w, h)
                             \/ Rouse(w)
    BY <1>4 DEF CallerStep
  <2>2. CASE Rouse(w)
    BY <1>1, <2>2 DEF Rouse, Pcs, chunkVars, ThreadInv, ThreadTypeOK, ChunkInv
  <2>3. CASE ~Rouse(w)
    <3>1. UNCHANGED threadVars
      BY <2>1, <2>3 DEF Submit, SubmitAgain, SubmitLive
    <3> QED
      BY <1>2, <3>1
  <2> QED
    BY <2>2, <2>3
<1>5. CASE ThreadTop \/ ThreadDue \/ ReleaseOver \/ ThreadTimer \/ SaveRefused
  BY <1>1, <1>5, ChunkFrame DEF ThreadTop, ThreadDue, ReleaseOver, ThreadTimer, SaveRefused, Goto, Pcs
<1>6. CASE (\E e \in due : Release(e)) \/ RetireSegment \/ SetAsideSegment
  <2>1. UNCHANGED threadVars
    BY <1>6 DEF Release, RetireSegment, SetAsideSegment
  <2> QED
    BY <1>2, <2>1
<1>7. ASSUME Idle, force' \in BOOLEAN, sleepFor' \subseteq {"timer", "due"} PROVE ThreadInv'
  BY <1>7, NoChunkInv DEF Idle, Goto
<1>8. CASE ReadLive
  <2>1. CASE live # <<>>
    <3>1. PICK n \in Nat \ {0} : /\ DOMAIN FirstOf(live, ChunkPoints) = 1..n
                                 /\ \A i \in 1..n : live[i] \in HeartbeatIds
      BY <1>1, <2>1, FirstOfType DEF QueueTypeOK
    <3>2. PICK c : c = [i \in 1..n |-> [e |-> Heartbeat(live[i]), end |-> NoPtr]]
      OBVIOUS
    <3>3. NewChunk("live", c)
      BY <1>8, <2>1, <3>1, <3>2 DEF ReadLive
    <3>4. NoPtr \in Pointers
      BY SpoolAssumption DEF NoPtr, Pointers
    <3>5. \A i \in 1..n : [e |-> Heartbeat(live[i]), end |-> NoPtr] \in ChunkEntries
      BY <3>1, <3>4 DEF ChunkEntries
    <3>6. c \in [1..n -> ChunkEntries]
      BY <3>2, <3>5
    <3>7. c \in Seq(ChunkEntries) /\ DOMAIN c # {}
      BY <3>1, <3>6, SeqDef
    <3> QED
      BY <1>1, <1>8, <3>3, <3>7, NewChunkInv DEF ReadLive
  <2>2. CASE live = <<>>
    BY <1>1, <1>7, <1>8, <2>2 DEF ReadLive
  <2> QED
    BY <2>1, <2>2
<1>9. CASE ReadSpool
  <2>1. GoodSpool(spool) /\ PtrInSpool(spool) /\ Readable(spool)
    BY <1>9 DEF IInv, DiskInv, DiskTypeOK, SpoolInv, GoodSpool, ReadSpool, Readable
  <2>2. PICK c : c = SpoolChunk(spool)
    OBVIOUS
  <2>3. c \in Seq([e : Entries, end : Pointers]) /\ DOMAIN c # {}
    BY <2>1, <2>2, SpoolChunkType
  <2>4. ASSUME NEW i \in DOMAIN c PROVE c[i] \in ChunkEntries /\ c[i].e \in Entries
    <3>1. PICK X : X = [e : Entries, end : Pointers]
      OBVIOUS
    <3>2. c \in Seq(X)
      BY <2>3, <3>1
    <3>3. DOMAIN c = 1..Len(c)
      BY <3>2
    <3>4. c[i] \in X
      BY <3>2, <3>3
    <3> QED
      BY <3>1, <3>4 DEF ChunkEntries
  <2>5. c \in Seq(ChunkEntries)
    BY <2>3, <2>4
  <2> QED
    BY <1>1, <1>9, <2>2, <2>3, <2>4, <2>5, NewChunkInv DEF ReadSpool
<1>10. CASE ReadMemory
  <2>1. CASE MemoryEmpty /\ Idle
    BY <1>1, <1>7, <1>10, <2>1 DEF ReadMemory
  <2>2. ASSUME NEW w \in Workers, memory[w] # <<>>,
               NewChunk("memory", [i \in DOMAIN FirstOf(memory[w], ChunkPoints) |->
                                      [e |-> memory[w][i], end |-> NoPtr]])
        PROVE  ThreadInv'
    <3>1. memory[w] \in Seq(Entries)
      BY <1>1 DEF QueueTypeOK
    <3>2. PICK n \in Nat \ {0} : /\ DOMAIN FirstOf(memory[w], ChunkPoints) = 1..n
                                 /\ \A i \in 1..n : memory[w][i] \in Entries
      BY <2>2, <3>1, FirstOfType
    <3>3. PICK c : c = [i \in 1..n |-> [e |-> memory[w][i], end |-> NoPtr]]
      OBVIOUS
    <3>4. NewChunk("memory", c)
      BY <2>2, <3>2, <3>3
    <3>5. NoPtr \in Pointers
      BY SpoolAssumption DEF NoPtr, Pointers
    <3>6. \A i \in 1..n : /\ [e |-> memory[w][i], end |-> NoPtr] \in ChunkEntries
                          /\ c[i].e \in Entries
      BY <3>2, <3>3, <3>5 DEF ChunkEntries
    <3>7. c \in [1..n -> ChunkEntries]
      BY <3>3, <3>6
    <3>8. c \in Seq(ChunkEntries) /\ DOMAIN c = 1..n /\ DOMAIN c # {}
      BY <3>2, <3>7, SeqDef
    <3> QED
      BY <1>1, <1>10, <3>4, <3>6, <3>8, NewChunkInv DEF ReadMemory
  <2> QED
    BY <1>10, <2>1, <2>2 DEF ReadMemory
<1>11. ASSUME tpc \in {"post", "single"} PROVE DOMAIN chunk \ tried # {}
  BY <1>1, <1>11 DEF ChunkInv
<1>12. CASE PostAccepted \/ DropUnconfigured
  <2>1. Group \subseteq DOMAIN chunk
    BY <1>1, <1>11, <1>12, GroupOfChunk DEF PostAccepted, DropUnconfigured
  <2>2. /\ done' = done \cup Group /\ GroupOver /\ accepted' \in BOOLEAN
        /\ UNCHANGED <<force, liveOnly, sleepFor, kind, chunk, outcome>>
    BY <1>1, <1>12 DEF PostAccepted, DropUnconfigured, ThreadTypeOK
  <2> QED
    BY <1>1, <2>1, <2>2 DEF GroupOver, Goto, Pcs, ThreadInv, ThreadTypeOK, ChunkInv
<1>13. CASE PostRefused
  <2>1. Min(Group) \in DOMAIN chunk /\ DOMAIN chunk \ tried # {}
    BY <1>1, <1>11, <1>13, GroupOfChunk DEF PostRefused
  <2> QED
    BY <1>1, <1>13, <2>1 DEF PostRefused, Goto, Pcs, ThreadInv, ThreadTypeOK, ChunkInv
<1>14. CASE PostUnanswered
  BY <1>1, <1>14 DEF PostUnanswered, Goto, Pcs, ThreadInv, ThreadTypeOK, ChunkInv
<1>15. CASE SingleAccepted \/ SingleRefused
  <2>1. /\ tpc = "single" /\ single \in DOMAIN chunk /\ Group \in SUBSET DOMAIN chunk
        /\ DOMAIN chunk \ tried # {} /\ DOMAIN chunk \in SUBSET Nat
    BY <1>1, <1>11, <1>15, GroupOfChunk DEF SingleAccepted, SingleRefused, ChunkInv, ThreadTypeOK
  <2>2. /\ NextSingle /\ accepted' \in BOOLEAN
        /\ UNCHANGED <<force, liveOnly, sleepFor, kind, chunk, outcome>>
    BY <1>1, <1>15 DEF SingleAccepted, SingleRefused, ThreadTypeOK
  <2>3. CASE \E j \in Group : j > single
    <3>1. PICK rest \in SUBSET Nat : rest = {j \in Group : j > single}
      BY <2>1
    <3>2. Min(rest) \in rest
      BY <2>3, <3>1, MinIsLeast
    <3>3. /\ done' = done \cup {single} /\ single' \in DOMAIN chunk /\ UNCHANGED <<tpc, tried>>
      BY <2>1, <2>2, <2>3, <3>1, <3>2 DEF NextSingle
    <3> QED
      BY <1>1, <2>1, <2>2, <3>3 DEF ThreadInv, ThreadTypeOK, ChunkInv
  <2>4. CASE ~\E j \in Group : j > single
    <3>1. done' = done \cup {single} /\ GroupOver
      BY <2>2, <2>4 DEF NextSingle
    <3> QED
      BY <1>1, <2>1, <2>2, <3>1 DEF GroupOver, Goto, Pcs, ThreadInv, ThreadTypeOK, ChunkInv
  <2> QED
    BY <2>3, <2>4
<1>16. ASSUME NEW removed, PassGoesOn(removed), UNCHANGED <<force, sleepFor>> PROVE ThreadInv'
  <2>1. EmptyChunk /\ tpc' \in {"read", "check"} /\ liveOnly' \in BOOLEAN
    BY <1>1, <1>16 DEF PassGoesOn, Goto
  <2> QED
    BY <1>1, <1>16, <2>1, NoChunkInv
<1>17. CASE ConsumeLive \/ ConsumeMemory \/ ConsumeSpool
  BY <1>16, <1>17 DEF ConsumeLive, ConsumeMemory, ConsumeSpool
<1>18. CASE WaitStep
  BY <1>1, <1>18, ChunkFrame DEF WaitStep, ThreadCheck, ThreadWakes, ThreadClears, Timeouts, Goto, Pcs
<1>19. CASE Exit \/ Kill
  <2>1. NoThread
    BY <1>19 DEF Exit, Kill, ProcessEnds
  <2> QED
    BY <2>1, NoChunkInv DEF NoThread
<1> QED
  BY <1>3, <1>4, <1>5, <1>6, <1>8, <1>9, <1>10, <1>12, <1>13, <1>14, <1>15, <1>17, <1>18, <1>19
     DEF Next, ThreadStep, ReleaseStep, ReadStep, PostStep, ConsumeStep

-----------------------------------------------------------------------------
(* The history *)

(* The points of part of a chunk, and what a stop loses, are points. *)
LEMMA PointsAtType ==
  ASSUME ThreadInv, NEW I \in SUBSET DOMAIN chunk
  PROVE  PointsAt(I) \subseteq Points
BY DEF PointsAt, ThreadInv, ChunkInv, Entries

(* What a stop would lose are points.                                        *)
LEMMA VolatileType ==
  ASSUME QueueTypeOK
  PROVE  Volatile \subseteq Points
<1>1. ASSUME NEW w \in Workers PROVE PointsIn(memory[w]) \subseteq Points
  BY PointsInType DEF QueueTypeOK
<1>2. InMemory \subseteq Points
  BY <1>1 DEF InMemory
<1>3. Adding \subseteq Points /\ Waiting \subseteq Points
  BY DEF QueueTypeOK, Entries, Adding, Waiting
<1> QED
  BY <1>2, <1>3 DEF Volatile

(* A fault, or none. *)
LEMMA FaultType ==
  ASSUME faults \in 0..MaxFaults, Fault \/ UNCHANGED faults
  PROVE  faults' \in 0..MaxFaults
BY WriterAssumption DEF Fault

(* A step that records no history keeps its type.                            *)
LEMMA HistoryFrame ==
  ASSUME HistoryTypeOK, UNCHANGED <<historyVars, faults, starts>>
  PROVE  HistoryTypeOK'
BY DEF HistoryTypeOK, historyVars

(* Every step keeps the type of the history.                                 *)
LEMMA HistoryStep ==
  ASSUME IInv, Next
  PROVE  HistoryTypeOK'
<1>1. /\ HistoryTypeOK /\ QueueTypeOK /\ ThreadInv /\ ThreadTypeOK /\ ChunkInv /\ GoodSpool(spool)
      /\ mode # "memory" => spool.onDisk \subseteq spool.segs
  BY DEF IInv, QueueInv, ThreadInv, DiskInv, DiskTypeOK, SpoolInv, GoodSpool
<1>2. /\ reading \in [Workers -> 0..MaxPoints]
      /\ db \subseteq Points /\ excused \subseteq Points /\ turned \subseteq Points
      /\ unsaved \in BOOLEAN /\ stuck \in BOOLEAN
      /\ faults \in 0..MaxFaults /\ starts \in 0..MaxStarts
  BY <1>1 DEF HistoryTypeOK
<1>3. ASSUME KeepInMemory, adding # NoEntry PROVE excused' \subseteq Points
  <2>1. adding.p[1] \in Workers
    BY <1>1, <1>3 DEF QueueTypeOK, Entries, Points
  <2>2. memory[adding.p[1]] \in Seq(Entries)
    BY <1>1, <2>1 DEF QueueTypeOK
  <2>3. PushedOut(memory[adding.p[1]]) \subseteq Points
    BY <1>1, <1>3, <2>2, PushType DEF QueueTypeOK
  <2> QED
    BY <1>2, <1>3, <2>3 DEF KeepInMemory
<1>4. ASSUME NEW w \in Workers, MoveToSpool(w) PROVE HistoryTypeOK'
  <2>1. PICK e \in Entries : e = Head(memory[w])
    BY <1>1, <1>4 DEF QueueTypeOK, MoveToSpool
  <2>2. EvictedPoints(Appended(spool, e)) \subseteq Points
    BY <1>1, <1>4, AppendedGood, EvictedPointsType DEF MoveToSpool
  <2> QED
    BY <1>2, <1>4, <2>1, <2>2 DEF MoveToSpool, HistoryTypeOK
<1>5. CASE WriteToSpool
  <2>1. adding \in Entries
    BY <1>1, <1>5 DEF QueueTypeOK, WriteToSpool
  <2>2. EvictedPoints(Appended(spool, adding)) \subseteq Points
    BY <1>1, <1>5, <2>1, AppendedGood, EvictedPointsType DEF WriteToSpool
  <2>3. unsaved' \in BOOLEAN /\ faults' \in 0..MaxFaults
    BY <1>2, <1>5, FaultType DEF WriteToSpool, WriteRetryFile
  <2> QED
    BY <1>2, <1>5, <2>2, <2>3 DEF WriteToSpool, HistoryTypeOK
<1>6. CASE AppendFails
  BY <1>2, <1>3, <1>6, FaultType DEF AppendFails, HistoryTypeOK
<1>7. CASE AppendToMemory
  BY <1>2, <1>3, <1>7 DEF AppendToMemory, HistoryTypeOK
<1>8. ASSUME NEW w \in Workers, NEW n \in 1..MaxPoints, Submit(w, n) PROVE HistoryTypeOK'
  <2>1. [reading EXCEPT ![w] = n] \in [Workers -> 0..MaxPoints]
    BY <1>2
  <2> QED
    BY <1>2, <1>8, <2>1 DEF Submit, HistoryTypeOK
<1>9. ASSUME NEW w \in Workers, SubmitAgain(w) \/ (\E h \in HeartbeatIds : SubmitLive(w, h)) \/ Rouse(w)
      PROVE  HistoryTypeOK'
  <2>1. UNCHANGED <<historyVars, faults, starts>>
    BY <1>9 DEF SubmitAgain, SubmitLive, Rouse
  <2> QED
    BY <1>1, <2>1, HistoryFrame
<1>10. CASE \/ ThreadTop \/ ThreadDue \/ (\E e \in due : Release(e)) \/ ThreadTimer \/ ReadLive \/ ReadSpool
            \/ ReadMemory \/ PostRefused \/ WaitStep \/ TimerRunsOut
            \/ (\E e \in waiting : FallsDue(e)) \/ Close \/ CloseEnds
  <2>1. UNCHANGED <<historyVars, faults, starts>>
    BY <1>10 DEF ThreadTop, ThreadDue, Release, ThreadTimer, ReadLive, ReadSpool, 
       ReadMemory, PostRefused, WaitStep, ThreadCheck, ThreadWakes, ThreadClears, TimerRunsOut, FallsDue,
       Close, CloseEnds
  <2> QED
    BY <1>1, <2>1, HistoryFrame
<1>11. CASE ReleaseOver \/ SaveRefused
  <2>1. unsaved' \in BOOLEAN /\ faults' \in 0..MaxFaults
    BY <1>2, <1>11, FaultType DEF ReleaseOver, SaveRefused, WriteRetryFile
  <2> QED
    BY <1>2, <1>11, <2>1 DEF ReleaseOver, SaveRefused, HistoryTypeOK
<1>12. CASE RetireSegment
  BY <1>2, <1>12, FaultType DEF RetireSegment, WritePointer, HistoryTypeOK, historyVars
<1>13. CASE SetAsideSegment
  <2>1. PtrSeg(spool) \in SegIds /\ spool.ptr[2] \in Nat
    BY <1>1, <1>13 DEF SetAsideSegment, PtrInSpool, PtrSeg, GoodSpool, SpoolType, Pointers
  <2>2. PointsIn(From(spool, PtrSeg(spool), spool.ptr[2])) \subseteq Points
    BY <1>1, <2>1, FromType, PointsInType
  <2> QED
    BY <1>2, <1>13, <2>2, FaultType DEF SetAsideSegment, HistoryTypeOK
<1>14. ASSUME tpc = "post" PROVE PointsAt(Group) \subseteq Points
  BY <1>1, <1>14, GroupOfChunk, PointsAtType DEF ChunkInv
<1>15. ASSUME tpc = "single" PROVE /\ single \in DOMAIN chunk /\ PointsAt({single}) \subseteq Points
                                   /\ PointsAt(Group) \subseteq Points
  <2>1. single \in DOMAIN chunk /\ Group \subseteq DOMAIN chunk
    BY <1>1, <1>15, GroupOfChunk DEF ChunkInv
  <2> QED
    BY <1>1, <2>1, PointsAtType
<1>16. CASE PostAccepted \/ DropUnconfigured
  BY <1>2, <1>14, <1>16 DEF PostAccepted, DropUnconfigured, HistoryTypeOK
<1>17. CASE PostUnanswered
  <2>1. db' \subseteq Points
    <3>1. CASE single = 0
      BY <1>2, <1>14, <1>15, <1>17, <3>1 DEF PostUnanswered
    <3>2. CASE single # 0
      <4>1. PointsAt({single}) \subseteq Points
        BY <1>1, <3>2, PointsAtType DEF ThreadTypeOK
      <4> QED
        BY <1>2, <1>17, <3>2, <4>1 DEF PostUnanswered
    <3> QED
      BY <3>1, <3>2
  <2> QED
    BY <1>2, <1>17, <2>1 DEF PostUnanswered, HistoryTypeOK
<1>18. CASE SingleAccepted
  BY <1>2, <1>15, <1>18 DEF SingleAccepted, HistoryTypeOK
<1>19. CASE SingleRefused
  <2>1. kind # "live" => chunk[single].e.p \in Points
    BY <1>1, <1>15, <1>19 DEF SingleRefused, ChunkInv, Entries
  <2>2. excused' \subseteq Points
    BY <1>2, <1>19, <2>1 DEF SingleRefused
  <2> QED
    BY <1>2, <1>15, <1>19, <2>2 DEF SingleRefused, HistoryTypeOK
<1>20. ASSUME NEW removed, PassGoesOn(removed) PROVE stuck' \in BOOLEAN
  BY <1>2, <1>20 DEF PassGoesOn
<1>21. CASE ConsumeLive \/ ConsumeMemory
  BY <1>2, <1>20, <1>21 DEF ConsumeLive, ConsumeMemory, HistoryTypeOK
<1>22. CASE ConsumeSpool
  <2>1. stuck' \in BOOLEAN /\ faults' \in 0..MaxFaults
    BY <1>2, <1>20, <1>22, FaultType DEF ConsumeSpool, WritePointer
  <2> QED
    BY <1>2, <1>22, <2>1 DEF ConsumeSpool, HistoryTypeOK
<1>23. CASE Start
  <2>1. starts' \in 0..MaxStarts
    BY <1>2, <1>23, WriterAssumption DEF Start
  <2>2. faults' \in 0..MaxFaults
    BY <1>2, <1>23, FaultType DEF Start, OpensSpool, OpensNoSpool
  <2> QED
    BY <1>2, <1>23, <2>1, <2>2 DEF Start, HistoryTypeOK, historyVars
<1>24. CASE Exit \/ Kill
  BY <1>1, <1>2, <1>24, VolatileType DEF Exit, Kill, ProcessEnds, HistoryTypeOK
<1> QED
  BY <1>4, <1>5, <1>6, <1>7, <1>8, <1>9, <1>10, <1>11, <1>12, <1>13, <1>16, <1>17, <1>18, <1>19, <1>21,
     <1>22, <1>23, <1>24
     DEF Next, AppendStep, CallerStep, ThreadStep, ReleaseStep, ReadStep, PostStep, ConsumeStep

-----------------------------------------------------------------------------
(* The invariant *)

(* The inductive invariant holds at the start.                               *)
LEMMA InitIInv ==
  ASSUME Init
  PROVE  IInv
<1>1. DiskInv
  <2>1. EmptySpool \in SpoolType /\ WellFormed(EmptySpool)
    <3>1. [g \in SegIds |-> <<>>] \in [SegIds -> Seq(Lines)] /\ [g \in SegIds |-> 0] \in [SegIds -> Nat]
      OBVIOUS
    <3>2. NoPtr \in Pointers /\ 0 \in 0..MaxSegments /\ 0 \in 0..MaxSegments + 1
      BY SpoolAssumption DEF NoPtr, Pointers
    <3>3. EmptySpool \in SpoolType
      BY <3>1, <3>2 DEF EmptySpool, SpoolType
    <3>4. \A g \in SegIds : EmptySpool.files[g] = <<>>
      BY DEF EmptySpool
    <3>5. ~EmptySpool.open /\ Len(<<>>) = 0
      BY DEF EmptySpool
    <3> QED
      BY <3>3, <3>4, <3>5 DEF WellFormed
  <2>2. NoPtr \in Pointers /\ EmptySpool.onDisk = {}
    BY SpoolAssumption DEF NoPtr, Pointers, EmptySpool
  <2> QED
    BY <2>1, <2>2 DEF Init, DiskInv, DiskTypeOK, SpoolInv
<1>2. QueueInv
  <2>1. memory \in [Workers -> Seq(Entries)] /\ live \in Seq(HeartbeatIds)
    BY DEF Init
  <2>2. lastLine \in [Workers -> 0..MaxPoints]
    BY SpoolAssumption DEF Init
  <2>3. QueueTypeOK
    BY <2>1, <2>2 DEF Init, QueueTypeOK
  <2>4. AppendInv
    BY WriterAssumption DEF Init, AppendInv
  <2>5. MemoryInv
    BY DEF Init, MemoryInv, MemoryEmpty
  <2> QED
    BY <2>3, <2>4, <2>5 DEF QueueInv
<1>3. ThreadInv
  <2>1. <<>> \in Seq(ChunkEntries) /\ DOMAIN <<>> = {}
    OBVIOUS
  <2>2. ThreadTypeOK
    BY <2>1 DEF Init, ThreadTypeOK, Pcs
  <2> QED
    BY <2>1, <2>2 DEF Init, ThreadInv, ChunkInv
<1>4. HistoryTypeOK
  <2>1. reading \in [Workers -> 0..MaxPoints]
    BY SpoolAssumption DEF Init
  <2>2. 0 \in 0..MaxFaults /\ 0 \in 0..MaxStarts
    BY WriterAssumption
  <2> QED
    BY <2>1, <2>2 DEF Init, HistoryTypeOK
<1> QED
  BY <1>1, <1>2, <1>3, <1>4 DEF IInv

(* Every step keeps the inductive invariant.                                 *)
LEMMA NextIInv ==
  ASSUME IInv, [Next]_vars
  PROVE  IInv'
<1>1. CASE Next
  BY <1>1, DiskStep, QueueTypeStep, AppendInvStep, MemoryInvStep, ThreadStepInv, HistoryStep DEF IInv, QueueInv
<1>2. CASE UNCHANGED vars
  <2>1. DiskInv' /\ HistoryTypeOK'
    BY <1>2, DiskFrame, HistoryFrame DEF IInv, vars, diskVars, queueVars
  <2>2. QueueInv'
    BY <1>2 DEF IInv, QueueInv, QueueTypeOK, AppendInv, MemoryInv, MemoryEmpty, vars, queueVars, appendVars,
       timerVars, threadVars
  <2>3. ThreadInv'
    BY <1>2 DEF IInv, ThreadInv, ThreadTypeOK, ChunkInv, vars, threadVars, chunkVars
  <2> QED
    BY <2>1, <2>2, <2>3 DEF IInv
<1> QED
  BY <1>1, <1>2

-----------------------------------------------------------------------------
(* The pointer *)

(* A chunk consumed from the spool leaves the pointer in it.                 *)
LEMMA SpoolAfterPointer ==
  ASSUME GoodSpool(spool), PointerInSpool, NEW end \in Pointers, SpoolAfter(end).segs # {}
  PROVE  PtrInSpool(SpoolAfter(end))
<1>1. spool \in SpoolType
  BY DEF GoodSpool
<1>2. CASE end[1] \notin spool.segs
  BY <1>2 DEF SpoolAfter, PointerInSpool
<1>3. CASE end[1] \in spool.segs /\ end[2] >= spool.size[end[1]] /\ end[1] # spool.cur
  BY <1>1, <1>3, RetiredPointer DEF SpoolAfter, PtrInSpool
<1>4. CASE end[1] \in spool.segs /\ ~(end[2] >= spool.size[end[1]] /\ end[1] # spool.cur)
  <2>1. SpoolAfter(end) = [spool EXCEPT !.ptr = end]
    BY <1>4 DEF SpoolAfter
  <2>2. SpoolAfter(end).ptr = end /\ SpoolAfter(end).segs = spool.segs
    BY <1>1, <2>1 DEF SpoolType
  <2> QED
    BY <1>4, <2>2 DEF PtrInSpool
<1> QED
  BY <1>2, <1>3, <1>4

(* Every step keeps the pointer in the spool.                                *)
LEMMA PointerStep ==
  ASSUME IInv, PointerInSpool, [Next]_vars
  PROVE  PointerInSpool'
<1> USE DEF PointerInSpool
<1>1. GoodSpool(spool) /\ stored \in Pointers /\ spool \in SpoolType
  BY DEF IInv, DiskInv, DiskTypeOK, SpoolInv, GoodSpool
<1>2. mode # "memory" => spool.onDisk \subseteq spool.segs
  BY DEF IInv, DiskInv, SpoolInv
<1>3. QueueTypeOK
  BY DEF IInv, QueueInv
<1>4. ASSUME NEW w \in Workers, MoveToSpool(w) PROVE PointerInSpool'
  <2>1. Head(memory[w]) \in Entries
    BY <1>3, <1>4 DEF QueueTypeOK, MoveToSpool
  <2>2. spool' = Wrote(spool, Head(memory[w])) /\ CanStart(spool) /\ mode # "memory"
    BY <1>4 DEF MoveToSpool
  <2> QED
    BY <1>1, <1>2, <2>1, <2>2, WrotePointer DEF PtrInSpool
<1>5. CASE WriteToSpool
  <2>1. adding \in Entries /\ spool' = Wrote(spool, adding) /\ CanStart(spool) /\ mode # "memory"
    BY <1>3, <1>5 DEF WriteToSpool, QueueTypeOK
  <2> QED
    BY <1>1, <1>2, <2>1, WrotePointer DEF PtrInSpool
<1>6. CASE AppendFails
  <2>1. PICK e : spool' \in FailedWrites(spool, e)
    BY <1>6 DEF AppendFails
  <2>2. CanStart(spool) /\ mode # "memory"
    BY <1>6 DEF AppendFails
  <2> QED
    BY <1>1, <1>2, <2>1, <2>2, FailedWritesPointer DEF PtrInSpool
<1>7. CASE UNCHANGED spool
  BY <1>7 DEF PtrInSpool
<1>8. CASE AppendToMemory \/ CallerStep \/ ThreadTop \/ ReleaseStep \/ ThreadTimer \/ ReadLive
           \/ ReadSpool \/ PostStep \/ SaveRefused \/ ConsumeLive \/ ConsumeMemory \/ WaitStep
  <2>1. UNCHANGED spool
    BY <1>8 DEF AppendToMemory, CallerStep, Submit, SubmitAgain, SubmitLive, Rouse, ThreadTop, ReleaseStep,
       ThreadDue, Release, ReleaseOver, ThreadTimer, ReadLive, ReadSpool, PostStep, PostAccepted,
       PostRefused, PostUnanswered, DropUnconfigured, SingleAccepted, SingleRefused, SaveRefused,
       ConsumeLive, ConsumeMemory, WaitStep, ThreadCheck, ThreadWakes, ThreadClears, diskVars
  <2> QED
    BY <1>7, <2>1
<1>9. CASE RetireSegment
  BY <1>1, <1>9, RetiredPointer DEF RetireSegment, PtrInSpool
<1>10. CASE SetAsideSegment
  <2>1. PICK g, rest, closed :
          /\ g = PtrSeg(spool) /\ rest = Retired(spool, g)
          /\ closed = Retired([spool EXCEPT !.open = FALSE], g)
    OBVIOUS
  <2>2. /\ CanStart(closed) /\ g \in SegIds
        /\ \/ g # spool.cur /\ spool' = rest
           \/ spool' = Started(closed)
           \/ spool' = AbandonSpool(closed)
    BY <1>1, <1>10, <2>1 DEF SetAsideSegment, PtrInSpool, PtrSeg, SpoolType
  <2>3. CASE spool' = rest
    BY <1>1, <2>1, <2>3, RetiredPointer DEF PtrInSpool
  <2>4. CASE spool' = Started(closed)
    <3>1. PICK t : t = [spool EXCEPT !.open = FALSE]
      OBVIOUS
    <3>2. GoodSpool(t) /\ ~t.open
      BY <1>1, <3>1, ClosedGood
    <3>3. closed \in SpoolType
      BY <2>1, <2>2, <3>1, <3>2, RetiredGood DEF GoodSpool
    <3> QED
      BY <2>2, <2>4, <3>3, StartedPointer DEF PtrInSpool
  <2>5. CASE spool' = AbandonSpool(closed)
    <3>1. PICK t : t = [spool EXCEPT !.open = FALSE]
      OBVIOUS
    <3>2. GoodSpool(t) /\ ~t.open
      BY <1>1, <3>1, ClosedGood
    <3>3. closed \in SpoolType
      BY <2>1, <2>2, <3>1, <3>2, RetiredGood DEF GoodSpool
    <3>4. spool'.segs = {}
      BY <2>5, <3>3 DEF AbandonSpool, SpoolType
    <3> QED
      BY <3>4
  <2> QED
    BY <2>2, <2>3, <2>4, <2>5
<1>11. CASE ReadMemory
  <2>1. spool' = SkipTorn(spool)
    BY <1>11 DEF ReadMemory
  <2>2. spool'.segs = spool.segs /\ spool'.ptr[1] = spool.ptr[1]
    BY <1>1, <2>1 DEF SkipTorn, SpoolType
  <2> QED
    BY <2>2 DEF PtrInSpool
<1>12. CASE ConsumeSpool
  <2>1. CASE Consumed = 0
    BY <1>7, <1>12, <2>1 DEF ConsumeSpool
  <2>2. CASE Consumed # 0
    <3>1. Consumed \in DOMAIN chunk /\ chunk \in Seq(ChunkEntries)
      BY <1>12, <2>2, ConsumedInChunk DEF ConsumeSpool, IInv, ThreadInv, ThreadTypeOK
    <3>2. chunk[Consumed] \in ChunkEntries
      BY <3>1
    <3>3. PICK end \in Pointers : end = chunk[Consumed].end
      BY <3>2 DEF ChunkEntries
    <3>4. spool' = SpoolAfter(end)
      BY <1>12, <2>2, <3>3 DEF ConsumeSpool
    <3> QED
      BY <1>1, <3>4, SpoolAfterPointer DEF PtrInSpool
  <2> QED
    BY <2>1, <2>2
<1>13. CASE TimerRunsOut \/ (\E e \in waiting : FallsDue(e)) \/ Close
  <2>1. UNCHANGED spool
    BY <1>13 DEF TimerRunsOut, FallsDue, Close, diskVars
  <2> QED
    BY <1>7, <2>1
<1>14. CASE CloseEnds
  <2>1. spool' = [spool EXCEPT !.open = FALSE]
    BY <1>14 DEF CloseEnds
  <2>2. spool'.segs = spool.segs /\ spool'.ptr = spool.ptr
    BY <1>1, <2>1 DEF SpoolType
  <2> QED
    BY <2>2 DEF PtrInSpool
<1>15. CASE Exit \/ Kill
  <2>1. PICK s \in CutShort(spool) : spool' = [AbandonSpool(s) EXCEPT !.stale = 0]
    BY <1>15 DEF Exit, Kill, ProcessEnds
  <2>2. GoodSpool(s)
    BY CutShortGood DEF IInv
  <2>3. spool'.segs = {}
    BY <2>1, <2>2 DEF AbandonSpool, GoodSpool, SpoolType
  <2> QED
    BY <2>3
<1>16. CASE Start
  <2>1. PICK s : s = Loaded(spool, stored)
    OBVIOUS
  <2>2. s \in SpoolType
    BY <1>1, <2>1, LoadedGood DEF GoodSpool
  <2>3. CASE spool' = Started(s) /\ CanStart(s)
    BY <2>2, <2>3, StartedPointer DEF PtrInSpool
  <2>4. CASE spool' = AbandonSpool(s)
    <3>1. spool'.segs = {}
      BY <2>2, <2>4 DEF AbandonSpool, SpoolType
    <3> QED
      BY <3>1
  <2>5. CASE OpensNoSpool
    BY <1>7, <2>5 DEF OpensNoSpool
  <2> QED
    BY <1>16, <2>1, <2>3, <2>4, <2>5 DEF Start, OpensSpool
<1>17. CASE UNCHANGED vars
  BY <1>7, <1>17 DEF vars, diskVars
<1> QED
  BY <1>4, <1>5, <1>6, <1>8, <1>9, <1>10, <1>11, <1>12, <1>13, <1>14, <1>15, <1>16, <1>17
     DEF Next, AppendStep, ThreadStep, ReadStep, ConsumeStep

-----------------------------------------------------------------------------
(* Queues, and the order of what is in them *)

(* A queue gives a worker's earlier readings first, but for those in R.      *)
InRow(q, R) ==
  \A k \in DOMAIN q : \A s \in Sooner(q[k].p) : s \in R \/ \E j \in 1..k - 1 : q[j].p = s

(* Less need come first.                                                     *)
LEMMA RowMore ==
  ASSUME NEW q, NEW R, InRow(q, R), NEW R2, R \subseteq R2
  PROVE  InRow(q, R2)
BY DEF InRow

(* Of a queue whose first entries are gone.                                  *)
LEMMA RowDropped ==
  ASSUME NEW S, NEW q \in Seq(S), NEW m \in 0..Len(q), NEW r \in Seq(S), Len(r) = Len(q) - m,
         \A j \in 1..Len(r) : r[j] = q[m + j]
  PROVE  /\ PointsIn(r) \subseteq PointsIn(q)
         /\ \A R, R2 : InRow(q, R) /\ R \subseteq R2 /\ (\A i \in 1..m : q[i].p \in R2) => InRow(r, R2)
<1>1. Len(q) \in Nat /\ Len(r) \in Nat /\ m \in Nat /\ DOMAIN q = 1..Len(q) /\ DOMAIN r = 1..Len(r)
  OBVIOUS
<1>2. \A j \in 1..Len(r) : m + j \in 1..Len(q)
  BY <1>1
<1>3. PointsIn(r) \subseteq PointsIn(q)
  BY <1>1, <1>2 DEF PointsIn
<1>4. ASSUME NEW R, NEW R2, InRow(q, R), R \subseteq R2, \A i \in 1..m : q[i].p \in R2
      PROVE  InRow(r, R2)
  <2>1. SUFFICES ASSUME NEW k \in 1..Len(r), NEW s \in Sooner(r[k].p), s \notin R2
                 PROVE  \E j \in 1..k - 1 : r[j].p = s
    BY <1>1 DEF InRow
  <2>2. m + k \in DOMAIN q /\ r[k] = q[m + k]
    BY <1>1, <1>2
  <2>3. PICK j \in 1..m + k - 1 : q[j].p = s
    BY <1>4, <2>1, <2>2 DEF InRow
  <2>4. ~(j \in 1..m)
    BY <1>4, <2>1, <2>3
  <2>5. PICK i \in Nat : i = j - m
    BY <1>1, <2>3, <2>4
  <2>6. i \in 1..k - 1 /\ i \in 1..Len(r) /\ m + i = j
    BY <1>1, <2>3, <2>4, <2>5
  <2> QED
    BY <2>3, <2>6
<1> QED
  BY <1>3, <1>4

(* Its first entry gone.                                                     *)
LEMMA RowTail ==
  ASSUME NEW S, NEW q \in Seq(S), q # <<>>
  PROVE  /\ PointsIn(Tail(q)) \subseteq PointsIn(q)
         /\ \A R, R2 : InRow(q, R) /\ R \subseteq R2 /\ Head(q).p \in R2 => InRow(Tail(q), R2)
<1>1. PICK m : m = 1
  OBVIOUS
<1>2. /\ m \in 0..Len(q) /\ Tail(q) \in Seq(S) /\ Len(Tail(q)) = Len(q) - m
      /\ \A j \in 1..Len(Tail(q)) : Tail(q)[j] = q[m + j]
  <2>1. Tail(q) \in Seq(S) /\ Len(q) \in Nat \ {0} /\ Len(Tail(q)) = Len(q) - 1
    OBVIOUS
  <2>2. \A j \in 1..Len(Tail(q)) : Tail(q)[j] = q[j + 1]
    OBVIOUS
  <2> QED
    BY <1>1, <2>1, <2>2
<1>3. Head(q) = q[1]
  OBVIOUS
<1>4. PICK r \in Seq(S) : r = Tail(q)
  BY <1>2
<1>5. /\ PointsIn(r) \subseteq PointsIn(q)
      /\ \A R, R2 : InRow(q, R) /\ R \subseteq R2 /\ (\A i \in 1..m : q[i].p \in R2) => InRow(r, R2)
  BY <1>2, <1>4, RowDropped
<1> QED
  BY <1>1, <1>3, <1>4, <1>5

(* What is consumed of it gone.                                              *)
LEMMA RowDropFirst ==
  ASSUME NEW S, NEW q \in Seq(S), NEW n \in 0..Len(q)
  PROVE  /\ PointsIn(DropFirst(q, n)) \subseteq PointsIn(q)
         /\ \A p \in PointsIn(q) : p \in PointsIn(DropFirst(q, n)) \/ \E i \in 1..n : q[i].p = p
         /\ \A R, R2 : InRow(q, R) /\ R \subseteq R2 /\ (\A i \in 1..n : q[i].p \in R2)
                         => InRow(DropFirst(q, n), R2)
<1>1. PICK r \in Seq(S) : r = DropFirst(q, n)
  BY DropFirstFacts
<1>2. Len(r) = Len(q) - n /\ \A j \in 1..Len(r) : r[j] = q[n + j]
  <2>1. n \in Nat /\ n <= Len(q)
    OBVIOUS
  <2>2. Len(DropFirst(q, n)) = Len(q) - n /\ \A j \in 1..Len(q) - n : DropFirst(q, n)[j] = q[n + j]
    BY <2>1, DropFirstFacts
  <2> QED
    BY <1>1, <2>2
<1>3. /\ PointsIn(r) \subseteq PointsIn(q)
      /\ \A R, R2 : InRow(q, R) /\ R \subseteq R2 /\ (\A i \in 1..n : q[i].p \in R2) => InRow(r, R2)
  BY <1>2, RowDropped
<1>4. ASSUME NEW p \in PointsIn(q) PROVE p \in PointsIn(r) \/ \E i \in 1..n : q[i].p = p
  <2>1. PICK i \in 1..Len(q) : q[i].p = p
    BY <1>4 DEF PointsIn
  <2>2. CASE i <= n
    BY <2>1, <2>2
  <2>3. CASE i > n
    <3>1. PICK j \in Nat : j = i - n
      BY <2>1, <2>3
    <3>2. j \in 1..Len(r) /\ n + j = i /\ 1..Len(r) = DOMAIN r
      BY <1>2, <2>1, <2>3, <3>1
    <3> QED
      BY <1>2, <2>1, <3>2 DEF PointsIn
  <2> QED
    BY <2>1, <2>2, <2>3
<1> QED
  BY <1>1, <1>3, <1>4

(* An entry more, its worker's earlier readings being before it.             *)
LEMMA RowAppend ==
  ASSUME NEW S, NEW q \in Seq(S), NEW e \in S, NEW R, InRow(q, R),
         \A s \in Sooner(e.p) : s \in R \/ s \in PointsIn(q)
  PROVE  InRow(Append(q, e), R)
<1>1. PICK r : r = Append(q, e)
  OBVIOUS
<1>2. /\ Len(q) \in Nat /\ DOMAIN q = 1..Len(q) /\ DOMAIN r = 1..Len(q) + 1
      /\ r[Len(q) + 1] = e /\ \A i \in 1..Len(q) : r[i] = q[i]
  BY <1>1
<1>3. SUFFICES ASSUME NEW k \in 1..Len(q) + 1, NEW s \in Sooner(r[k].p), s \notin R
               PROVE  \E j \in 1..k - 1 : r[j].p = s
  BY <1>1, <1>2 DEF InRow
<1>4. CASE k = Len(q) + 1
  <2>1. PICK j \in 1..Len(q) : q[j].p = s
    BY <1>2, <1>3, <1>4 DEF PointsIn
  <2> QED
    BY <1>2, <1>4, <2>1
<1>5. CASE k # Len(q) + 1
  <2>1. k \in 1..Len(q) /\ r[k] = q[k]
    BY <1>2, <1>5
  <2>2. PICK j \in 1..k - 1 : q[j].p = s
    BY <1>2, <1>3, <2>1 DEF InRow
  <2>3. j \in 1..Len(q)
    BY <1>2, <2>1, <2>2
  <2> QED
    BY <1>2, <2>2, <2>3
<1> QED
  BY <1>4, <1>5

(* An entry more, of a queue of bounded length.                              *)
LEMMA RowPush ==
  ASSUME NEW q \in Seq(Entries), NEW e \in Entries, NEW R, InRow(q, R), NEW R2, R \subseteq R2,
         PushedOut(q) \subseteq R2, \A s \in Sooner(e.p) : s \in R2 \/ s \in PointsIn(q)
  PROVE  InRow(Push(q, e), R2)
<1>1. CASE Len(q) >= MemoryPoints
  <2>1. q # <<>>
    BY <1>1, WriterAssumption
  <2>2. Head(q).p \in R2
    BY <1>1 DEF PushedOut
  <2>3. Tail(q) \in Seq(Entries) /\ InRow(Tail(q), R2)
    BY <2>1, <2>2, RowTail
  <2>4. \A s \in Sooner(e.p) : s \in R2 \/ s \in PointsIn(Tail(q))
    BY <2>1, <2>2, TailPoints
  <2>5. InRow(Append(Tail(q), e), R2)
    BY <2>3, <2>4, RowAppend
  <2> QED
    BY <1>1, <2>5 DEF Push
<1>2. CASE ~(Len(q) >= MemoryPoints)
  <2>1. InRow(q, R2)
    BY RowMore
  <2>2. InRow(Append(q, e), R2)
    BY <2>1, RowAppend
  <2> QED
    BY <1>2, <2>2 DEF Push
<1> QED
  BY <1>1, <1>2

(* What is in it then.                                                       *)
LEMMA PushPoints ==
  ASSUME NEW q \in Seq(Entries), NEW e \in Entries
  PROVE  PointsIn(Push(q, e)) \subseteq PointsIn(q) \cup {e.p}
<1>1. ASSUME NEW r \in Seq(Entries) PROVE PointsIn(Append(r, e)) \subseteq PointsIn(r) \cup {e.p}
  <2>1. /\ Len(r) \in Nat /\ DOMAIN Append(r, e) = 1..Len(r) + 1 /\ DOMAIN r = 1..Len(r)
        /\ Append(r, e)[Len(r) + 1] = e /\ \A i \in 1..Len(r) : Append(r, e)[i] = r[i]
    OBVIOUS
  <2>2. \A i \in 1..Len(r) + 1 : i = Len(r) + 1 \/ i \in 1..Len(r)
    BY <2>1
  <2> QED
    BY <2>1, <2>2 DEF PointsIn
<1>2. CASE Len(q) >= MemoryPoints
  <2>1. q # <<>>
    BY <1>2, WriterAssumption
  <2>2. Tail(q) \in Seq(Entries) /\ PointsIn(Tail(q)) \subseteq PointsIn(q)
    BY <2>1, RowTail
  <2> QED
    BY <1>1, <1>2, <2>2 DEF Push
<1>3. CASE ~(Len(q) >= MemoryPoints)
  BY <1>1, <1>3 DEF Push
<1> QED
  BY <1>2, <1>3

-----------------------------------------------------------------------------
(* Nothing is forgotten: the second layer of the invariant *)

Posting == {"post", "single", "save", "consume"}

(* A spool in use has segments; a process that is down has nothing.          *)
LifeInv ==
  /\ mode # "memory" => spool.segs # {}
  /\ life = "down" =>
       spool.segs = {} /\ mode = "memory" /\ waiting = {} /\ dirty = FALSE /\ unsaved = FALSE

(* Where the pointers stand, of a spool in use and of one left behind.       *)
PosInv ==
  /\ spool.segs # {} => Aimed(spool, stored) /\ Newest(spool)
  /\ spool.segs = {} => Rested(spool, stored)

(* The chunk being posted stands behind the pointer.                         *)
ChunkAt ==
  /\ tpc \notin Posting => kind = "none" /\ chunk = <<>> /\ done = {}
  /\ kind = "spool" => spool.segs # {} /\ Placed(spool, chunk)

(* What the chunk has dealt with is stored, given up, or waits.              *)
DoneKept == kind # "live" => \A i \in done : chunk[i].e.p \in db \cup excused \cup Waiting

(* The retry file holds what waits, but while a chunk is being posted and    *)
(* where it could not be written.                                            *)
RetryInv ==
  /\ mode = "disk" /\ dirty = FALSE /\ unsaved = FALSE => waiting \subseteq retry
  /\ mode = "disk" /\ dirty = TRUE => tpc \in Posting \ {"consume"}

(* Each queue holds its own worker's readings.                               *)
OwnQueue == \A w \in Workers : \A p \in PointsIn(memory[w]) : p[1] = w

HeadOf(q) ==
  Len(chunk) - gone <= Len(q) /\ \A i \in 1..Len(chunk) - gone : q[i] = chunk[gone + i].e

(* Of a chunk of a memory queue, what is not gone stands at the queue's head. *)
MemoryChunk ==
  /\ kind # "memory" => gone = 0
  /\ kind = "memory" => chunk # <<>> /\ gone <= Len(chunk) /\ HeadOf(memory[chunk[1].e.p[1]])

Lying   == {p \in Points : Lies(spool, p)}
Kept    == {e.p : e \in retry}
OnSpool == IF spool.segs = {} THEN OnDisk ELSE Lying
Held    == db \cup excused \cup InMemory \cup Adding \cup OnSpool

(* Every point is held somewhere or waits, in this process or, while the     *)
(* disk takes the retry file, on disk.                                       *)
Found == Submitted \subseteq Held \cup Waiting
Saved == mode = "disk" /\ unsaved = FALSE => Submitted \subseteq Held \cup Kept

LossInv ==
  LifeInv /\ PosInv /\ ChunkAt /\ DoneKept /\ RetryInv /\ OwnQueue /\ MemoryChunk /\ Found /\ Saved

-----------------------------------------------------------------------------
(* Steps that leave every point where it is *)

Quiet ==
  /\ UNCHANGED <<spool, stored, retry, mode, waiting, dirty, memory, gone, adding, kind, chunk, done,
                 reading, db, excused, unsaved>>
  /\ life' = "down" <=> life = "down"
  /\ tpc' = tpc \/ (tpc \notin Posting /\ tpc' \notin Posting)

(* The thread between chunks, callers with nothing new, and time.            *)
QuietStep ==
  \/ ThreadTop \/ ThreadDue \/ ThreadTimer \/ WaitStep \/ TimerRunsOut \/ Close
  \/ (\E e \in waiting : FallsDue(e)) \/ UNCHANGED vars
  \/ \E w \in Workers : SubmitAgain(w) \/ Rouse(w) \/ \E h \in HeartbeatIds : SubmitLive(w, h)

(* They move no point.                                                       *)
LEMMA QuietSteps ==
  ASSUME QuietStep
  PROVE  Quiet
<1> USE DEF Quiet, QuietStep, Posting, diskVars, queueVars, appendVars, timerVars, threadVars, chunkVars, historyVars, Goto
<1>1. CASE ThreadTop \/ ThreadDue \/ ThreadTimer
  BY <1>1 DEF ThreadTop, ThreadDue, ThreadTimer
<1>2. CASE WaitStep
  BY <1>2 DEF WaitStep, ThreadCheck, ThreadWakes, ThreadClears
<1>3. CASE TimerRunsOut \/ Close \/ (\E e \in waiting : FallsDue(e)) \/ UNCHANGED vars
  BY <1>3 DEF TimerRunsOut, Close, FallsDue, vars
<1>4. CASE \E w \in Workers : SubmitAgain(w) \/ Rouse(w) \/ \E h \in HeartbeatIds : SubmitLive(w, h)
  BY <1>4 DEF SubmitAgain, Rouse, SubmitLive
<1> QED
  BY <1>1, <1>2, <1>3, <1>4

(* They keep the invariant.                                                  *)
LEMMA QuietKeeps ==
  ASSUME LossInv, Quiet
  PROVE  LossInv'
<1> USE DEF Quiet
<1>1. LifeInv'
  BY DEF LossInv, LifeInv
<1>2. PosInv'
  BY DEF LossInv, PosInv
<1>3. ChunkAt'
  BY DEF LossInv, ChunkAt
<1>4. DoneKept'
  BY DEF LossInv, DoneKept, Waiting
<1>5. RetryInv'
  BY DEF LossInv, RetryInv, Posting
<1>6. Held' = Held
  BY DEF Held, InMemory, Adding, OnSpool, OnDisk, Lying
<1>7. Submitted' = Submitted /\ Waiting' = Waiting /\ Kept' = Kept
  BY DEF Submitted, Waiting, Kept
<1>8. Found' /\ Saved'
  BY <1>6, <1>7 DEF LossInv, Found, Saved
<1>9. OwnQueue' /\ MemoryChunk'
  BY DEF LossInv, OwnQueue, MemoryChunk, HeadOf
<1> QED
  BY <1>1, <1>2, <1>3, <1>4, <1>5, <1>8, <1>9 DEF LossInv

-----------------------------------------------------------------------------
(* What each step makes of the spool *)

(* The facts of the first layer the steps use.                               *)
LEMMA SpoolFacts ==
  ASSUME IInv
  PROVE  /\ GoodSpool(spool) /\ spool \in SpoolType /\ stored \in Pointers /\ retry \subseteq Entries
         /\ spool.segs # {} => spool.onDisk \subseteq spool.segs
         /\ mode # "memory" => spool.onDisk \subseteq spool.segs
BY DEF IInv, DiskInv, DiskTypeOK, SpoolInv, GoodSpool

(* An entry is written.                                                      *)
LEMMA WriteStep ==
  ASSUME IInv, LifeInv, PosInv, mode # "memory", CanStart(spool), NEW e \in Entries,
         spool' = Wrote(spool, e), stored' = stored
  PROVE  /\ spool'.segs # {} /\ Aimed(spool', stored') /\ Newest(spool') /\ Follows(spool, spool')
         /\ \A p : Lies(spool, p) \/ p = e.p =>
              Lies(spool', p) \/ p \in EvictedPoints(Appended(spool, e))
<1>1. /\ GoodSpool(spool) /\ spool.onDisk \subseteq spool.segs /\ stored \in Pointers
      /\ Aimed(spool, stored) /\ Newest(spool) /\ spool.segs # {}
  BY SpoolFacts DEF LifeInv, PosInv
<1>2. PtrInSpool(spool)
  BY <1>1 DEF Aimed, PtrInSpool
<1>3. PtrInSpool(Wrote(spool, e))
  BY <1>1, <1>2, WrotePointer
<1>4. Follows(spool, Wrote(spool, e))
  BY <1>1, WroteFollows
<1>5. /\ Aimed(Wrote(spool, e), stored) /\ Newest(Wrote(spool, e))
      /\ \A p : Lies(spool, p) \/ p = e.p =>
           Lies(Wrote(spool, e), p) \/ p \in EvictedPoints(Appended(spool, e))
  BY <1>1, WroteAimed
<1> QED
  BY <1>3, <1>4, <1>5 DEF PtrInSpool

(* A write fails.                                                            *)
LEMMA FailStep ==
  ASSUME IInv, LifeInv, PosInv, mode # "memory", CanStart(spool), NEW e \in Entries,
         spool' \in FailedWrites(spool, e), stored' = stored
  PROVE  /\ spool'.segs # {} /\ Aimed(spool', stored') /\ Newest(spool') /\ Follows(spool, spool')
         /\ \A p : Lies(spool, p) => Lies(spool', p)
<1>1. /\ GoodSpool(spool) /\ spool.onDisk \subseteq spool.segs /\ stored \in Pointers
      /\ Aimed(spool, stored) /\ Newest(spool) /\ spool.segs # {}
  BY SpoolFacts DEF LifeInv, PosInv
<1>2. PICK f \in FailedWrites(spool, e) : f = spool'
  OBVIOUS
<1>3. Follows(spool, f)
  BY <1>1, FailedWritesFollows
<1>4. Aimed(f, stored) /\ Newest(f) /\ \A p : Lies(spool, p) => Lies(f, p)
  BY <1>1, FailedWritesAimed
<1>5. f.segs # {}
  <2>1. CASE f = StartFailed(spool)
    BY <1>1, <2>1 DEF StartFailed, GoodSpool, SpoolType
  <2>2. ASSUME NEW left, NEW counted, f = Abandoned(ReadyToWrite(spool), left, counted)
        PROVE  f.segs # {}
    <3>1. PICK t : t = ReadyToWrite(spool)
      OBVIOUS
    <3>2. t \in SpoolType /\ t.open /\ WellFormed(t)
      BY <1>1, <3>1, ReadyGood DEF GoodSpool
    <3>3. t.segs # {}
      BY <3>2 DEF WellFormed
    <3>4. f.segs = t.segs
      BY <2>2, <3>1, <3>2 DEF Abandoned, SpoolType
    <3> QED
      BY <3>3, <3>4
  <2> QED
    BY <2>1, <2>2 DEF FailedWrites
<1> QED
  BY <1>2, <1>3, <1>4, <1>5

(* A finished segment is retired.                                            *)
LEMMA RetireStep ==
  ASSUME IInv, PosInv, Finished(spool), NEW t, t = Retired(spool, PtrSeg(spool)),
         NEW at, at \in {stored, t.ptr}
  PROVE  /\ t.segs # {} /\ Aimed(t, at) /\ Newest(t)
         /\ \A p : Lies(spool, p) => Lies(t, p)
<1>1. GoodSpool(spool) /\ spool \in SpoolType /\ stored \in Pointers
  BY SpoolFacts
<1>2. PtrSeg(spool) \in spool.segs /\ PtrSeg(spool) \in SegIds /\ PtrSeg(spool) # spool.cur
  BY <1>1 DEF Finished, PtrInSpool, PtrSeg, SpoolType
<1>3. Aimed(spool, stored) /\ Newest(spool)
  BY <1>2 DEF PosInv
<1>4. /\ Aimed(t, stored) /\ Newest(t) /\ Aimed(t, t.ptr)
      /\ \A p : Lies(spool, p) => Lies(t, p)
  BY <1>1, <1>3, FinishedAimed
<1>5. spool.cur \in spool.segs /\ t.segs = spool.segs \ {PtrSeg(spool)}
  <2>1. spool.open => spool.cur # PtrSeg(spool)
    BY <1>2
  <2>2. Retired(spool, PtrSeg(spool)).segs = spool.segs \ {PtrSeg(spool)}
    BY <1>1, <1>2, <2>1, RetiredGood
  <2> QED
    BY <1>2, <1>3, <2>2 DEF Newest
<1> QED
  BY <1>2, <1>4, <1>5

(* The pointer goes past lines of the chunk only, all of them dealt with.    *)
LEMMA ConsumedPlaced ==
  ASSUME IInv, PosInv, ChunkAt, kind = "spool", Consumed # 0,
         NEW end, end = chunk[Consumed].end, NEW t, t = SpoolAfter(end)
  PROVE  /\ end[1] \notin spool.segs => t = spool
         /\ end[1] \in spool.segs =>
              /\ end \in Pointers /\ end[1] = spool.ptr[1] /\ spool.ptr[1] \in spool.segs
              /\ spool.ptr[2] <= end[2] /\ end[2] <= Len(spool.files[end[1]])
              /\ spool.ptr # end /\ t = Past(spool, end)
              /\ \A i \in spool.ptr[2] + 1 .. end[2] : \E k \in done : spool.files[end[1]][i] = chunk[k].e
<1>1. spool \in SpoolType
  BY SpoolFacts
<1>2. spool.segs # {} /\ Placed(spool, chunk)
  BY DEF ChunkAt
<1>3. ThreadTypeOK
  BY DEF IInv, ThreadInv
<1>4. Consumed \in DOMAIN chunk /\ Consumed \in Nat /\ 1..Consumed \subseteq done
  BY <1>3, ConsumedInChunk
<1>5. PICK c \in DOMAIN chunk : c = Consumed /\ c \in Nat
  BY <1>4
<1>6. PICK g \in Nat :
        /\ g <= spool.ptr[1] /\ \A i \in DOMAIN chunk : chunk[i].end[1] = g
        /\ g \in spool.segs =>
             \A i \in DOMAIN chunk : /\ chunk[i].end = <<spool.ptr[1], spool.ptr[2] + i>>
                                     /\ spool.ptr[2] + i <= Len(spool.files[spool.ptr[1]])
                                     /\ spool.files[spool.ptr[1]][spool.ptr[2] + i] = chunk[i].e
  BY <1>2 DEF Placed
<1>7. end[1] = g
  BY <1>5, <1>6
<1>8. CASE g \notin spool.segs
  BY <1>7, <1>8 DEF SpoolAfter
<1>9. CASE g \in spool.segs
  <2>1. /\ end = <<spool.ptr[1], spool.ptr[2] + c>>
        /\ spool.ptr[2] + c <= Len(spool.files[spool.ptr[1]])
    BY <1>5, <1>6, <1>9
  <2>2. spool.ptr \in Pointers /\ spool.ptr[2] \in Nat /\ spool.ptr[1] \in 0..MaxSegments + 1
    BY <1>1 DEF SpoolType, Pointers
  <2>3. end[1] = spool.ptr[1] /\ end[2] = spool.ptr[2] + c /\ end \in Pointers
    <3>1. spool.ptr[2] + c \in Nat
      BY <1>5, <2>2
    <3> QED
      BY <2>1, <2>2, <3>1 DEF Pointers
  <2>4. spool.ptr[1] \in spool.segs
    BY <1>7, <1>9, <2>3
  <2>5. t = Past(spool, end)
    BY <2>3, <2>4 DEF SpoolAfter, Past
  <2>6. spool.ptr[2] <= end[2] /\ end[2] <= Len(spool.files[end[1]]) /\ spool.ptr # end
    <3>1. c # 0 /\ spool.ptr[2] # end[2]
      BY <1>5, <2>2, <2>3
    <3> QED
      BY <1>5, <2>1, <2>2, <2>3, <3>1
  <2>7. ASSUME NEW i \in spool.ptr[2] + 1 .. end[2]
        PROVE  \E k \in done : spool.files[end[1]][i] = chunk[k].e
    <3>1. PICK k \in 1..c : spool.ptr[2] + k = i
      <4>1. i - spool.ptr[2] \in 1..c /\ spool.ptr[2] + (i - spool.ptr[2]) = i
        BY <1>5, <2>2, <2>3, <2>7
      <4> QED
        BY <4>1
    <3>2. k \in done
      BY <1>4, <1>5, <3>1
    <3>3. k \in DOMAIN chunk
      BY <1>3, <3>2 DEF ThreadTypeOK
    <3> QED
      BY <1>6, <1>9, <2>3, <3>1, <3>2, <3>3
  <2> QED
    BY <1>7, <1>9, <2>3, <2>4, <2>5, <2>6, <2>7
<1> QED
  BY <1>8, <1>9

(* Where the pointer goes for what is consumed of a chunk from the spool: it *)
(* passes only lines of the chunk that were dealt with.                      *)
LEMMA ConsumedAimed ==
  ASSUME IInv, PosInv, ChunkAt, DoneKept, kind = "spool", Consumed # 0,
         NEW end, end = chunk[Consumed].end, NEW t, t = SpoolAfter(end)
  PROVE  /\ t.segs # {} /\ Aimed(t, stored) /\ Newest(t)
         /\ end[1] \in spool.segs => Aimed(t, t.ptr)
         /\ end[1] \notin spool.segs => t = spool
         /\ \A p : Lies(spool, p) => Lies(t, p) \/ p \in db \cup excused \cup Waiting
<1>1. GoodSpool(spool) /\ spool \in SpoolType /\ stored \in Pointers
  BY SpoolFacts
<1>2. spool.segs # {} /\ Aimed(spool, stored) /\ Newest(spool)
  BY DEF ChunkAt, PosInv
<1>3. CASE end[1] \notin spool.segs
  <2>1. t = spool
    BY <1>3, ConsumedPlaced
  <2> QED
    BY <1>2, <1>3, <2>1
<1>4. CASE end[1] \in spool.segs
  <2>1. /\ end \in Pointers /\ end[1] = spool.ptr[1] /\ spool.ptr[1] \in spool.segs
        /\ spool.ptr[2] <= end[2] /\ end[2] <= Len(spool.files[end[1]])
        /\ t = Past(spool, end)
        /\ \A i \in spool.ptr[2] + 1 .. end[2] : \E k \in done : spool.files[end[1]][i] = chunk[k].e
    BY <1>4, ConsumedPlaced
  <2>2. /\ Aimed(t, stored) /\ Aimed(t, t.ptr) /\ Newest(t)
        /\ \A p : Lies(spool, p) =>
             \/ Lies(t, p)
             \/ \E i \in spool.ptr[2] + 1 .. end[2] :
                  spool.files[end[1]][i] # Torn /\ spool.files[end[1]][i].p = p
    BY <1>1, <1>2, <2>1, PastAimed
  <2>3. ASSUME NEW i \in spool.ptr[2] + 1 .. end[2]
        PROVE  spool.files[end[1]][i].p \in db \cup excused \cup Waiting
    BY <2>1, <2>3 DEF DoneKept
  <2>4. t.segs # {}
    <3>1. CASE end[2] >= spool.size[end[1]] /\ end[1] # spool.cur
      <4>1. end[1] \in SegIds /\ (spool.open => spool.cur # end[1])
        BY <1>1, <2>1, <3>1 DEF SpoolType
      <4>2. t.segs = spool.segs \ {end[1]}
        BY <1>1, <2>1, <3>1, <4>1, RetiredGood DEF Past
      <4>3. spool.cur \in spool.segs
        BY <1>2 DEF Newest
      <4> QED
        BY <3>1, <4>2, <4>3
    <3>2. CASE ~(end[2] >= spool.size[end[1]] /\ end[1] # spool.cur)
      <4>1. t = [spool EXCEPT !.ptr = end]
        BY <2>1, <3>2 DEF Past
      <4> QED
        BY <1>1, <1>2, <4>1 DEF SpoolType
    <3> QED
      BY <3>1, <3>2
  <2>5. \A p : Lies(spool, p) => Lies(t, p) \/ p \in db \cup excused \cup Waiting
    BY <2>2, <2>3
  <2> QED
    BY <1>4, <2>2, <2>4, <2>5
<1> QED
  BY <1>3, <1>4

(* A process that ends leaves a spool at rest, and in it all that lay there. *)
LEMMA LeftToRest ==
  ASSUME NEW s, GoodSpool(s), s.onDisk \subseteq s.segs, NEW at \in Pointers, Aimed(s, at),
         NEW t, t.onDisk = s.onDisk, t.files = s.files
  PROVE  Rested(t, at) /\ \A p : Lies(s, p) => p \in Recoverable(t, at)
<1>1. NonEmpty(t) = NonEmpty(s) /\ t.files = s.files
  BY DEF NonEmpty
<1>2. Recoverable(t, at) = Recoverable(s, at) /\ Rested(t, at) = Rested(s, at)
  BY <1>1, SameFiles
<1>3. Rested(s, at)
  BY AimedRests
<1>4. \A p : Lies(s, p) => p \in Recoverable(s, at)
  BY LiesRecoverable
<1> QED
  BY <1>2, <1>3, <1>4

(* What a start finds on disk lies in its spool.                             *)
LEMMA StartStep ==
  ASSUME IInv, PosInv, spool.segs = {}, NEW s, s = Loaded(spool, stored), CanStart(s)
  PROVE  /\ Started(s).segs # {} /\ Aimed(Started(s), stored) /\ Newest(Started(s))
         /\ \A p \in Recoverable(spool, stored) : Lies(Started(s), p)
<1>1. GoodSpool(spool) /\ stored \in Pointers /\ Rested(spool, stored)
  BY SpoolFacts DEF PosInv
<1>2. GoodSpool(s) /\ s.onDisk \subseteq s.segs
  BY <1>1, LoadedGood
<1>3. Aimed(s, stored) /\ \A p \in Recoverable(spool, stored) : Lies(s, p)
  BY <1>1, LoadedAimed
<1>4. /\ Aimed(Started(s), stored) /\ Newest(Started(s))
      /\ \A p : Lies(s, p) => Lies(Started(s), p)
  BY <1>1, <1>2, <1>3, StartedAimed
<1>5. Started(s).segs # {}
  BY <1>2, StartedGood
<1> QED
  BY <1>3, <1>4, <1>5

(* A start that gives the spool up leaves it as it found it.                 *)
LEMMA GivenUpStart ==
  ASSUME IInv, PosInv, spool.segs = {}, spool' = AbandonSpool(Loaded(spool, stored)), stored' = stored
  PROVE  /\ spool'.segs = {} /\ Rested(spool', stored')
         /\ Recoverable(spool', stored') = Recoverable(spool, stored)
<1>1. PICK s : s = Loaded(spool, stored)
  OBVIOUS
<1>2. s.onDisk = NonEmpty(spool) /\ s.files = spool.files
  BY <1>1 DEF Loaded
<1>3. GoodSpool(spool) /\ stored \in Pointers
  BY SpoolFacts
<1>4. s \in SpoolType
  BY <1>1, <1>3, LoadedGood DEF GoodSpool
<1>5. spool'.onDisk = s.onDisk /\ spool'.files = s.files /\ spool'.segs = {}
  BY <1>1, <1>4 DEF AbandonSpool, SpoolType
<1>6. NonEmpty(spool') = NonEmpty(spool) /\ spool'.files = spool.files
  BY <1>2, <1>5 DEF NonEmpty
<1>7. Recoverable(spool', stored) = Recoverable(spool, stored) /\ Rested(spool', stored) = Rested(spool, stored)
  <2>1. PICK u : u = spool'
    OBVIOUS
  <2> QED
    BY <1>6, <2>1, SameFiles
<1> QED
  BY <1>5, <1>7 DEF PosInv

(* A segment set aside: the spool without it.                                *)
LEMMA AsideClosed ==
  ASSUME IInv, PosInv, SetAsideSegment
  PROVE  LET g == PtrSeg(spool)
             t == [spool EXCEPT !.open = FALSE]
             closed == Retired(t, g)
         IN /\ \/ g # spool.cur /\ spool' = Retired(spool, g)
               \/ g = spool.cur /\ spool' = Started(closed)
               \/ g = spool.cur /\ spool' = AbandonSpool(closed) /\ mode' = "memory"
            /\ g = spool.ptr[1] /\ g \in spool.segs /\ g \in SegIds
            /\ Aimed(spool, stored) /\ Newest(spool) /\ spool.onDisk \subseteq spool.segs
            /\ \A p : LiesIn(spool, g, p) => p \in excused'
            /\ GoodSpool(t) /\ t.segs = spool.segs /\ t.ptr = spool.ptr /\ t.files = spool.files /\ t.size = spool.size
            /\ GoodSpool(closed) /\ closed.onDisk \subseteq closed.segs /\ CanStart(closed)
            /\ stored' \in Pointers /\ Aimed(closed, stored')
            /\ \A p : Lies(spool, p) => Lies(closed, p) \/ p \in excused'
<1>1. GoodSpool(spool) /\ spool \in SpoolType /\ stored \in Pointers
  BY SpoolFacts
<1>2. PICK g, rest, t, closed :
        /\ g = PtrSeg(spool) /\ rest = Retired(spool, g)
        /\ t = [spool EXCEPT !.open = FALSE] /\ closed = Retired(t, g)
  OBVIOUS
<1>3. /\ PtrInSpool(spool) /\ CanStart(closed)
      /\ \/ g # spool.cur /\ spool' = rest
         \/ g = spool.cur /\ spool' = Started(closed)
         \/ g = spool.cur /\ spool' = AbandonSpool(closed) /\ mode' = "memory"
      /\ stored' \in {stored, rest.ptr}
      /\ excused' = excused \cup PointsIn(From(spool, g, spool.ptr[2]))
  BY <1>2 DEF SetAsideSegment
<1>4. g = spool.ptr[1] /\ g \in spool.segs /\ g \in SegIds /\ spool.ptr[2] \in Nat
  BY <1>1, <1>2, <1>3 DEF PtrInSpool, PtrSeg, SpoolType, Pointers
<1>5. Aimed(spool, stored) /\ Newest(spool) /\ spool.onDisk \subseteq spool.segs
  BY <1>4, SpoolFacts DEF PosInv
<1>6. \A p : LiesIn(spool, g, p) => p \in excused'
  <2>1. SUFFICES ASSUME NEW p, LiesIn(spool, g, p) PROVE p \in excused'
    OBVIOUS
  <2>2. PICK i \in 1..Len(spool.files[g]) :
          spool.files[g][i] # Torn /\ spool.files[g][i].p = p /\ i > spool.ptr[2]
    BY <1>4, <2>1 DEF LiesIn
  <2>3. spool.files[g][i].p \in PointsIn(From(spool, g, spool.ptr[2]))
    BY <1>1, <1>4, <2>2, FromPlaces
  <2> QED
    BY <1>3, <2>2, <2>3
<1>7. GoodSpool(t) /\ ~t.open /\ t.segs = spool.segs /\ t.onDisk = spool.onDisk
  BY <1>1, <1>2, ClosedGood
<1>8. t.ptr = spool.ptr /\ t.files = spool.files /\ t.size = spool.size /\ t.stale = spool.stale
  BY <1>1, <1>2 DEF SpoolType
<1>9. Aimed(t, stored) /\ \A p : Lies(spool, p) => Lies(t, p)
  BY <1>5, <1>7, <1>8 DEF Aimed, Lies, LiesIn
<1>10. \A p : LiesIn(t, g, p) => LiesIn(spool, g, p)
  BY <1>8 DEF LiesIn
<1>11. /\ Aimed(closed, stored) /\ Aimed(closed, closed.ptr)
       /\ \A p : Lies(t, p) => Lies(closed, p) \/ LiesIn(t, g, p)
  <2>1. g = t.ptr[1] /\ t.ptr[1] \in t.segs
    BY <1>4, <1>7, <1>8
  <2> QED
    BY <1>1, <1>2, <1>7, <1>9, <2>1, RetiredAimed
<1>12. GoodSpool(closed) /\ closed.onDisk \subseteq closed.segs /\ closed.ptr \in Pointers
  <2>1. t.open => t.cur # g
    BY <1>7
  <2>2. /\ GoodSpool(closed) /\ closed.ptr \in Pointers
        /\ closed.onDisk = t.onDisk \ {g} /\ closed.segs = t.segs \ {g}
    BY <1>2, <1>4, <1>7, <2>1, RetiredGood
  <2> QED
    BY <1>5, <1>7, <2>2
<1>13. rest.ptr = closed.ptr
  BY <1>1, <1>2, <1>7, <1>8 DEF Retired, WithoutPointer, SpoolType
<1>14. stored' \in Pointers /\ Aimed(closed, stored')
  BY <1>1, <1>3, <1>11, <1>12, <1>13
<1>15. \A p : Lies(spool, p) => Lies(closed, p) \/ p \in excused'
  BY <1>6, <1>9, <1>10, <1>11
<1> QED
  BY <1>2, <1>3, <1>4, <1>5, <1>6, <1>7, <1>8, <1>12, <1>14, <1>15

(* A segment set aside takes its unread points with it, which are given up,  *)
(* and no others: the rest lie on, or on disk where there is no new segment. *)
LEMMA AsideStep ==
  ASSUME IInv, PosInv, SetAsideSegment
  PROVE  /\ spool'.segs # {} => Aimed(spool', stored') /\ Newest(spool')
         /\ spool'.segs = {} => Rested(spool', stored') /\ mode' = "memory"
         /\ \A p : Lies(spool, p) =>
              \/ p \in excused'
              \/ spool'.segs # {} /\ Lies(spool', p)
              \/ spool'.segs = {} /\ p \in Recoverable(spool', stored')
<1>1. GoodSpool(spool)
  BY SpoolFacts
<1>2. PICK g, t, closed : g = PtrSeg(spool) /\ t = [spool EXCEPT !.open = FALSE] /\ closed = Retired(t, g)
  OBVIOUS
<1>3. /\ \/ g # spool.cur /\ spool' = Retired(spool, g)
         \/ g = spool.cur /\ spool' = Started(closed)
         \/ g = spool.cur /\ spool' = AbandonSpool(closed) /\ mode' = "memory"
      /\ g = spool.ptr[1] /\ g \in spool.segs /\ g \in SegIds
      /\ Aimed(spool, stored) /\ Newest(spool) /\ spool.onDisk \subseteq spool.segs
      /\ \A p : LiesIn(spool, g, p) => p \in excused'
      /\ GoodSpool(closed) /\ closed.onDisk \subseteq closed.segs /\ CanStart(closed)
      /\ stored' \in Pointers /\ Aimed(closed, stored')
      /\ \A p : Lies(spool, p) => Lies(closed, p) \/ p \in excused'
  BY <1>2, AsideClosed
<1>4. CASE g # spool.cur /\ spool' = Retired(spool, g)
  <2>1. PICK rest : rest = Retired(spool, g)
    OBVIOUS
  <2>2. /\ Aimed(rest, stored) /\ Aimed(rest, rest.ptr) /\ Newest(rest)
        /\ \A p : Lies(spool, p) => Lies(rest, p) \/ LiesIn(spool, g, p)
    BY <1>1, <1>3, <1>4, <2>1, RetiredAimed, SpoolFacts
  <2>3. rest.segs = spool.segs \ {g}
    BY <1>1, <1>3, <1>4, <2>1, RetiredGood
  <2>4. rest.segs # {}
    BY <1>3, <1>4, <2>3 DEF Newest
  <2>5. stored' \in {stored, rest.ptr}
    BY <1>2, <2>1 DEF SetAsideSegment
  <2> QED
    BY <1>3, <1>4, <2>1, <2>2, <2>4, <2>5
<1>5. CASE spool' = Started(closed)
  <2>1. /\ Aimed(Started(closed), stored') /\ Newest(Started(closed))
        /\ \A p : Lies(closed, p) => Lies(Started(closed), p)
    BY <1>3, StartedAimed
  <2>2. Started(closed).segs # {}
    BY <1>3, StartedGood
  <2> QED
    BY <1>3, <1>5, <2>1, <2>2
<1>6. CASE spool' = AbandonSpool(closed) /\ mode' = "memory"
  <2>1. PICK u : u = spool'
    OBVIOUS
  <2>2. u.onDisk = closed.onDisk /\ u.files = closed.files /\ u.segs = {}
    BY <1>3, <1>6, <2>1 DEF AbandonSpool, GoodSpool, SpoolType
  <2>3. Rested(u, stored') /\ \A p : Lies(closed, p) => p \in Recoverable(u, stored')
    BY <1>3, <2>2, LeftToRest
  <2> QED
    BY <1>3, <1>6, <2>1, <2>2, <2>3
<1> QED
  BY <1>3, <1>4, <1>5, <1>6

(* Nothing left to read but a line cut off: the pointer steps over it.       *)
LEMMA TornStep ==
  ASSUME IInv, PosInv, Exhausted(spool), spool' = SkipTorn(spool), stored' = stored
  PROVE  /\ spool'.segs = spool.segs
         /\ spool.segs # {} => Aimed(spool', stored') /\ Newest(spool')
         /\ spool.segs = {} => spool' = spool
         /\ \A p : Lies(spool, p) => Lies(spool', p)
<1>1. GoodSpool(spool) /\ stored \in Pointers
  BY SpoolFacts
<1>2. spool'.segs = spool.segs
  BY <1>1, SkipTornGood
<1>3. CASE spool.segs # {}
  <2>1. /\ Aimed(SkipTorn(spool), stored) /\ Newest(SkipTorn(spool))
        /\ \A p : Lies(spool, p) => Lies(SkipTorn(spool), p)
    BY <1>1, <1>3, SkipTornAimed DEF PosInv
  <2> QED
    BY <1>2, <1>3, <2>1
<1>4. CASE spool.segs = {}
  BY <1>2, <1>4 DEF SkipTorn, PtrInSpool
<1> QED
  BY <1>2, <1>3, <1>4

(* What a process that ends leaves of its spool, and how it came about.      *)
LEMMA CutShortFacts ==
  ASSUME IInv, LifeInv, PosInv, ChunkAt, DoneKept, NEW s \in CutShort(spool)
  PROVE  /\ \/ s = spool
            \/ mode # "memory" /\ spool.open /\ s = TornEnd(spool)
            \/ Finished(spool) /\ s = Retired(spool, PtrSeg(spool))
            \/ tpc = "consume" /\ kind = "spool" /\ Consumed # 0 /\ s = SpoolAfter(chunk[Consumed].end)
         /\ spool.segs = {} => s = spool
         /\ spool.segs # {} =>
              /\ Aimed(s, stored) /\ s.onDisk \subseteq s.segs
              /\ \A p : Lies(spool, p) => Lies(s, p) \/ (tpc = "consume" /\ p \in db \cup excused \cup Waiting)
<1>1. GoodSpool(spool) /\ spool \in SpoolType /\ stored \in Pointers
  BY SpoolFacts
<1>2. \/ s = spool
      \/ mode # "memory" /\ spool.open /\ s = TornEnd(spool)
      \/ Finished(spool) /\ s = Retired(spool, PtrSeg(spool))
      \/ tpc = "consume" /\ kind = "spool" /\ Consumed # 0 /\ s = SpoolAfter(chunk[Consumed].end)
  <2>1. Consumed > 0 => Consumed # 0
    OBVIOUS
  <2> QED
    BY <2>1 DEF CutShort, TornLine, TornEnd
<1>3. ASSUME spool.segs = {} PROVE s = spool
  <2>1. mode = "memory" /\ kind # "spool" /\ ~Finished(spool)
    BY <1>3 DEF LifeInv, ChunkAt, Finished, PtrInSpool
  <2> QED
    BY <1>2, <2>1
<1>4. ASSUME spool.segs # {}
      PROVE  /\ Aimed(s, stored) /\ s.onDisk \subseteq s.segs
             /\ \A p : Lies(spool, p) => Lies(s, p) \/ (tpc = "consume" /\ p \in db \cup excused \cup Waiting)
  <2>1. Aimed(spool, stored) /\ Newest(spool) /\ spool.onDisk \subseteq spool.segs
    BY <1>4, SpoolFacts DEF PosInv
  <2>2. CASE s = spool
    BY <2>1, <2>2
  <2>3. CASE spool.open /\ s = TornEnd(spool)
    BY <1>1, <2>1, <2>3, TornAimed
  <2>4. CASE Finished(spool) /\ s = Retired(spool, PtrSeg(spool))
    <3>1. Aimed(s, stored) /\ \A p : Lies(spool, p) => Lies(s, p)
      BY <2>4, RetireStep
    <3>2. s.onDisk \subseteq s.segs
      <4>1. PtrSeg(spool) \in SegIds /\ PtrSeg(spool) # spool.cur
        BY <1>1, <2>4 DEF Finished, PtrInSpool, PtrSeg, SpoolType
      <4>2. s.onDisk = spool.onDisk \ {PtrSeg(spool)} /\ s.segs = spool.segs \ {PtrSeg(spool)}
        BY <1>1, <2>4, <4>1, RetiredGood
      <4> QED
        BY <2>1, <4>2
    <3> QED
      BY <3>1, <3>2
  <2>5. CASE tpc = "consume" /\ kind = "spool" /\ Consumed # 0 /\ s = SpoolAfter(chunk[Consumed].end)
    <3>1. PICK end : end = chunk[Consumed].end
      OBVIOUS
    <3>2. /\ Aimed(s, stored)
          /\ \A p : Lies(spool, p) => Lies(s, p) \/ p \in db \cup excused \cup Waiting
      BY <2>5, <3>1, ConsumedAimed
    <3>3. Consumed \in DOMAIN chunk /\ chunk \in Seq(ChunkEntries)
      BY <2>5, ConsumedInChunk DEF IInv, ThreadInv, ThreadTypeOK
    <3>4. chunk[Consumed] \in ChunkEntries
      BY <3>3
    <3>5. end \in Pointers
      BY <3>1, <3>4 DEF ChunkEntries
    <3>6. s.onDisk \subseteq s.segs
      BY <1>1, <2>1, <2>5, <3>1, <3>5, SpoolAfterGood
    <3> QED
      BY <2>5, <3>2, <3>6
  <2> QED
    BY <1>2, <2>2, <2>3, <2>4, <2>5
<1> QED
  BY <1>2, <1>3, <1>4

(* What a kill or a close cuts short leaves a spool at rest, and in it all   *)
(* that lay there but what was dealt with.                                   *)
LEMMA EndStep ==
  ASSUME IInv, LifeInv, PosInv, ChunkAt, DoneKept, ProcessEnds
  PROVE  /\ spool'.segs = {} /\ Rested(spool', stored')
         /\ spool.segs = {} => Recoverable(spool', stored') = Recoverable(spool, stored)
         /\ \A p : spool.segs # {} /\ Lies(spool, p) =>
              \/ p \in Recoverable(spool', stored')
              \/ tpc = "consume" /\ p \in db \cup excused \cup Waiting
<1>1. GoodSpool(spool) /\ spool \in SpoolType /\ stored \in Pointers
  BY SpoolFacts
<1>2. PICK s \in CutShort(spool) : spool' = [AbandonSpool(s) EXCEPT !.stale = 0]
  BY DEF ProcessEnds
<1>3. stored' = stored
  BY DEF ProcessEnds
<1>4. GoodSpool(s)
  BY CutShortGood DEF IInv
<1>5. PICK u : u = spool'
  OBVIOUS
<1>6. u.onDisk = s.onDisk /\ u.files = s.files /\ u.segs = {}
  <2>1. PICK v : v = AbandonSpool(s)
    OBVIOUS
  <2>2. v.onDisk = s.onDisk /\ v.files = s.files /\ v.segs = {} /\ v \in SpoolType
    BY <1>4, <2>1, AbandonGood DEF AbandonSpool, GoodSpool, SpoolType
  <2>3. u = [v EXCEPT !.stale = 0]
    BY <1>2, <1>5, <2>1
  <2> QED
    BY <2>2, <2>3 DEF SpoolType
<1>7. CASE spool.segs = {}
  <2>1. s = spool
    BY <1>7, CutShortFacts
  <2>2. NonEmpty(u) = NonEmpty(spool) /\ u.files = spool.files
    BY <1>6, <2>1 DEF NonEmpty
  <2>3. Recoverable(u, stored) = Recoverable(spool, stored) /\ Rested(u, stored) = Rested(spool, stored)
    BY <2>2, SameFiles
  <2>4. Rested(spool, stored)
    BY <1>7 DEF PosInv
  <2> QED
    BY <1>3, <1>5, <1>6, <1>7, <2>3, <2>4
<1>8. CASE spool.segs # {}
  <2>1. /\ Aimed(s, stored) /\ s.onDisk \subseteq s.segs
        /\ \A p : Lies(spool, p) => Lies(s, p) \/ (tpc = "consume" /\ p \in db \cup excused \cup Waiting)
    BY <1>8, CutShortFacts
  <2>2. Rested(u, stored) /\ \A p : Lies(s, p) => p \in Recoverable(u, stored)
    BY <1>1, <1>4, <1>6, <2>1, LeftToRest
  <2> QED
    BY <1>3, <1>5, <1>6, <1>8, <2>1, <2>2
<1> QED
  BY <1>7, <1>8

-----------------------------------------------------------------------------
(* The steps, kind by kind *)

(* The steps that leave the spool, the stored pointer and the mode alone.    *)
InPlace ==
  \/ AppendToMemory \/ ReleaseOver \/ ReadLive \/ ReadSpool \/ PostStep \/ SaveRefused \/ ConsumeLive
  \/ ConsumeMemory \/ (\E e \in due : Release(e)) \/ \E w \in Workers : \E n \in 1..MaxPoints : Submit(w, n)

(* The steps that are not quiet.                                             *)
Moves ==
  \/ InPlace \/ AppendStep \/ RetireSegment \/ SetAsideSegment \/ ReadMemory \/ ConsumeSpool
  \/ CloseEnds \/ Exit \/ Kill \/ Start

(* Every step is one or the other.                                           *)
LEMMA QuietOrMoves ==
  ASSUME [Next]_vars
  PROVE  QuietStep \/ Moves
BY DEF QuietStep, Moves, InPlace, Next, AppendStep, CallerStep, ThreadStep, ReleaseStep, ReadStep, ConsumeStep

(* They are steps of a process that is up.                                   *)
LEMMA InPlaceSteps ==
  ASSUME IInv, InPlace
  PROVE  UNCHANGED <<spool, stored, mode, life>> /\ life # "down"
<1>1. life = "down" => tpc = "none" /\ adding = NoEntry /\ due = {}
  BY DEF IInv, QueueInv, AppendInv
<1> USE DEF diskVars, queueVars
<1>2. CASE AppendToMemory \/ ReleaseOver \/ ReadLive \/ ReadSpool
  BY <1>1, <1>2 DEF AppendToMemory, ReleaseOver, ReadLive, ReadSpool, AtSpool
<1>3. CASE PostStep
  BY <1>1, <1>3 DEF PostStep, PostAccepted, PostRefused, PostUnanswered, DropUnconfigured, SingleAccepted,
     SingleRefused
<1>4. CASE SaveRefused \/ ConsumeLive \/ ConsumeMemory
  BY <1>1, <1>4 DEF SaveRefused, ConsumeLive, ConsumeMemory
<1>5. CASE (\E e \in due : Release(e)) \/ \E w \in Workers : \E n \in 1..MaxPoints : Submit(w, n)
  BY <1>1, <1>5 DEF Release, Submit, CallerFree, Up
<1> QED
  BY <1>2, <1>3, <1>4, <1>5 DEF InPlace

(* An append that ends takes its entry, and only it, off the waiting ones,   *)
(* and then no chunk is being posted.                                        *)
LEMMA AppendOverFacts ==
  ASSUME IInv, AppendOver, adding # NoEntry
  PROVE  /\ adding' = NoEntry /\ waiting' \subseteq waiting /\ waiting \subseteq waiting' \cup {adding}
         /\ waiting' = waiting \/ tpc = "release"
<1>1. lock = Thread => tpc = "release"
  BY DEF IInv, QueueInv, AppendInv
<1> QED
  BY <1>1 DEF AppendOver

(* What every append has in common.                                          *)
LEMMA AppendFacts ==
  ASSUME IInv, LifeInv, PosInv, AppendStep
  PROVE  /\ adding \in Entries /\ adding # NoEntry /\ life # "down"
         /\ UNCHANGED <<stored, life, reading, db, kind, chunk, done, tpc>>
         /\ excused \subseteq excused' /\ waiting' \subseteq waiting
         /\ waiting \subseteq waiting' \cup {adding}
         /\ waiting' = waiting \/ tpc = "release"
         /\ mode # "memory" =>
              /\ spool'.segs # {} /\ Aimed(spool', stored') /\ Newest(spool') /\ Follows(spool, spool')
              /\ \A p : Lies(spool, p) => Lies(spool', p) \/ p \in excused'
         /\ mode = "memory" => UNCHANGED <<spool, mode>>
<1>1. QueueTypeOK
  BY DEF IInv, QueueInv
<1>2. adding # NoEntry /\ adding \in Entries /\ life # "down"
  BY <1>1 DEF AppendStep, MoveToSpool, WriteToSpool, AppendFails, AppendToMemory, QueueTypeOK, IInv,
     QueueInv, AppendInv
<1> USE DEF diskVars, queueVars, threadVars, chunkVars, historyVars
<1>3. ASSUME NEW w \in Workers, MoveToSpool(w)
      PROVE  /\ UNCHANGED <<stored, life, reading, db, kind, chunk, done, tpc, waiting>>
             /\ mode # "memory" /\ excused \subseteq excused'
             /\ spool'.segs # {} /\ Aimed(spool', stored') /\ Newest(spool') /\ Follows(spool, spool')
             /\ \A p : Lies(spool, p) => Lies(spool', p) \/ p \in excused'
  <2>1. PICK e \in Entries : e = Head(memory[w])
    BY <1>1, <1>3 DEF QueueTypeOK, MoveToSpool
  <2>2. /\ mode # "memory" /\ CanStart(spool) /\ spool' = Wrote(spool, e) /\ stored' = stored
        /\ excused' = excused \cup EvictedPoints(Appended(spool, e))
    BY <1>3, <2>1 DEF MoveToSpool
  <2>3. /\ spool'.segs # {} /\ Aimed(spool', stored') /\ Newest(spool') /\ Follows(spool, spool')
        /\ \A p : Lies(spool, p) \/ p = e.p =>
             Lies(spool', p) \/ p \in EvictedPoints(Appended(spool, e))
    BY <2>2, WriteStep
  <2> QED
    BY <1>3, <2>2, <2>3 DEF MoveToSpool
<1>4. ASSUME WriteToSpool
      PROVE  /\ UNCHANGED <<stored, life, reading, db, kind, chunk, done, tpc>>
             /\ mode # "memory" /\ excused \subseteq excused' /\ AppendOver
             /\ spool'.segs # {} /\ Aimed(spool', stored') /\ Newest(spool') /\ Follows(spool, spool')
             /\ \A p : Lies(spool, p) => Lies(spool', p) \/ p \in excused'
  <2>1. /\ mode # "memory" /\ CanStart(spool) /\ spool' = Wrote(spool, adding) /\ stored' = stored
        /\ excused' = excused \cup EvictedPoints(Appended(spool, adding))
    BY <1>4 DEF WriteToSpool
  <2>2. /\ spool'.segs # {} /\ Aimed(spool', stored') /\ Newest(spool') /\ Follows(spool, spool')
        /\ \A p : Lies(spool, p) \/ p = adding.p =>
             Lies(spool', p) \/ p \in EvictedPoints(Appended(spool, adding))
    BY <1>2, <2>1, WriteStep
  <2> QED
    BY <1>4, <2>1, <2>2 DEF WriteToSpool
<1>5. ASSUME AppendFails
      PROVE  /\ UNCHANGED <<stored, life, reading, db, kind, chunk, done, tpc>>
             /\ mode # "memory" /\ excused \subseteq excused' /\ AppendOver
             /\ spool'.segs # {} /\ Aimed(spool', stored') /\ Newest(spool') /\ Follows(spool, spool')
             /\ \A p : Lies(spool, p) => Lies(spool', p) \/ p \in excused'
  <2>1. PICK e \in Entries : spool' \in FailedWrites(spool, e)
    BY <1>1, <1>2, <1>5 DEF AppendFails, QueueTypeOK, MemoryEmpty
  <2>2. mode # "memory" /\ CanStart(spool) /\ stored' = stored /\ KeepInMemory
    BY <1>5 DEF AppendFails
  <2>3. /\ spool'.segs # {} /\ Aimed(spool', stored') /\ Newest(spool') /\ Follows(spool, spool')
        /\ \A p : Lies(spool, p) => Lies(spool', p)
    BY <2>1, <2>2, FailStep
  <2> QED
    BY <1>5, <2>2, <2>3 DEF AppendFails, KeepInMemory
<1>6. ASSUME AppendToMemory
      PROVE  /\ UNCHANGED <<stored, life, reading, db, kind, chunk, done, tpc, spool, mode>>
             /\ mode = "memory" /\ excused \subseteq excused' /\ AppendOver
  BY <1>6 DEF AppendToMemory, KeepInMemory
<1>7. CASE \E w \in Workers : MoveToSpool(w)
  BY <1>2, <1>3, <1>7
<1>8. CASE WriteToSpool
  <2>1. /\ waiting' \subseteq waiting /\ waiting \subseteq waiting' \cup {adding}
        /\ waiting' = waiting \/ tpc = "release"
    BY <1>2, <1>4, <1>8, AppendOverFacts
  <2> QED
    BY <1>2, <1>4, <1>8, <2>1
<1>9. CASE AppendFails
  <2>1. /\ waiting' \subseteq waiting /\ waiting \subseteq waiting' \cup {adding}
        /\ waiting' = waiting \/ tpc = "release"
    BY <1>2, <1>5, <1>9, AppendOverFacts
  <2> QED
    BY <1>2, <1>5, <1>9, <2>1
<1>10. CASE AppendToMemory
  <2>1. /\ waiting' \subseteq waiting /\ waiting \subseteq waiting' \cup {adding}
        /\ waiting' = waiting \/ tpc = "release"
    BY <1>2, <1>6, <1>10, AppendOverFacts
  <2> QED
    BY <1>2, <1>6, <1>10, <2>1
<1> QED
  BY <1>7, <1>8, <1>9, <1>10 DEF AppendStep

(* A chunk that ends, or never was, leaves nothing to place.                 *)
LEMMA NoChunkPlaced ==
  ASSUME EmptyChunk
  PROVE  ChunkAt' /\ DoneKept'
BY DEF EmptyChunk, ChunkAt, DoneKept

(* A chunk just read has nothing done.                                       *)
LEMMA NewChunkPlaced ==
  ASSUME NEW from, NEW c, NewChunk(from, c), from = "spool" => spool'.segs # {} /\ Placed(spool', c)
  PROVE  ChunkAt' /\ DoneKept'
BY DEF NewChunk, Goto, ChunkAt, DoneKept, Posting

-----------------------------------------------------------------------------
(* Where the pointers stand, step by step *)

(* A step moves no pointer to where it should not be.                        *)
LEMMA PlaceStep ==
  ASSUME IInv, LossInv, Moves
  PROVE  LifeInv' /\ PosInv'
<1>1. LifeInv /\ PosInv /\ ChunkAt /\ DoneKept
  BY DEF LossInv
<1>2. QueueTypeOK /\ AppendInv
  BY DEF IInv, QueueInv
<1>3. CASE InPlace
  BY <1>1, <1>3, InPlaceSteps DEF LifeInv, PosInv
<1>4. CASE AppendStep
  <2>1. CASE mode = "memory"
    BY <1>1, <1>4, <2>1, AppendFacts DEF LifeInv, PosInv
  <2>2. CASE mode # "memory"
    BY <1>1, <1>4, <2>2, AppendFacts DEF LifeInv, PosInv
  <2> QED
    BY <2>1, <2>2
<1>5. CASE RetireSegment
  <2>1. PICK t : t = Retired(spool, PtrSeg(spool))
    OBVIOUS
  <2>2. Finished(spool) /\ spool' = t /\ stored' \in {stored, t.ptr} /\ life # "down" /\ life' = life
    BY <1>2, <1>5, <2>1 DEF RetireSegment, WritePointer, AppendInv, AtSpool
  <2>3. spool'.segs # {} /\ Aimed(spool', stored') /\ Newest(spool')
    BY <1>1, <2>1, <2>2, RetireStep
  <2> QED
    BY <2>2, <2>3 DEF LifeInv, PosInv
<1>6. CASE SetAsideSegment
  <2>1. life # "down" /\ life' = life /\ (mode' = "memory" \/ mode' = mode)
    BY <1>2, <1>6 DEF SetAsideSegment, AppendInv, AtSpool
  <2>2. /\ spool'.segs # {} => Aimed(spool', stored') /\ Newest(spool')
        /\ spool'.segs = {} => Rested(spool', stored') /\ mode' = "memory"
    BY <1>1, <1>6, AsideStep
  <2> QED
    BY <2>1, <2>2 DEF LifeInv, PosInv
<1>7. CASE ReadMemory
  <2>1. /\ Exhausted(spool) /\ spool' = SkipTorn(spool) /\ stored' = stored /\ mode' = mode
        /\ life # "down" /\ life' = life
    BY <1>2, <1>7 DEF ReadMemory, AppendInv, AtSpool, queueVars
  <2>2. /\ spool'.segs = spool.segs
        /\ spool.segs # {} => Aimed(spool', stored') /\ Newest(spool')
        /\ spool.segs = {} => spool' = spool
    BY <1>1, <2>1, TornStep
  <2> QED
    BY <1>1, <2>1, <2>2 DEF LifeInv, PosInv
<1>8. CASE ConsumeSpool
  <2>1. life # "down" /\ life' = life /\ mode' = mode
    BY <1>2, <1>8 DEF ConsumeSpool, AppendInv, queueVars
  <2>2. CASE Consumed = 0
    <3>1. UNCHANGED <<spool, stored>>
      BY <1>8, <2>2 DEF ConsumeSpool
    <3> QED
      BY <1>1, <2>1, <3>1 DEF LifeInv, PosInv
  <2>3. CASE Consumed # 0
    <3>1. PICK end, t : end = chunk[Consumed].end /\ t = SpoolAfter(end)
      OBVIOUS
    <3>2. /\ kind = "spool" /\ spool' = t
          /\ IF end[1] \in spool.segs THEN stored' \in {stored, t.ptr} ELSE stored' = stored
      BY <1>8, <2>3, <3>1 DEF ConsumeSpool, WritePointer
    <3>3. /\ t.segs # {} /\ Aimed(t, stored) /\ Newest(t)
          /\ end[1] \in spool.segs => Aimed(t, t.ptr)
      BY <1>1, <2>3, <3>1, <3>2, ConsumedAimed
    <3> QED
      BY <2>1, <3>2, <3>3 DEF LifeInv, PosInv
  <2> QED
    BY <2>2, <2>3
<1>9. CASE CloseEnds
  <2>1. PICK t : t = [spool EXCEPT !.open = FALSE]
    OBVIOUS
  <2>2. spool' = t /\ stored' = stored /\ mode' = "memory" /\ life' = "stopped"
    BY <1>9, <2>1 DEF CloseEnds
  <2>3. /\ t.segs = spool.segs /\ t.ptr = spool.ptr /\ t.files = spool.files /\ t.stale = spool.stale
        /\ t.cur = spool.cur /\ ~t.open /\ t.onDisk = spool.onDisk
    BY <2>1, SpoolFacts DEF SpoolType
  <2>4. /\ spool.segs # {} => Aimed(t, stored) /\ Newest(t)
        /\ spool.segs = {} => Rested(t, stored)
    BY <1>1, <2>3 DEF PosInv, Aimed, Newest, Rested, NonEmpty
  <2> QED
    BY <2>2, <2>3, <2>4 DEF LifeInv, PosInv
<1>10. CASE Exit \/ Kill
  <2>1. ProcessEnds
    BY <1>10 DEF Exit, Kill
  <2>2. spool'.segs = {} /\ Rested(spool', stored')
    BY <1>1, <2>1, EndStep
  <2>3. mode' = "memory" /\ waiting' = {} /\ dirty' = FALSE /\ unsaved' = FALSE
    BY <2>1 DEF ProcessEnds
  <2> QED
    BY <2>2, <2>3 DEF LifeInv, PosInv
<1>11. CASE Start
  <2>1. PICK s : s = Loaded(spool, stored)
    OBVIOUS
  <2>2. spool.segs = {} /\ mode = "memory" /\ stored' = stored /\ life' = "running"
    BY <1>1, <1>11 DEF Start, LifeInv
  <2>3. CASE CanStart(s) /\ spool' = Started(s)
    BY <1>1, <2>1, <2>2, <2>3, StartStep DEF LifeInv, PosInv
  <2>4. CASE spool' = AbandonSpool(s) /\ mode' = "memory"
    BY <1>1, <2>1, <2>2, <2>4, GivenUpStart DEF LifeInv, PosInv
  <2>5. CASE UNCHANGED spool /\ mode' = "memory"
    BY <1>1, <2>2, <2>5 DEF LifeInv, PosInv
  <2> QED
    BY <1>11, <2>1, <2>3, <2>4, <2>5 DEF Start, OpensSpool, OpensNoSpool
<1> QED
  BY <1>3, <1>4, <1>5, <1>6, <1>7, <1>8, <1>9, <1>10, <1>11 DEF Moves

-----------------------------------------------------------------------------
(* The chunk and the retry file, step by step *)

(* A step of the thread that sends is a step of a chunk.                     *)
LEMMA PostFacts ==
  ASSUME IInv, PostStep
  PROVE  /\ UNCHANGED <<spool, stored, retry, mode, life, memory, adding, reading, kind, chunk, unsaved>>
         /\ tpc \in {"post", "single"} /\ tpc' \in {"post", "single", "save"}
         /\ db \subseteq db' /\ excused \subseteq excused' /\ waiting \subseteq waiting'
         /\ (waiting' = waiting /\ dirty' = dirty) \/ dirty' = TRUE
         /\ kind # "live" =>
              \A i \in done' : i \in done \/ (i \in DOMAIN chunk /\ chunk[i].e.p \in db' \cup excused' \cup Waiting')
<1>1. ThreadTypeOK /\ ChunkInv
  BY DEF IInv, ThreadInv
<1>2. Group \subseteq DOMAIN chunk
  <2>1. tpc \in {"post", "single"}
    BY DEF PostStep, PostAccepted, PostRefused, PostUnanswered, DropUnconfigured, SingleAccepted, SingleRefused
  <2>2. DOMAIN chunk \ tried # {}
    BY <1>1, <2>1 DEF ChunkInv
  <2> QED
    BY <1>1, <2>2, GroupOfChunk
<1> USE DEF diskVars, queueVars, appendVars, threadVars, chunkVars, historyVars
<1>3. ASSUME kind # "live", NEW I, NEW i \in I PROVE chunk[i].e.p \in PointsAt(I)
  BY <1>3 DEF PointsAt
<1>4. CASE PostAccepted
  <2>1. \A i \in done' : i \in done \/ i \in Group
    BY <1>4 DEF PostAccepted
  <2>2. tpc' \in {"post", "save"}
    BY <1>4 DEF PostAccepted, GroupOver, Goto
  <2> QED
    BY <1>2, <1>3, <1>4, <2>1, <2>2 DEF PostAccepted
<1>5. CASE DropUnconfigured
  <2>1. \A i \in done' : i \in done \/ i \in Group
    BY <1>5 DEF DropUnconfigured
  <2>2. tpc' \in {"post", "save"}
    BY <1>5 DEF DropUnconfigured, GroupOver, Goto
  <2> QED
    BY <1>2, <1>3, <1>5, <2>1, <2>2 DEF DropUnconfigured
<1>6. CASE PostRefused
  BY <1>6 DEF PostRefused, Goto
<1>7. CASE PostUnanswered
  BY <1>7 DEF PostUnanswered, Goto
<1>8. ASSUME NextSingle
      PROVE  /\ tpc' \in {tpc, "post", "save"}
             /\ \A i \in done' : i \in done \/ i = single
  BY <1>8 DEF NextSingle, GroupOver, Goto
<1>9. tpc = "single" => single \in DOMAIN chunk
  BY <1>1 DEF ChunkInv
<1>10. CASE SingleAccepted
  <2>1. tpc = "single" /\ NextSingle /\ db' = db \cup PointsAt({single})
    BY <1>10 DEF SingleAccepted
  <2>2. kind # "live" => chunk[single].e.p \in db'
    BY <1>3, <2>1
  <2> QED
    BY <1>8, <1>9, <1>10, <2>1, <2>2 DEF SingleAccepted
<1>11. CASE SingleRefused
  <2>1. PICK e : e = chunk[single].e
    OBVIOUS
  <2>2. /\ tpc = "single" /\ NextSingle /\ excused \subseteq excused' /\ waiting \subseteq waiting'
        /\ (waiting' = waiting /\ dirty' = dirty) \/ dirty' = TRUE
    BY <1>11 DEF SingleRefused
  <2>3. ASSUME kind # "live" PROVE e.p \in excused' \cup Waiting'
    <3>1. CASE GivesUpOn(e.r + 1)
      BY <1>11, <2>1, <2>3, <3>1 DEF SingleRefused
    <3>2. CASE ~GivesUpOn(e.r + 1)
      <4>1. PICK n : n = [e EXCEPT !.r = @ + 1]
        OBVIOUS
      <4>2. n \in waiting'
        BY <1>11, <2>1, <2>3, <3>2, <4>1 DEF SingleRefused
      <4>3. e \in Entries
        BY <1>1, <1>9, <2>1, <2>2, <2>3 DEF ChunkInv
      <4>4. n.p = e.p
        BY <4>1, <4>3 DEF Entries
      <4> QED
        BY <4>2, <4>4 DEF Waiting
    <3> QED
      BY <3>1, <3>2
  <2> QED
    BY <1>8, <1>9, <1>11, <2>1, <2>2, <2>3 DEF SingleRefused
<1> QED
  BY <1>4, <1>5, <1>6, <1>7, <1>10, <1>11 DEF PostStep

(* The chunk stays in its place, and what it has dealt with is kept.         *)
LEMMA ChunkStep ==
  ASSUME IInv, LossInv, Moves, IInv'
  PROVE  ChunkAt' /\ DoneKept'
<1>1. LifeInv /\ PosInv /\ ChunkAt /\ DoneKept
  BY DEF LossInv
<1>2. /\ spool \in SpoolType /\ spool' \in SpoolType /\ GoodSpool(spool)
      /\ AppendInv /\ ThreadTypeOK
  <2>1. spool' \in SpoolType
    BY DEF IInv, DiskInv, DiskTypeOK
  <2> QED
    BY <2>1, SpoolFacts DEF IInv, QueueInv, ThreadInv
<1> USE DEF diskVars, queueVars, appendVars, threadVars, chunkVars, historyVars
<1>3. ASSUME UNCHANGED <<kind, chunk, done, spool, db, excused, waiting>>,
             tpc' = tpc \/ tpc \notin Posting \/ tpc' \in Posting
      PROVE  ChunkAt' /\ DoneKept'
  BY <1>1, <1>3 DEF ChunkAt, DoneKept, Waiting
<1>4. CASE AppendStep
  <2>1. /\ UNCHANGED <<kind, chunk, done, tpc, db>> /\ excused \subseteq excused'
        /\ waiting' = waiting \/ tpc = "release"
        /\ mode # "memory" => Aimed(spool, stored) /\ spool'.segs # {} /\ Follows(spool, spool')
        /\ mode = "memory" => UNCHANGED spool
    BY <1>1, <1>4, AppendFacts DEF LifeInv, PosInv
  <2>2. DoneKept'
    <3>1. CASE waiting' = waiting
      BY <1>1, <2>1, <3>1 DEF DoneKept, Waiting
    <3>2. CASE tpc = "release"
      <4>1. done' = {}
        BY <1>1, <2>1, <3>2 DEF ChunkAt, Posting
      <4> QED
        BY <4>1 DEF DoneKept
    <3> QED
      BY <2>1, <3>1, <3>2
  <2>3. ASSUME kind' = "spool" PROVE spool'.segs # {} /\ Placed(spool', chunk')
    <3>1. spool.segs # {} /\ Placed(spool, chunk) /\ chunk' = chunk
      BY <1>1, <2>1, <2>3 DEF ChunkAt
    <3>2. CASE mode = "memory"
      BY <2>1, <3>1, <3>2
    <3>3. CASE mode # "memory"
      <4>1. spool.ptr[1] \in spool.segs
        BY <2>1, <3>1, <3>3 DEF Aimed
      <4>2. DOMAIN chunk \subseteq Nat \ {0}
        BY <1>2 DEF ThreadTypeOK
      <4>3. PICK s, t, c : s = spool /\ t = spool' /\ c = chunk
        OBVIOUS
      <4>4. s \in SpoolType /\ t \in SpoolType /\ s.ptr[1] \in s.segs /\ Follows(s, t) /\ Placed(s, c)
            /\ DOMAIN c \subseteq Nat \ {0}
        BY <1>2, <2>1, <3>1, <3>3, <4>1, <4>2, <4>3
      <4>5. Placed(t, c)
        BY <4>4, FollowsPlaced
      <4> QED
        BY <2>1, <3>1, <3>3, <4>3, <4>5
    <3> QED
      BY <3>2, <3>3
  <2> QED
    BY <1>1, <2>1, <2>2, <2>3 DEF ChunkAt
<1>5. CASE ReleaseOver \/ SaveRefused \/ \E e \in due : Release(e)
  <2>1. UNCHANGED <<kind, chunk, done, spool, db, excused, waiting>>
    BY <1>5 DEF ReleaseOver, SaveRefused, Release
  <2>2. tpc \notin Posting \/ tpc' \in Posting
    BY <1>5 DEF ReleaseOver, SaveRefused, Release, Goto, Posting
  <2> QED
    BY <1>3, <2>1, <2>2
<1>6. CASE \E w \in Workers : \E n \in 1..MaxPoints : Submit(w, n)
  <2>1. UNCHANGED <<kind, chunk, done, spool, db, excused, waiting, tpc>>
    BY <1>6 DEF Submit
  <2> QED
    BY <1>3, <2>1
<1>7. CASE ReadLive
  <2>1. (\E c : NewChunk("live", c)) \/ EmptyChunk
    BY <1>7 DEF ReadLive, Idle
  <2>2. ASSUME NEW c, NewChunk("live", c) PROVE ChunkAt' /\ DoneKept'
    <3>1. PICK from : from = "live"
      OBVIOUS
    <3>2. NewChunk(from, c) /\ from # "spool"
      BY <2>2, <3>1
    <3> QED
      BY <3>2, NewChunkPlaced
  <2> QED
    BY <2>1, <2>2, NoChunkPlaced
<1>8. CASE ReadSpool
  <2>1. PICK c : c = SpoolChunk(spool)
    OBVIOUS
  <2>2. NewChunk("spool", c) /\ spool' = spool /\ Readable(spool)
    BY <1>8, <2>1 DEF ReadSpool
  <2>3. PtrInSpool(spool) /\ spool.segs # {} /\ spool.ptr[1] \in Nat
    BY <1>2, <2>2 DEF Readable, PtrInSpool, SpoolType, Pointers
  <2>4. \A i \in DOMAIN c : /\ c[i].end = <<spool.ptr[1], spool.ptr[2] + i>>
                            /\ spool.ptr[2] + i <= Len(spool.files[spool.ptr[1]])
                            /\ spool.files[spool.ptr[1]][spool.ptr[2] + i] = c[i].e
    BY <1>2, <2>1, <2>3, ChunkPlaces
  <2>5. \A i \in DOMAIN c : c[i].end[1] = spool.ptr[1]
    BY <2>4
  <2>6. Placed(spool, c)
    BY <2>3, <2>4, <2>5 DEF Placed
  <2> QED
    BY <2>2, <2>3, <2>6, NewChunkPlaced
<1>9. CASE ReadMemory
  <2>1. (\E c : NewChunk("memory", c)) \/ EmptyChunk
    BY <1>9 DEF ReadMemory, Idle
  <2>2. ASSUME NEW c, NewChunk("memory", c) PROVE ChunkAt' /\ DoneKept'
    <3>1. PICK from : from = "memory"
      OBVIOUS
    <3>2. NewChunk(from, c) /\ from # "spool"
      BY <2>2, <3>1
    <3> QED
      BY <3>2, NewChunkPlaced
  <2> QED
    BY <2>1, <2>2, NoChunkPlaced
<1>10. CASE RetireSegment \/ SetAsideSegment
  <2>1. UNCHANGED <<kind, chunk, done, tpc>> /\ tpc = "read"
    BY <1>10 DEF RetireSegment, SetAsideSegment, AtSpool
  <2>2. kind = "none" /\ chunk = <<>> /\ done = {}
    BY <1>1, <2>1 DEF ChunkAt, Posting
  <2> QED
    BY <2>1, <2>2 DEF ChunkAt, DoneKept
<1>11. CASE PostStep
  <2>1. ChunkAt'
    BY <1>1, <1>11, PostFacts DEF ChunkAt, Posting
  <2>2. ASSUME kind' # "live", NEW i \in done' PROVE chunk'[i].e.p \in db' \cup excused' \cup Waiting'
    <3>1. Waiting \subseteq Waiting'
      BY <1>11, PostFacts DEF Waiting
    <3>2. i \in done => chunk[i].e.p \in db \cup excused \cup Waiting
      BY <1>1, <1>11, <2>2, PostFacts DEF DoneKept
    <3> QED
      BY <1>11, <2>2, <3>1, <3>2, PostFacts
  <2> QED
    BY <2>1, <2>2 DEF DoneKept
<1>12. CASE ConsumeLive \/ ConsumeMemory \/ ConsumeSpool \/ Exit \/ Kill
  <2>1. EmptyChunk
    BY <1>12 DEF ConsumeLive, ConsumeMemory, ConsumeSpool, PassGoesOn, Exit, Kill, ProcessEnds, NoThread
  <2> QED
    BY <2>1, NoChunkPlaced
<1>13. CASE AppendToMemory
  BY <1>4, <1>13 DEF AppendStep
<1>14. CASE CloseEnds
  <2>1. UNCHANGED <<kind, chunk, done, tpc, db, excused, waiting>> /\ spool' = [spool EXCEPT !.open = FALSE]
    BY <1>14 DEF CloseEnds
  <2>2. spool'.segs = spool.segs /\ spool'.ptr = spool.ptr /\ spool'.files = spool.files
    BY <1>2, <2>1 DEF SpoolType
  <2>3. Placed(spool', chunk) = Placed(spool, chunk)
    BY <2>2 DEF Placed
  <2> QED
    BY <1>1, <2>1, <2>2, <2>3 DEF ChunkAt, DoneKept, Waiting
<1>15. CASE Start
  <2>1. UNCHANGED <<kind, chunk, done, tpc>> /\ tpc = "none"
    BY <1>2, <1>15 DEF Start, AppendInv
  <2>2. kind = "none" /\ chunk = <<>> /\ done = {}
    BY <1>1, <2>1 DEF ChunkAt, Posting
  <2> QED
    BY <2>1, <2>2 DEF ChunkAt, DoneKept
<1> QED
  BY <1>4, <1>5, <1>6, <1>7, <1>8, <1>9, <1>10, <1>11, <1>12, <1>13, <1>14, <1>15 DEF Moves, InPlace

(* What writing the retry file comes to.                                     *)
LEMMA RetryWritten ==
  ASSUME NEW m, NEW w, NEW d, WriteRetryFile(m, w, d)
  PROVE  /\ m = "disk" /\ d = TRUE => dirty' = FALSE /\ (unsaved' = FALSE => retry' = w)
         /\ ~(m = "disk" /\ d = TRUE) => dirty' = d /\ UNCHANGED <<retry, unsaved>>
BY DEF WriteRetryFile

(* The retry file holds what waits whenever the spool moves on.              *)
LEMMA RetryStep ==
  ASSUME IInv, LossInv, Moves
  PROVE  RetryInv'
<1>1. LifeInv /\ PosInv /\ ChunkAt /\ DoneKept /\ RetryInv
  BY DEF LossInv
<1>2. AppendInv /\ dirty \in BOOLEAN /\ unsaved \in BOOLEAN
  BY DEF IInv, QueueInv, QueueTypeOK, HistoryTypeOK
<1> USE DEF diskVars, queueVars, appendVars, threadVars, chunkVars, historyVars
<1>3. ASSUME UNCHANGED <<retry, waiting, dirty, unsaved, mode>>,
             tpc' = tpc \/ tpc \notin Posting \ {"consume"} \/ tpc' \in Posting \ {"consume"}
      PROVE  RetryInv'
  BY <1>1, <1>3 DEF RetryInv
<1>4. CASE AppendToMemory \/ CloseEnds \/ Exit \/ Kill
  <2>1. mode' # "disk"
    BY <1>4 DEF AppendToMemory, CloseEnds, Exit, Kill, ProcessEnds
  <2> QED
    BY <2>1 DEF RetryInv
<1>5. CASE AppendFails
  <2>1. mode' # "disk"
    BY <1>5 DEF AppendFails
  <2> QED
    BY <2>1 DEF RetryInv
<1>6. CASE \E w \in Workers : MoveToSpool(w)
  <2>1. UNCHANGED <<retry, waiting, dirty, unsaved, mode, tpc>>
    BY <1>6 DEF MoveToSpool
  <2> QED
    BY <1>3, <2>1
<1>7. CASE WriteToSpool
  <2>1. waiting' \subseteq waiting /\ tpc' = tpc
    BY <1>1, <1>7, AppendFacts DEF AppendStep
  <2>2. CASE mode = "failed"
    <3>1. PICK m, d : m = "disk" /\ d = TRUE
      OBVIOUS
    <3>2. WriteRetryFile(m, waiting, d)
      BY <1>7, <2>2, <3>1 DEF WriteToSpool
    <3>3. dirty' = FALSE /\ (unsaved' = FALSE => retry' = waiting)
      BY <3>1, <3>2, RetryWritten
    <3> QED
      BY <2>1, <3>3 DEF RetryInv
  <2>3. CASE mode = "disk"
    <3>1. UNCHANGED <<dirty, retry, unsaved>>
      BY <1>7, <2>3 DEF WriteToSpool
    <3> QED
      BY <1>1, <2>1, <2>3, <3>1 DEF RetryInv
  <2> QED
    BY <1>7, <2>2, <2>3 DEF WriteToSpool
<1>8. CASE ReleaseOver \/ SaveRefused
  <2>1. PICK d \in {TRUE, dirty} : WriteRetryFile(mode, waiting, d)
    BY <1>8 DEF ReleaseOver, SaveRefused
  <2>2. waiting' = waiting /\ mode' = mode
    BY <1>8 DEF ReleaseOver, SaveRefused
  <2>3. /\ mode = "disk" /\ d = TRUE => dirty' = FALSE /\ (unsaved' = FALSE => retry' = waiting)
        /\ ~(mode = "disk" /\ d = TRUE) => dirty' = d /\ UNCHANGED <<retry, unsaved>>
    BY <2>1, RetryWritten
  <2>4. CASE mode = "disk" /\ d = TRUE
    BY <2>2, <2>3, <2>4 DEF RetryInv
  <2>5. CASE mode # "disk"
    BY <2>2, <2>5 DEF RetryInv
  <2>6. CASE mode = "disk" /\ d # TRUE
    <3>1. dirty = FALSE /\ dirty' = FALSE /\ UNCHANGED <<retry, unsaved>>
      BY <1>2, <2>1, <2>3, <2>6
    <3> QED
      BY <1>1, <2>2, <3>1 DEF RetryInv
  <2> QED
    BY <2>4, <2>5, <2>6
<1>9. CASE PostStep
  <2>1. /\ UNCHANGED <<retry, mode, unsaved>> /\ tpc' \in {"post", "single", "save"}
        /\ (waiting' = waiting /\ dirty' = dirty) \/ dirty' = TRUE
    BY <1>9, PostFacts
  <2> QED
    BY <1>1, <2>1 DEF RetryInv, Posting
<1>10. CASE ReadLive \/ ReadSpool \/ ReadMemory \/ RetireSegment
  <2>1. UNCHANGED <<retry, waiting, dirty, unsaved, mode>> /\ tpc = "read"
    BY <1>10 DEF ReadLive, ReadSpool, ReadMemory, RetireSegment, AtSpool
  <2> QED
    BY <1>3, <2>1 DEF Posting
<1>11. CASE SetAsideSegment
  <2>1. UNCHANGED <<retry, waiting, dirty, unsaved, tpc>> /\ (mode' = mode \/ mode' = "memory")
    BY <1>11 DEF SetAsideSegment
  <2> QED
    BY <1>1, <1>3, <1>11, <2>1 DEF RetryInv, SetAsideSegment
<1>12. CASE ConsumeLive \/ ConsumeMemory \/ ConsumeSpool
  <2>1. UNCHANGED <<retry, waiting, dirty, unsaved, mode>> /\ tpc = "consume"
    BY <1>12 DEF ConsumeLive, ConsumeMemory, ConsumeSpool
  <2> QED
    BY <1>3, <2>1
<1>13. CASE (\E e \in due : Release(e)) \/ \E w \in Workers : \E n \in 1..MaxPoints : Submit(w, n)
  <2>1. UNCHANGED <<retry, waiting, dirty, unsaved, mode, tpc>>
    BY <1>13 DEF Release, Submit
  <2> QED
    BY <1>3, <2>1
<1>14. CASE Start
  <2>1. dirty' = FALSE /\ UNCHANGED retry /\ (mode' = "disk" => waiting' = retry)
    BY <1>1, <1>14 DEF Start, OpensSpool, OpensNoSpool, LifeInv
  <2> QED
    BY <2>1 DEF RetryInv
<1> QED
  BY <1>4, <1>5, <1>6, <1>7, <1>8, <1>9, <1>10, <1>11, <1>12, <1>13, <1>14
     DEF Moves, InPlace, AppendStep

-----------------------------------------------------------------------------
(* The memory queues, and the chunks read from them *)

(* What a chunk of a memory queue takes out of it stands at its head and is  *)
(* consumed.                                                                 *)
LEMMA ConsumedFromQueue ==
  ASSUME IInv, MemoryChunk, ConsumeMemory
  PROVE  \E w \in Workers : \E n \in 0..Len(memory[w]) :
           /\ n = Removed /\ memory' = [memory EXCEPT ![w] = DropFirst(memory[w], n)]
           /\ \A i \in 1..n : memory[w][i] \in ConsumedEntries
<1>1. /\ ThreadTypeOK /\ QueueTypeOK /\ memory \in [Workers -> Seq(Entries)] /\ gone \in Nat
      /\ chunk \in Seq(ChunkEntries) /\ kind = "memory"
      /\ \A i \in DOMAIN chunk : chunk[i].e \in Entries
  BY DEF IInv, QueueInv, QueueTypeOK, ThreadInv, ThreadTypeOK, ChunkInv, ConsumeMemory
<1>2. PICK w : w = chunk[1].e.p[1]
  OBVIOUS
<1>3. PICK q : q = memory[w]
  OBVIOUS
<1>4. chunk # <<>> /\ gone <= Len(chunk) /\ HeadOf(q)
  BY <1>1, <1>2, <1>3 DEF MemoryChunk
<1>5. w \in Workers /\ q \in Seq(Entries)
  <2>1. 1 \in DOMAIN chunk
    BY <1>1, <1>4
  <2>2. w \in Workers
    BY <1>1, <1>2, <2>1 DEF Entries, Points
  <2> QED
    BY <1>1, <1>3, <2>2
<1>6. PICK n, c : n = Removed /\ c = Consumed
  OBVIOUS
<1>7. n \in Nat /\ c \in Nat /\ c <= Len(chunk) /\ n = IF c > gone THEN c - gone ELSE 0
  BY <1>1, <1>6, RemovedIsNat DEF Removed
<1>8. n \in 0..Len(q)
  BY <1>1, <1>4, <1>5, <1>7 DEF HeadOf
<1>9. ASSUME NEW i \in 1..n PROVE q[i] \in ConsumedEntries
  <2>1. i \in 1..Len(chunk) - gone /\ gone + i \in 1..c
    BY <1>1, <1>7, <1>9
  <2>2. q[i] = chunk[gone + i].e
    BY <1>4, <2>1 DEF HeadOf
  <2> QED
    BY <1>6, <2>1, <2>2 DEF ConsumedEntries
<1>10. memory' = [memory EXCEPT ![w] = DropFirst(memory[w], n)]
  BY <1>2, <1>6 DEF ConsumeMemory
<1> QED
  BY <1>3, <1>5, <1>6, <1>8, <1>9, <1>10

(* What a step makes of a queue.                                             *)
LEMMA QueueSteps ==
  ASSUME IInv, MemoryChunk, [Next]_vars, NEW w \in Workers
  PROVE  \/ memory'[w] = memory[w]
         \/ MoveToSpool(w) /\ memory[w] # <<>> /\ memory'[w] = Tail(memory[w])
         \/ /\ AppendFails \/ AppendToMemory
            /\ adding \in Entries /\ adding # NoEntry /\ adding.p[1] = w
            /\ memory'[w] = Push(memory[w], adding) /\ excused' = excused \cup PushedOut(memory[w])
         \/ /\ ConsumeMemory
            /\ \E n \in 0..Len(memory[w]) : /\ memory'[w] = DropFirst(memory[w], n)
                                             /\ \A i \in 1..n : memory[w][i] \in ConsumedEntries
         \/ ProcessEnds /\ memory'[w] = <<>>
<1>1. memory \in [Workers -> Seq(Entries)] /\ adding \in Entries \cup {NoEntry}
  BY DEF IInv, QueueInv, QueueTypeOK
<1> USE DEF queueVars
<1>2. CASE QuietStep
  BY <1>2, QuietSteps DEF Quiet
<1>3. ASSUME NEW v \in Workers, MoveToSpool(v)
      PROVE  memory'[w] = memory[w] \/ (v = w /\ memory[w] # <<>> /\ memory'[w] = Tail(memory[w]))
  BY <1>1, <1>3 DEF MoveToSpool
<1>4. CASE WriteToSpool
  BY <1>4 DEF WriteToSpool
<1>5. CASE AppendFails \/ AppendToMemory
  <2>1. KeepInMemory /\ adding # NoEntry /\ adding \in Entries
    BY <1>1, <1>5 DEF AppendFails, AppendToMemory
  <2>2. PICK v : v = adding.p[1]
    OBVIOUS
  <2>3. v \in Workers
    BY <2>1, <2>2 DEF Entries, Points
  <2>4. memory' = [memory EXCEPT ![v] = Push(memory[v], adding)] /\ excused' = excused \cup PushedOut(memory[v])
    BY <2>1, <2>2, <2>3, <1>1 DEF KeepInMemory
  <2> QED
    BY <1>1, <1>5, <2>1, <2>2, <2>3, <2>4
<1>6. CASE ConsumeMemory
  <2>1. PICK v \in Workers : \E n \in 0..Len(memory[v]) :
          /\ memory' = [memory EXCEPT ![v] = DropFirst(memory[v], n)]
          /\ \A i \in 1..n : memory[v][i] \in ConsumedEntries
    BY <1>6, ConsumedFromQueue
  <2>2. PICK n \in 0..Len(memory[v]) :
          /\ memory' = [memory EXCEPT ![v] = DropFirst(memory[v], n)]
          /\ \A i \in 1..n : memory[v][i] \in ConsumedEntries
    BY <2>1
  <2>3. CASE v = w
    BY <1>1, <1>6, <2>2, <2>3
  <2>4. CASE v # w
    BY <1>1, <2>2, <2>4
  <2> QED
    BY <2>3, <2>4
<1>7. CASE ReleaseOver \/ ReadLive \/ ReadSpool \/ SaveRefused \/ ConsumeLive \/ \E e \in due : Release(e)
  BY <1>7 DEF ReleaseOver, ReadLive, ReadSpool, SaveRefused, ConsumeLive, Release
<1>8. CASE PostStep
  BY <1>8, PostFacts
<1>9. CASE RetireSegment \/ SetAsideSegment \/ ReadMemory \/ ConsumeSpool \/ CloseEnds \/ Start
  BY <1>9 DEF RetireSegment, SetAsideSegment, ReadMemory, ConsumeSpool, CloseEnds, Start
<1>10. CASE \E v \in Workers : \E n \in 1..MaxPoints : Submit(v, n)
  BY <1>10 DEF Submit
<1>11. CASE Exit \/ Kill
  BY <1>11 DEF Exit, Kill, ProcessEnds
<1> QED
  BY <1>2, <1>3, <1>4, <1>5, <1>6, <1>7, <1>8, <1>9, <1>10, <1>11, QuietOrMoves DEF Moves, InPlace, AppendStep

(* Each queue keeps to its worker.                                           *)
LEMMA OwnQueueStep ==
  ASSUME IInv, OwnQueue, MemoryChunk, [Next]_vars
  PROVE  OwnQueue'
<1>1. SUFFICES ASSUME NEW w \in Workers, NEW p \in PointsIn(memory'[w]) PROVE p[1] = w
  BY DEF OwnQueue
<1>2. PICK q \in Seq(Entries) : q = memory[w]
  BY DEF IInv, QueueInv, QueueTypeOK
<1>3. \A s \in PointsIn(q) : s[1] = w
  BY <1>2 DEF OwnQueue
<1>4. CASE memory'[w] = memory[w]
  BY <1>1, <1>2, <1>3, <1>4
<1>5. CASE memory[w] # <<>> /\ memory'[w] = Tail(memory[w])
  BY <1>1, <1>2, <1>3, <1>5, RowTail
<1>6. CASE adding \in Entries /\ adding.p[1] = w /\ memory'[w] = Push(memory[w], adding)
  BY <1>1, <1>2, <1>3, <1>6, PushPoints
<1>7. CASE \E n \in 0..Len(memory[w]) : memory'[w] = DropFirst(memory[w], n)
  BY <1>1, <1>2, <1>3, <1>7, RowDropFirst
<1>8. CASE memory'[w] = <<>>
  BY <1>1, <1>8 DEF PointsIn
<1> QED
  BY <1>4, <1>5, <1>6, <1>7, <1>8, QueueSteps

(* What has not left its queue of a chunk stays at the queue's head.         *)
LEMMA MemoryChunkStep ==
  ASSUME IInv, LossInv, Moves
  PROVE  MemoryChunk'
<1>1. /\ memory \in [Workers -> Seq(Entries)] /\ gone \in Nat /\ chunk \in Seq(ChunkEntries)
      /\ adding \in Entries \cup {NoEntry}
      /\ (kind # "live" => \A i \in DOMAIN chunk : chunk[i].e \in Entries)
  BY DEF IInv, QueueInv, QueueTypeOK, ThreadInv, ThreadTypeOK, ChunkInv
<1>2. OwnQueue /\ MemoryChunk /\ (tpc \notin Posting => kind = "none")
  BY DEF LossInv, ChunkAt
<1> USE DEF diskVars, queueVars, threadVars, chunkVars
<1>3. CASE kind' # "memory" /\ gone' = 0
  BY <1>3 DEF MemoryChunk
<1>4. CASE UNCHANGED <<kind, chunk, gone, memory>>
  BY <1>2, <1>4 DEF MemoryChunk, HeadOf
<1>5. ASSUME NEW w \in Workers, NEW q \in Seq(Entries), q = memory[w], UNCHANGED <<kind, chunk>>,
             \A v \in Workers \ {w} : memory'[v] = memory[v],
             \/ /\ HeadGone(w) /\ q # <<>>
                /\ memory'[w] = Tail(q) \/ \E e \in Entries : memory'[w] = Append(Tail(q), e)
             \/ gone' = gone /\ \E e \in Entries : memory'[w] = Append(q, e)
      PROVE  MemoryChunk'
  <2>1. CASE kind # "memory"
    BY <1>2, <1>5, <2>1 DEF MemoryChunk, HeadGone
  <2>2. CASE kind = "memory"
    <3>1. PICK c : c = chunk[1].e.p[1]
      OBVIOUS
    <3>2. chunk # <<>> /\ gone <= Len(chunk) /\ HeadOf(memory[c])
      BY <1>2, <2>2, <3>1 DEF MemoryChunk
    <3>3. c \in Workers /\ Len(chunk) \in Nat
      <4>1. 1 \in DOMAIN chunk
        BY <1>1, <3>2
      <4> QED
        BY <1>1, <2>2, <3>1, <4>1 DEF Entries, Points
    <3>4. CASE c # w
      <4>1. gone' = gone /\ memory'[c] = memory[c]
        BY <1>5, <3>1, <3>3, <3>4 DEF HeadGone
      <4> QED
        BY <1>5, <2>2, <3>1, <3>2, <4>1 DEF MemoryChunk, HeadOf
    <3>5. CASE c = w
      <4>1. PICK r : r = memory'[w]
        OBVIOUS
      <4>2. PICK m \in Nat : m = gone
        BY <1>1
      <4>3. PICK n \in Nat : n = Len(chunk) - m
        BY <3>2, <3>3, <4>2
      <4>4. n <= Len(q) /\ \A i \in 1..n : q[i] = chunk[m + i].e
        BY <1>5, <3>2, <3>5, <4>2, <4>3 DEF HeadOf
      <4>5. ASSUME NEW k \in Nat, k = gone', k <= Len(chunk), Len(chunk) - k <= Len(r),
                   \A i \in 1..Len(chunk) - k : r[i] = chunk[k + i].e
            PROVE  MemoryChunk'
        <5>1. kind' = kind /\ chunk' = chunk /\ memory'[chunk'[1].e.p[1]] = r
          BY <1>5, <3>1, <3>5, <4>1
        <5>2. HeadOf(memory[chunk[1].e.p[1]])'
          BY <4>5, <5>1 DEF HeadOf
        <5> QED
          BY <2>2, <3>2, <4>5, <5>1, <5>2 DEF MemoryChunk
      <4>6. CASE gone' = gone /\ \E e \in Entries : r = Append(q, e)
        <5>1. PICK e \in Entries : r = Append(q, e)
          BY <4>6
        <5>2. n <= Len(r) /\ \A i \in 1..n : r[i] = q[i]
          BY <1>5, <4>3, <4>4, <5>1
        <5> QED
          BY <3>2, <4>2, <4>3, <4>4, <4>6, <4>5, <5>2
      <4>7. CASE HeadGone(w) /\ q # <<>> /\ (r = Tail(q) \/ \E e \in Entries : r = Append(Tail(q), e))
        <5>1. Len(q) \in Nat \ {0} /\ Tail(q) \in Seq(Entries) /\ Len(Tail(q)) = Len(q) - 1
          BY <1>5, <4>7
        <5>2. \A i \in 1..Len(q) - 1 : Tail(q)[i] = q[i + 1]
          BY <1>5, <4>7
        <5>3. Len(r) \in Nat /\ Len(r) >= Len(q) - 1 /\ \A i \in 1..Len(q) - 1 : r[i] = q[i + 1]
          <6>1. CASE r = Tail(q)
            BY <5>1, <5>2, <6>1
          <6>2. CASE \E e \in Entries : r = Append(Tail(q), e)
            <7>1. PICK e \in Entries : r = Append(Tail(q), e)
              BY <6>2
            <7>2. Len(r) = Len(q) /\ \A i \in 1..Len(q) - 1 : r[i] = Tail(q)[i]
              BY <5>1, <7>1
            <7> QED
              BY <5>1, <5>2, <7>2
          <6> QED
            BY <4>7, <6>1, <6>2
        <5>4. gone' = IF m < Len(chunk) THEN m + 1 ELSE m
          BY <2>2, <3>1, <3>5, <4>2, <4>7 DEF HeadGone
        <5>5. CASE n = 0
          <6>1. gone' = m /\ m = Len(chunk) /\ Len(chunk) - m = 0
            BY <3>3, <4>3, <5>4, <5>5
          <6> QED
            BY <4>5, <5>3, <6>1
        <5>6. CASE n # 0
          <6>1. gone' = m + 1 /\ m + 1 <= Len(chunk) /\ Len(chunk) - (m + 1) = n - 1
            BY <3>3, <4>3, <5>4, <5>6
          <6>2. n - 1 <= Len(r)
            BY <4>3, <4>4, <5>1, <5>3
          <6>3. ASSUME NEW i \in 1..n - 1 PROVE r[i] = chunk[(m + 1) + i].e
            <7>1. i \in 1..Len(q) - 1 /\ i + 1 \in 1..n /\ m + (i + 1) = (m + 1) + i
              BY <4>3, <4>4, <5>1, <6>3
            <7> QED
              BY <4>4, <5>3, <7>1
          <6> QED
            <7>1. PICK k \in Nat : k = m + 1
              OBVIOUS
            <7>2. k = gone' /\ k <= Len(chunk) /\ Len(chunk) - k = n - 1
              BY <6>1, <7>1
            <7>3. \A i \in 1..Len(chunk) - k : r[i] = chunk[k + i].e
              BY <6>3, <7>1, <7>2
            <7> QED
              BY <4>5, <6>2, <7>2, <7>3
        <5> QED
          BY <5>5, <5>6
      <4> QED
        BY <1>5, <4>1, <4>6, <4>7
    <3> QED
      BY <3>4, <3>5
  <2> QED
    BY <2>1, <2>2
<1>6. CASE \E w \in Workers : MoveToSpool(w)
  <2>1. PICK w \in Workers : MoveToSpool(w)
    BY <1>6
  <2>2. PICK q \in Seq(Entries) : q = memory[w]
    BY <1>1
  <2>3. /\ UNCHANGED <<kind, chunk>> /\ HeadGone(w) /\ q # <<>> /\ memory'[w] = Tail(q)
        /\ \A v \in Workers \ {w} : memory'[v] = memory[v]
    BY <1>1, <2>1, <2>2 DEF MoveToSpool
  <2> QED
    BY <1>5, <2>2, <2>3
<1>7. CASE AppendFails \/ AppendToMemory
  <2>1. KeepInMemory /\ adding \in Entries /\ UNCHANGED <<kind, chunk>>
    BY <1>1, <1>7 DEF AppendFails, AppendToMemory
  <2>2. PICK w \in Workers : w = adding.p[1]
    BY <2>1 DEF Entries, Points
  <2>3. PICK q \in Seq(Entries) : q = memory[w]
    BY <1>1
  <2>4. memory'[w] = Push(q, adding) /\ \A v \in Workers \ {w} : memory'[v] = memory[v]
    BY <1>1, <2>1, <2>2, <2>3 DEF KeepInMemory
  <2>5. CASE Len(q) >= MemoryPoints
    <3>1. q # <<>> /\ HeadGone(w)
      BY <2>1, <2>2, <2>3, <2>5, WriterAssumption DEF KeepInMemory
    <3>2. memory'[w] = Append(Tail(q), adding)
      BY <2>4, <2>5 DEF Push
    <3> QED
      BY <1>5, <2>1, <2>3, <2>4, <3>1, <3>2
  <2>6. CASE ~(Len(q) >= MemoryPoints)
    <3>1. gone' = gone
      BY <2>1, <2>2, <2>3, <2>6 DEF KeepInMemory
    <3>2. memory'[w] = Append(q, adding)
      BY <2>4, <2>6 DEF Push
    <3> QED
      BY <1>5, <2>1, <2>3, <2>4, <3>1, <3>2
  <2> QED
    BY <2>5, <2>6
<1>8. CASE ReadMemory
  <2>1. kind = "none" /\ gone = 0 /\ UNCHANGED <<gone, memory>>
    BY <1>2, <1>8 DEF ReadMemory, AtSpool, Posting, MemoryChunk
  <2>2. CASE Idle
    BY <1>3, <2>1, <2>2 DEF Idle, EmptyChunk
  <2>3. CASE ~Idle
    <3>1. PICK w \in Workers : /\ memory[w] # <<>>
                              /\ NewChunk("memory", [i \in DOMAIN FirstOf(memory[w], ChunkPoints) |->
                                                       [e |-> memory[w][i], end |-> NoPtr]])
      BY <1>8, <2>3 DEF ReadMemory
    <3>2. PICK q \in Seq(Entries) : q = memory[w]
      BY <1>1
    <3>3. PICK f : f = FirstOf(q, ChunkPoints)
      OBVIOUS
    <3>4. PICK n \in Nat \ {0} : n <= Len(q) /\ DOMAIN f = 1..n
      <4>1. PICK n \in Nat \ {0} : n = (IF Len(q) < ChunkPoints THEN Len(q) ELSE ChunkPoints) /\ DOMAIN f = 1..n
        BY <3>1, <3>2, <3>3, FirstOfType
      <4>2. n <= Len(q)
        BY <3>2, <4>1, SpoolAssumption
      <4> QED
        BY <4>1, <4>2
    <3>5. kind' = "memory" /\ chunk' = [i \in 1..n |-> [e |-> q[i], end |-> NoPtr]]
      BY <3>1, <3>2, <3>3, <3>4 DEF NewChunk
    <3>6. PICK c : c = chunk'
      OBVIOUS
    <3>7. Len(c) = n /\ c # <<>> /\ \A i \in 1..n : c[i].e = q[i]
      BY <3>4, <3>5, <3>6
    <3>8. c[1].e.p[1] = w
      <4>1. 1 \in DOMAIN q /\ c[1].e = q[1]
        BY <3>4, <3>7
      <4> QED
        BY <1>2, <3>2, <4>1 DEF OwnQueue, PointsIn
    <3> QED
      BY <2>1, <3>2, <3>4, <3>5, <3>6, <3>7, <3>8 DEF MemoryChunk, HeadOf
  <2> QED
    BY <2>2, <2>3
<1>9. CASE ConsumeMemory \/ ConsumeLive \/ ConsumeSpool
  <2>1. kind' = "none" /\ gone' = 0
    <3>1. ASSUME NEW removed, PassGoesOn(removed) PROVE kind' = "none"
      BY <3>1 DEF PassGoesOn, EmptyChunk
    <3>2. CASE ConsumeMemory
      BY <3>1, <3>2 DEF ConsumeMemory
    <3>3. CASE ConsumeLive
      BY <1>2, <3>1, <3>3 DEF ConsumeLive, MemoryChunk
    <3>4. CASE ConsumeSpool
      BY <1>2, <3>1, <3>4 DEF ConsumeSpool, MemoryChunk
    <3> QED
      BY <1>9, <3>2, <3>3, <3>4
  <2> QED
    BY <1>3, <2>1
<1>10. CASE ReadLive \/ ReadSpool
  <2>1. kind = "none" /\ gone = 0 /\ gone' = gone
    BY <1>2, <1>10 DEF ReadLive, ReadSpool, AtSpool, Posting, MemoryChunk
  <2>2. kind' # "memory"
    BY <1>10 DEF ReadLive, ReadSpool, NewChunk, Idle, EmptyChunk
  <2> QED
    BY <1>3, <2>1, <2>2
<1>11. CASE Exit \/ Kill
  BY <1>3, <1>11 DEF Exit, Kill, ProcessEnds, NoThread, EmptyChunk
<1>12. CASE PostStep
  <2>1. UNCHANGED <<kind, chunk, gone, memory>>
    BY <1>12 DEF PostStep, PostAccepted, PostRefused, PostUnanswered, DropUnconfigured, SingleAccepted,
       SingleRefused
  <2> QED
    BY <1>4, <2>1
<1>13. CASE WriteToSpool \/ ReleaseOver \/ SaveRefused \/ RetireSegment \/ SetAsideSegment \/ CloseEnds \/ Start
  <2>1. UNCHANGED <<kind, chunk, gone, memory>>
    BY <1>13 DEF WriteToSpool, ReleaseOver, SaveRefused, RetireSegment, SetAsideSegment, CloseEnds, Start
  <2> QED
    BY <1>4, <2>1
<1>14. CASE (\E e \in due : Release(e)) \/ \E w \in Workers : \E n \in 1..MaxPoints : Submit(w, n)
  <2>1. UNCHANGED <<kind, chunk, gone, memory>>
    BY <1>14 DEF Release, Submit
  <2> QED
    BY <1>4, <2>1
<1> QED
  BY <1>6, <1>7, <1>8, <1>9, <1>10, <1>11, <1>12, <1>13, <1>14 DEF Moves, InPlace, AppendStep

-----------------------------------------------------------------------------
(* Where the points are, step by step *)

(* A point held is held again, or waits, and what waited too.                *)
LEMMA FoundFrame ==
  ASSUME Found, Saved, Submitted' \subseteq Submitted \cup Held',
         Held \subseteq Held' \cup Waiting', Waiting \subseteq Held' \cup Waiting',
         mode' = "disk" /\ unsaved' = FALSE =>
           /\ Held \subseteq Held' \cup Kept'
           /\ \/ mode = "disk" /\ unsaved = FALSE /\ Kept \subseteq Held' \cup Kept'
              \/ Waiting \subseteq Held' \cup Kept'
  PROVE  Found' /\ Saved'
<1>1. Found'
  BY DEF Found
<1>2. Saved'
  BY DEF Found, Saved
<1> QED
  BY <1>1, <1>2

(* The parts of what is held.                                                *)
LEMMA HeldParts ==
  /\ db' \subseteq Held' /\ excused' \subseteq Held' /\ InMemory' \subseteq Held'
  /\ Adding' \subseteq Held' /\ OnSpool' \subseteq Held'
BY DEF Held

(* The disk untouched holds what it held.                                    *)
LEMMA OnSpoolFrame ==
  ASSUME UNCHANGED <<spool, stored>>, spool.segs = {} => retry' = retry
  PROVE  OnSpool' = OnSpool
BY DEF OnSpool, OnDisk, Lying

(* A spool that moves on holds what lies on in it.                           *)
LEMMA OnSpoolMoved ==
  ASSUME spool.segs # {}, spool'.segs # {}, NEW Y, \A p : Lies(spool, p) => Lies(spool', p) \/ p \in Y
  PROVE  OnSpool \subseteq OnSpool' \cup Y
BY DEF OnSpool, Lying

(* A point kept in memory, and what it pushes out there.                     *)
LEMMA KeptInMemory ==
  ASSUME QueueTypeOK, adding \in Entries, adding # NoEntry, KeepInMemory
  PROVE  InMemory \subseteq InMemory' \cup excused' /\ Adding \subseteq InMemory' /\ Adding' = {}
<1>1. PICK w : w = adding.p[1]
  OBVIOUS
<1>2. /\ w \in Workers /\ memory \in [Workers -> Seq(Entries)] /\ memory[w] \in Seq(Entries)
  BY <1>1 DEF QueueTypeOK, Entries, Points
<1>3. PICK q : q = memory[w]
  OBVIOUS
<1>4. /\ memory' = [memory EXCEPT ![w] = Push(q, adding)] /\ excused' = excused \cup PushedOut(q)
      /\ adding' = NoEntry
  BY <1>1, <1>2, <1>3 DEF KeepInMemory, AppendOver
<1>5. memory'[w] = Push(q, adding) /\ \A v \in Workers \ {w} : memory'[v] = memory[v]
  BY <1>2, <1>4
<1>6. /\ adding.p \in PointsIn(Push(q, adding))
      /\ \A p \in PointsIn(q) : p \in PointsIn(Push(q, adding)) \/ p \in PushedOut(q)
  <2>1. CASE Len(q) >= MemoryPoints
    <3>1. q # <<>> /\ q \in Seq(Entries)
      BY <1>2, <1>3, <2>1, WriterAssumption
    <3>2. Tail(q) \in Seq(Entries)
      BY <3>1
    <3>3. /\ adding.p \in PointsIn(Append(Tail(q), adding))
          /\ PointsIn(Tail(q)) \subseteq PointsIn(Append(Tail(q), adding))
      BY <3>2, AppendPoints
    <3>4. \A p \in PointsIn(q) : p = Head(q).p \/ p \in PointsIn(Tail(q))
      BY <3>1, TailPoints
    <3> QED
      BY <2>1, <3>3, <3>4 DEF Push, PushedOut
  <2>2. CASE ~(Len(q) >= MemoryPoints)
    <3>1. /\ adding.p \in PointsIn(Append(q, adding))
          /\ PointsIn(q) \subseteq PointsIn(Append(q, adding))
      BY <1>2, <1>3, AppendPoints
    <3> QED
      BY <2>2, <3>1 DEF Push
  <2> QED
    BY <2>1, <2>2
<1>7. ASSUME NEW p \in InMemory PROVE p \in InMemory' \cup excused'
  <2>1. PICK v \in Workers : p \in PointsIn(memory[v])
    BY <1>7 DEF InMemory
  <2>2. CASE v = w
    BY <1>2, <1>3, <1>4, <1>5, <1>6, <2>1, <2>2 DEF InMemory
  <2>3. CASE v # w
    BY <1>5, <2>1, <2>3 DEF InMemory
  <2> QED
    BY <2>2, <2>3
<1>8. adding.p \in InMemory'
  BY <1>2, <1>5, <1>6 DEF InMemory
<1>9. Adding \subseteq InMemory' /\ Adding' = {}
  BY <1>4, <1>8 DEF Adding
<1> QED
  BY <1>7, <1>9

(* A step that leaves all the places points are in as they are.              *)
LEMMA FoundSame ==
  ASSUME LossInv, UNCHANGED <<spool, stored, retry, memory, adding, reading, waiting>>,
         db \subseteq db', excused \subseteq excused', mode' = "disk" => mode = "disk" /\ unsaved' = unsaved
  PROVE  Found' /\ Saved'
<1>1. OnSpool' = OnSpool /\ InMemory' = InMemory /\ Adding' = Adding
  BY OnSpoolFrame DEF InMemory, Adding
<1>2. Submitted' = Submitted /\ Waiting' = Waiting /\ Kept' = Kept
  BY DEF Submitted, Waiting, Kept
<1>3. Held \subseteq Held'
  BY <1>1, HeldParts DEF Held
<1> QED
  BY <1>2, <1>3, FoundFrame DEF LossInv

(* A point appended goes to the spool or to memory.                          *)
LEMMA FoundAppend ==
  ASSUME IInv, LossInv, AppendStep
  PROVE  Found' /\ Saved'
<1>1. LifeInv /\ PosInv /\ Found /\ Saved
  BY DEF LossInv
<1>2. QueueTypeOK /\ memory \in [Workers -> Seq(Entries)]
  BY DEF IInv, QueueInv, QueueTypeOK
<1>3. /\ adding \in Entries /\ adding # NoEntry /\ UNCHANGED <<stored, reading, db>>
      /\ excused \subseteq excused' /\ waiting' \subseteq waiting /\ waiting \subseteq waiting' \cup {adding}
      /\ mode # "memory" =>
           spool'.segs # {} /\ \A p : Lies(spool, p) => Lies(spool', p) \/ p \in excused'
      /\ mode = "memory" => UNCHANGED spool
  BY <1>1, AppendFacts
<1>4. mode # "memory" => spool.segs # {}
  BY <1>1 DEF LifeInv
<1>5. Submitted' = Submitted /\ Adding = {adding.p}
  BY <1>3 DEF Submitted, Adding
<1>6. mode # "memory" => OnSpool \subseteq OnSpool' \cup excused'
  BY <1>3, <1>4, OnSpoolMoved
<1>7. ASSUME adding.p \in Held' PROVE Waiting \subseteq Held' \cup Waiting'
  BY <1>3, <1>7 DEF Waiting
<1>8. adding.p \in Points
  BY <1>3 DEF Entries
<1> USE DEF diskVars, queueVars, appendVars, threadVars, chunkVars, historyVars
<1>9. ASSUME NEW w \in Workers, MoveToSpool(w) PROVE Found' /\ Saved'
  <2>1. PICK e \in Entries : e = Head(memory[w])
    BY <1>2, <1>9 DEF MoveToSpool
  <2>2. /\ mode # "memory" /\ CanStart(spool) /\ spool' = Wrote(spool, e) /\ stored' = stored
        /\ excused' = excused \cup EvictedPoints(Appended(spool, e)) /\ memory[w] # <<>>
        /\ memory' = [memory EXCEPT ![w] = Tail(memory[w])]
        /\ UNCHANGED <<adding, waiting, retry, mode, unsaved>>
    BY <1>9, <2>1 DEF MoveToSpool
  <2>3. Lies(spool', e.p) \/ e.p \in excused'
    BY <1>1, <2>2, WriteStep
  <2>4. e.p \in OnSpool' \cup excused'
    <3>1. e.p \in Points
      BY DEF Entries
    <3> QED
      BY <1>3, <2>2, <2>3, <3>1 DEF OnSpool, Lying
  <2>5. ASSUME NEW p \in InMemory PROVE p \in InMemory' \/ p = e.p
    <3>1. PICK v \in Workers : p \in PointsIn(memory[v])
      BY <2>5 DEF InMemory
    <3>2. CASE v = w
      <4>1. memory[w] \in Seq(Entries) /\ memory'[w] = Tail(memory[w])
        BY <1>2, <2>2
      <4>2. PICK q \in Seq(Entries) : q = memory[w]
        BY <4>1
      <4>3. q # <<>> /\ p \in PointsIn(q) /\ e = Head(q)
        BY <2>1, <2>2, <3>1, <3>2, <4>2
      <4>4. p = Head(q).p \/ p \in PointsIn(Tail(q))
        BY <4>3, TailPoints
      <4> QED
        BY <4>1, <4>2, <4>3, <4>4 DEF InMemory
    <3>3. CASE v # w
      <4>1. memory'[v] = memory[v]
        BY <1>2, <2>2, <3>3
      <4> QED
        BY <3>1, <4>1 DEF InMemory
    <3> QED
      BY <3>2, <3>3
  <2>6. Waiting' = Waiting /\ Kept' = Kept /\ Adding' = Adding
    BY <2>2 DEF Waiting, Kept, Adding
  <2>7. Held \subseteq Held'
    <3>1. InMemory \subseteq InMemory' \cup OnSpool' \cup excused'
      BY <2>4, <2>5
    <3> QED
      BY <1>3, <1>6, <2>2, <2>6, <3>1 DEF Held
  <2> QED
    BY <1>1, <1>5, <2>2, <2>6, <2>7, FoundFrame
<1>10. CASE WriteToSpool
  <2>1. /\ mode # "memory" /\ CanStart(spool) /\ spool' = Wrote(spool, adding)
        /\ excused' = excused \cup EvictedPoints(Appended(spool, adding))
        /\ memory' = memory /\ adding' = NoEntry
    BY <1>10 DEF WriteToSpool, AppendOver
  <2>2. Lies(spool', adding.p) \/ adding.p \in excused'
    BY <1>1, <1>3, <2>1, WriteStep
  <2>3. adding.p \in OnSpool' \cup excused'
    BY <1>3, <1>8, <2>1, <2>2 DEF OnSpool, Lying
  <2>4. InMemory' = InMemory /\ Adding' = {}
    BY <2>1 DEF InMemory, Adding
  <2>5. Held \subseteq Held' /\ adding.p \in Held'
    BY <1>3, <1>5, <1>6, <2>1, <2>3, <2>4 DEF Held
  <2>6. Waiting \subseteq Held' \cup Waiting'
    BY <1>7, <2>5
  <2>7. \/ mode = "disk" /\ unsaved' = unsaved /\ retry' = retry
        \/ mode = "failed" /\ (unsaved' = FALSE => retry' = waiting)
    <3>1. CASE mode = "failed"
      <4>1. PICK m, d : m = "disk" /\ d = TRUE
        OBVIOUS
      <4>2. WriteRetryFile(m, waiting, d)
        BY <1>10, <3>1, <4>1 DEF WriteToSpool
      <4> QED
        BY <3>1, <4>1, <4>2, RetryWritten
    <3>2. CASE mode = "disk"
      BY <1>10, <3>2 DEF WriteToSpool
    <3> QED
      BY <1>10, <3>1, <3>2 DEF WriteToSpool
  <2>8. unsaved' = FALSE => \/ mode = "disk" /\ unsaved = FALSE /\ Kept \subseteq Kept'
                            \/ Waiting \subseteq Kept'
    BY <2>7 DEF Kept, Waiting
  <2> QED
    BY <1>1, <1>5, <2>5, <2>6, <2>8, FoundFrame
<1>11. CASE AppendFails \/ AppendToMemory
  <2>1. /\ KeepInMemory /\ mode' # "disk"
        /\ mode = "memory" => UNCHANGED <<spool, stored, retry>>
    BY <1>11 DEF AppendFails, AppendToMemory
  <2>2. InMemory \subseteq InMemory' \cup excused' /\ Adding \subseteq InMemory' /\ Adding' = {}
    BY <1>2, <1>3, <2>1, KeptInMemory
  <2>3. OnSpool \subseteq OnSpool' \cup excused'
    <3>1. CASE mode = "memory"
      BY <2>1, <3>1, OnSpoolFrame
    <3>2. CASE mode # "memory"
      BY <1>6, <3>2
    <3> QED
      BY <3>1, <3>2
  <2>4. Held \subseteq Held' /\ adding.p \in Held'
    BY <1>3, <1>5, <2>2, <2>3 DEF Held
  <2>5. Waiting \subseteq Held' \cup Waiting'
    BY <1>7, <2>4
  <2> QED
    BY <1>1, <1>5, <2>1, <2>4, <2>5, FoundFrame
<1> QED
  BY <1>9, <1>10, <1>11 DEF AppendStep

(* A reading submitted is the entry being appended.                          *)
LEMMA FoundSubmit ==
  ASSUME IInv, LossInv, NEW w \in Workers, NEW n \in 1..MaxPoints, Submit(w, n)
  PROVE  Found' /\ Saved'
<1>1. AppendInv /\ reading \in [Workers -> 0..MaxPoints]
  BY DEF IInv, QueueInv, HistoryTypeOK
<1>2. /\ UNCHANGED <<spool, stored, retry, memory, waiting, db, excused, mode, unsaved>>
      /\ adding = NoEntry /\ adding' = [p |-> <<w, n>>, r |-> 0]
      /\ reading' = [reading EXCEPT ![w] = n] /\ (n = reading[w] \/ n = reading[w] + 1)
  BY <1>1 DEF Submit, CallerFree, AppendInv, diskVars, queueVars, historyVars
<1>3. adding' # NoEntry /\ Adding = {}
  <2>1. adding' \in Entries
    BY <1>2, SpoolAssumption DEF Entries, Points
  <2> QED
    BY <1>2, <2>1, WriterAssumption DEF Adding
<1>4. Adding' = {<<w, n>>}
  BY <1>2, <1>3 DEF Adding
<1>5. ASSUME NEW p \in Submitted' PROVE p \in Submitted \/ p = <<w, n>>
  <2>1. p \in Workers \X (1..MaxPoints) /\ p[2] <= reading'[p[1]]
    BY <1>5 DEF Submitted, Points
  <2>2. p = <<p[1], p[2]>> /\ p[1] \in Workers /\ p[2] \in 1..MaxPoints
    BY <2>1
  <2>3. CASE p[1] = w
    <3>1. reading'[w] = n /\ reading[w] \in 0..MaxPoints
      BY <1>1, <1>2
    <3>2. p[2] <= n /\ p[2] \in Nat /\ n \in Nat /\ reading[w] \in Nat
      BY <2>1, <2>2, <2>3, <3>1
    <3>3. p[2] <= reading[w] \/ p[2] = n
      BY <1>2, <3>2
    <3> QED
      BY <2>1, <2>2, <2>3, <3>3 DEF Submitted, Points
  <2>4. CASE p[1] # w
    BY <1>1, <1>2, <2>1, <2>2, <2>4 DEF Submitted, Points
  <2> QED
    BY <2>3, <2>4
<1>6. OnSpool' = OnSpool /\ InMemory' = InMemory /\ Waiting' = Waiting /\ Kept' = Kept
  BY <1>2, OnSpoolFrame DEF InMemory, Waiting, Kept
<1>7. Held \subseteq Held' /\ <<w, n>> \in Held'
  BY <1>2, <1>3, <1>4, <1>6 DEF Held
<1>8. Submitted' \subseteq Submitted \cup Held'
  BY <1>5, <1>7
<1> QED
  BY <1>2, <1>6, <1>7, <1>8, FoundFrame DEF LossInv

(* The thread's steps at the spool leave points in it, or give them up.      *)
LEMMA FoundRead ==
  ASSUME IInv, LossInv, RetireSegment \/ SetAsideSegment \/ ReadMemory
  PROVE  Found' /\ Saved'
<1>1. PosInv
  BY DEF LossInv
<1>2. /\ UNCHANGED <<retry, memory, adding, reading, waiting, db, unsaved>> /\ excused \subseteq excused'
      /\ mode' = "disk" => mode = "disk"
  BY DEF RetireSegment, SetAsideSegment, ReadMemory, queueVars, historyVars
<1>3. OnSpool \subseteq OnSpool' \cup excused'
  <2>1. CASE RetireSegment
    <3>1. PICK t : t = Retired(spool, PtrSeg(spool))
      OBVIOUS
    <3>2. Finished(spool) /\ spool' = t /\ spool.segs # {}
      BY <2>1, <3>1 DEF RetireSegment, Finished, PtrInSpool
    <3>3. t.segs # {} /\ \A p : Lies(spool, p) => Lies(t, p)
      <4>1. PICK at : at = stored
        OBVIOUS
      <4>2. at \in {stored, t.ptr}
        BY <4>1
      <4>3. t.segs # {} /\ Aimed(t, at) /\ Newest(t) /\ \A p : Lies(spool, p) => Lies(t, p)
        BY <1>1, <3>1, <3>2, <4>2, RetireStep
      <4> QED
        BY <4>3
    <3> QED
      BY <3>2, <3>3, OnSpoolMoved
  <2>2. CASE SetAsideSegment
    <3>1. spool.segs # {}
      BY <2>2 DEF SetAsideSegment, PtrInSpool
    <3>2. \A p : Lies(spool, p) =>
            \/ p \in excused'
            \/ spool'.segs # {} /\ Lies(spool', p)
            \/ spool'.segs = {} /\ p \in Recoverable(spool', stored')
      BY <1>1, <2>2, AsideStep
    <3> QED
      BY <3>1, <3>2 DEF OnSpool, OnDisk, Lying
  <2>3. CASE ReadMemory
    <3>1. Exhausted(spool) /\ spool' = SkipTorn(spool) /\ stored' = stored
      BY <2>3 DEF ReadMemory
    <3>2. /\ spool'.segs = spool.segs
          /\ spool.segs = {} => spool' = spool
          /\ \A p : Lies(spool, p) => Lies(spool', p)
      BY <1>1, <3>1, TornStep
    <3>3. CASE spool.segs = {}
      BY <1>2, <3>1, <3>2, <3>3, OnSpoolFrame
    <3>4. CASE spool.segs # {}
      BY <3>2, <3>4, OnSpoolMoved
    <3> QED
      BY <3>3, <3>4
  <2> QED
    BY <2>1, <2>2, <2>3
<1>4. InMemory' = InMemory /\ Adding' = Adding /\ Submitted' = Submitted /\ Waiting' = Waiting /\ Kept' = Kept
  BY <1>2 DEF InMemory, Adding, Submitted, Waiting, Kept
<1>5. Held \subseteq Held'
  BY <1>2, <1>3, <1>4 DEF Held
<1> QED
  BY <1>2, <1>4, <1>5, FoundFrame DEF LossInv

(* What is consumed is stored, given up, or waits.                           *)
LEMMA FoundConsume ==
  ASSUME IInv, LossInv, ConsumeMemory \/ ConsumeSpool
  PROVE  Found' /\ Saved'
<1>1. PosInv /\ ChunkAt /\ DoneKept /\ RetryInv
  BY DEF LossInv
<1>2. /\ ThreadTypeOK /\ memory \in [Workers -> Seq(Entries)] /\ (mode = "disk" => MemoryEmpty)
      /\ dirty \in BOOLEAN
  BY DEF IInv, ThreadInv, QueueInv, QueueTypeOK, MemoryInv
<1>3. /\ UNCHANGED <<retry, adding, reading, waiting, dirty, db, excused, unsaved, mode>> /\ tpc = "consume"
  BY DEF ConsumeMemory, ConsumeSpool, diskVars, queueVars, appendVars
<1>4. Adding' = Adding /\ Submitted' = Submitted /\ Waiting' = Waiting /\ Kept' = Kept
  BY <1>3 DEF Adding, Submitted, Waiting, Kept
<1>5. InMemory \cup OnSpool \subseteq Held' \cup Waiting'
  <2>1. CASE ConsumeMemory
    <3>1. PICK es : es = ConsumedEntries
      OBVIOUS
    <3>2. PICK w \in Workers :
            /\ UNCHANGED <<spool, stored>> /\ kind = "memory"
            /\ \E n \in 0..Len(memory[w]) : /\ memory' = [memory EXCEPT ![w] = DropFirst(memory[w], n)]
                                            /\ \A i \in 1..n : memory[w][i] \in es
      <4>1. UNCHANGED <<spool, stored>> /\ kind = "memory"
        BY <2>1 DEF ConsumeMemory, diskVars
      <4> QED
        BY <2>1, <3>1, <4>1, ConsumedFromQueue DEF LossInv
    <3>3. ASSUME NEW e \in es PROVE e.p \in db \cup excused \cup Waiting
      <4>1. PICK i \in 1..Consumed : e = chunk[i].e
        BY <3>1, <3>3 DEF ConsumedEntries
      <4>2. i \in done
        <5>1. CASE Consumed = 0
          BY <4>1, <5>1
        <5>2. CASE Consumed # 0
          BY <1>2, <3>2, <4>1, <5>2, ConsumedInChunk
        <5> QED
          BY <5>1, <5>2
      <4> QED
        BY <1>1, <3>2, <4>1, <4>2 DEF DoneKept
    <3>4. ASSUME NEW p \in InMemory PROVE p \in InMemory' \cup db \cup excused \cup Waiting
      <4>1. PICK v \in Workers : p \in PointsIn(memory[v])
        BY <3>4 DEF InMemory
      <4>2. CASE v = w
        <5>1. PICK q \in Seq(Entries) : q = memory[w]
          BY <1>2
        <5>2. PICK n \in 0..Len(q) : /\ memory' = [memory EXCEPT ![w] = DropFirst(q, n)]
                                     /\ \A i \in 1..n : q[i] \in es
          BY <3>2, <5>1
        <5>3. p \in PointsIn(DropFirst(q, n)) \/ \E i \in 1..n : q[i].p = p
          BY <4>1, <4>2, <5>1, RowDropFirst
        <5>4. memory'[v] = DropFirst(q, n)
          BY <1>2, <4>2, <5>2
        <5> QED
          BY <3>3, <4>1, <5>2, <5>3, <5>4 DEF InMemory
      <4>3. CASE v # w
        <5>1. memory'[v] = memory[v]
          BY <1>2, <3>2, <4>1, <4>3
        <5> QED
          BY <4>1, <5>1 DEF InMemory
      <4> QED
        BY <4>2, <4>3
    <3>5. OnSpool' = OnSpool
      BY <1>3, <3>2, OnSpoolFrame
    <3> QED
      BY <1>3, <1>4, <3>4, <3>5 DEF Held
  <2>2. CASE ConsumeSpool
    <3>1. kind = "spool" /\ memory' = memory
      BY <2>2 DEF ConsumeSpool, queueVars
    <3>2. OnSpool \subseteq OnSpool' \cup db \cup excused \cup Waiting
      <4>1. CASE Consumed = 0
        BY <1>3, <2>2, <4>1, OnSpoolFrame DEF ConsumeSpool
      <4>2. CASE Consumed # 0
        <5>1. PICK end, t : end = chunk[Consumed].end /\ t = SpoolAfter(end)
          OBVIOUS
        <5>2. spool' = t
          BY <2>2, <4>2, <5>1 DEF ConsumeSpool
        <5>3. t.segs # {} /\ \A p : Lies(spool, p) => Lies(t, p) \/ p \in db \cup excused \cup Waiting
          BY <1>1, <3>1, <4>2, <5>1, ConsumedAimed
        <5>4. spool.segs # {}
          BY <1>1, <3>1 DEF ChunkAt
        <5>5. PICK Y : Y = db \cup excused \cup Waiting
          OBVIOUS
        <5>6. OnSpool \subseteq OnSpool' \cup Y
          BY <5>2, <5>3, <5>4, <5>5, OnSpoolMoved
        <5> QED
          BY <5>5, <5>6
      <4> QED
        BY <4>1, <4>2
    <3>3. InMemory' = InMemory
      BY <3>1 DEF InMemory
    <3> QED
      BY <1>3, <1>4, <3>2, <3>3 DEF Held
  <2> QED
    BY <2>1, <2>2
<1>6. Held \subseteq Held' \cup Waiting'
  BY <1>3, <1>4, <1>5, HeldParts DEF Held
<1>7. mode' = "disk" /\ unsaved' = FALSE =>
        Held \subseteq Held' \cup Kept' /\ Waiting \subseteq Held' \cup Kept'
  <2>1. SUFFICES ASSUME mode = "disk", unsaved = FALSE
                 PROVE  Waiting \subseteq Kept
    BY <1>3, <1>4, <1>6
  <2>2. dirty = FALSE
    BY <1>1, <1>2, <1>3, <2>1 DEF RetryInv, Posting
  <2>3. waiting \subseteq retry
    BY <1>1, <2>1, <2>2 DEF RetryInv
  <2> QED
    BY <2>3 DEF Waiting, Kept
<1> QED
  BY <1>4, <1>6, <1>7, FoundFrame DEF LossInv

(* A process that ends, however, leaves every point on disk that it did not  *)
(* give up; and a start finds them.                                          *)
LEMMA FoundLife ==
  ASSUME IInv, LossInv, CloseEnds \/ Exit \/ Kill \/ Start
  PROVE  Found' /\ Saved'
<1>1. LifeInv /\ PosInv /\ ChunkAt /\ DoneKept /\ Found /\ Saved
  BY DEF LossInv
<1>2. QueueTypeOK /\ AppendInv /\ MemoryInv
  BY DEF IInv, QueueInv
<1>3. CASE CloseEnds
  <2>1. /\ UNCHANGED <<stored, retry, memory, adding, reading, waiting, db, excused, unsaved>>
        /\ spool' = [spool EXCEPT !.open = FALSE] /\ mode' = "memory"
    BY <1>3 DEF CloseEnds, appendVars, historyVars
  <2>2. PICK t : t = spool'
    OBVIOUS
  <2>3. /\ t.segs = spool.segs /\ t.ptr = spool.ptr /\ t.files = spool.files /\ t.size = spool.size
        /\ t.onDisk = spool.onDisk
    BY <2>1, <2>2, SpoolFacts DEF SpoolType
  <2>4. Recoverable(t, stored) = Recoverable(spool, stored)
    <3>1. NonEmpty(t) = NonEmpty(spool) /\ t.files = spool.files
      BY <2>3 DEF NonEmpty
    <3> QED
      BY <3>1, SameFiles
  <2>5. \A p : Lies(t, p) = Lies(spool, p)
    BY <2>3 DEF Lies, LiesIn
  <2>6. OnSpool' = OnSpool
    BY <2>1, <2>2, <2>3, <2>4, <2>5 DEF OnSpool, OnDisk, Lying
  <2>7. InMemory' = InMemory /\ Adding' = Adding /\ Submitted' = Submitted /\ Waiting' = Waiting
    BY <2>1 DEF InMemory, Adding, Submitted, Waiting
  <2>8. Held \subseteq Held'
    BY <2>1, <2>6, <2>7 DEF Held
  <2> QED
    BY <1>1, <2>1, <2>7, <2>8, FoundFrame
<1>4. CASE Exit \/ Kill
  <2>1. ProcessEnds
    BY <1>4 DEF Exit, Kill
  <2>2. /\ UNCHANGED <<stored, retry, reading, db>> /\ mode' = "memory"
        /\ excused' = excused \cup Volatile
    BY <2>1 DEF ProcessEnds
  <2>3. /\ spool'.segs = {}
        /\ spool.segs = {} => Recoverable(spool', stored') = Recoverable(spool, stored)
        /\ \A p : spool.segs # {} /\ Lies(spool, p) =>
             \/ p \in Recoverable(spool', stored')
             \/ tpc = "consume" /\ p \in db \cup excused \cup Waiting
    BY <1>1, <2>1, EndStep
  <2>4. OnDisk' = Recoverable(spool', stored') \cup Kept /\ OnSpool' = OnDisk'
    BY <2>2, <2>3 DEF OnDisk, OnSpool, Kept
  <2>5. db \cup excused \cup InMemory \cup Adding \cup Kept \subseteq Held'
    BY <2>2, <2>4 DEF Volatile, Held
  <2>6. OnSpool \subseteq Held' \cup Waiting
    <3>1. CASE spool.segs = {}
      <4>1. OnSpool = Recoverable(spool, stored) \cup Kept
        BY <3>1 DEF OnSpool, OnDisk, Kept
      <4>2. Recoverable(spool, stored) \cup Kept \subseteq OnSpool'
        BY <2>3, <2>4, <3>1
      <4> QED
        BY <4>1, <4>2 DEF Held
    <3>2. CASE spool.segs # {}
      <4>1. \A p \in OnSpool : p \in OnSpool' \/ p \in db \cup excused \cup Waiting
        BY <2>3, <2>4, <3>2 DEF OnSpool, Lying
      <4> QED
        BY <2>5, <4>1, HeldParts
    <3> QED
      BY <3>1, <3>2
  <2>7. Held \subseteq Held' \cup Waiting
    BY <2>5, <2>6 DEF Held
  <2>8. Submitted \subseteq Held'
    <3>1. CASE mode = "disk" /\ unsaved = FALSE
      <4>1. ASSUME NEW p \in Submitted PROVE p \in Held'
        <5>1. p \in Held \cup Kept
          BY <1>1, <3>1, <4>1 DEF Saved
        <5>2. CASE p \in Kept
          BY <2>5, <5>2
        <5>3. CASE p \in Held /\ p \notin OnSpool
          BY <2>5, <5>3 DEF Held
        <5>4. CASE p \in OnSpool
          <6>1. CASE spool.segs = {}
            <7>1. OnSpool = Recoverable(spool, stored) \cup Kept
              BY <6>1 DEF OnSpool, OnDisk, Kept
            <7> QED
              BY <2>3, <2>4, <5>4, <6>1, <7>1 DEF Held
          <6>2. CASE spool.segs # {}
            <7>1. p \in OnSpool' \/ (tpc = "consume" /\ p \in db \cup excused \cup Waiting)
              BY <2>3, <2>4, <5>4, <6>2 DEF OnSpool, Lying
            <7>2. tpc = "consume" => Waiting \subseteq Kept
              <8>1. dirty \in BOOLEAN /\ RetryInv
                BY <1>2 DEF QueueTypeOK, LossInv
              <8>2. tpc = "consume" => waiting \subseteq retry
                BY <3>1, <8>1 DEF RetryInv, Posting
              <8> QED
                BY <8>2 DEF Waiting, Kept
            <7> QED
              BY <2>5, <7>1, <7>2, HeldParts
          <6> QED
            BY <6>1, <6>2
        <5> QED
          BY <5>1, <5>2, <5>3, <5>4
      <4> QED
        BY <4>1
    <3>2. CASE ~(mode = "disk" /\ unsaved = FALSE)
      <4>1. Waiting \subseteq excused'
        <5>1. unsaved \in BOOLEAN
          BY DEF IInv, HistoryTypeOK
        <5> QED
          BY <2>2, <3>2, <5>1 DEF Volatile
      <4> QED
        BY <1>1, <2>7, <4>1, HeldParts DEF Found
    <3> QED
      BY <3>1, <3>2
  <2>9. Submitted' = Submitted
    BY <2>2 DEF Submitted
  <2> QED
    BY <2>2, <2>8, <2>9 DEF Found, Saved
<1>5. CASE Start
  <2>1. /\ UNCHANGED <<stored, retry, memory, adding, reading, db, excused, unsaved>>
        /\ spool.segs = {} /\ mode = "memory" /\ waiting = {} /\ unsaved = FALSE
    BY <1>1, <1>5 DEF Start, LifeInv, appendVars, historyVars
  <2>2. InMemory' = InMemory /\ Adding' = Adding /\ Submitted' = Submitted /\ Waiting = {} /\ Kept' = Kept
    BY <2>1 DEF InMemory, Adding, Submitted, Waiting, Kept
  <2>3. OnSpool = Recoverable(spool, stored) \cup Kept
    BY <2>1 DEF OnSpool, OnDisk, Kept
  <2>4. PICK s : s = Loaded(spool, stored)
    OBVIOUS
  <2>5. CASE CanStart(s) /\ spool' = Started(s) /\ mode' = "disk" /\ waiting' = retry
    <3>1. /\ spool'.segs # {}
          /\ \A p \in Recoverable(spool, stored) : Lies(spool', p)
      BY <1>1, <2>1, <2>4, <2>5, StartStep
    <3>2. Recoverable(spool, stored) \subseteq Points
      <4>1. GoodSpool(s) /\ s \in SpoolType
        BY <2>4, SpoolFacts, LoadedGood DEF GoodSpool
      <4>2. Recoverable(spool, stored) = Ahead(s)
        BY <2>4 DEF Recoverable
      <4>3. Ahead(s) \subseteq Points
        <5>1. SUFFICES ASSUME NEW p \in Ahead(s) PROVE p \in Points
          OBVIOUS
        <5>2. PICK g \in s.segs : p \in PointsIn(From(s, g, IF g = s.ptr[1] THEN s.ptr[2] ELSE 0))
          BY <5>1 DEF Ahead
        <5>3. g \in SegIds /\ (IF g = s.ptr[1] THEN s.ptr[2] ELSE 0) \in Nat
          BY <4>1, <5>2 DEF SpoolType, Pointers
        <5> QED
          BY <4>1, <5>2, <5>3, FromType, PointsInType
      <4> QED
        BY <4>2, <4>3
    <3>3. OnSpool' = Lying' /\ Recoverable(spool, stored) \subseteq Lying'
      BY <3>1, <3>2 DEF OnSpool, Lying
    <3>4. Waiting' = Kept
      BY <2>5 DEF Waiting, Kept
    <3>5. Held \subseteq Held' \cup Waiting' /\ Held \subseteq Held' \cup Kept'
      BY <2>1, <2>2, <2>3, <3>3, <3>4 DEF Held
    <3> QED
      BY <1>1, <2>2, <3>5, FoundFrame
  <2>6. CASE spool' = AbandonSpool(s) /\ mode' = "memory"
    <3>1. spool'.segs = {} /\ Recoverable(spool', stored') = Recoverable(spool, stored)
      BY <1>1, <2>1, <2>4, <2>6, GivenUpStart
    <3>2. OnSpool' = OnSpool
      BY <2>1, <2>2, <2>3, <3>1 DEF OnSpool, OnDisk, Kept
    <3>3. Held \subseteq Held'
      BY <2>1, <2>2, <3>2 DEF Held
    <3> QED
      BY <1>1, <2>2, <2>6, <3>3, FoundFrame
  <2>7. CASE UNCHANGED spool /\ mode' = "memory"
    <3>1. OnSpool' = OnSpool
      BY <2>1, <2>7, OnSpoolFrame
    <3>2. Held \subseteq Held'
      BY <2>1, <2>2, <3>1 DEF Held
    <3> QED
      BY <1>1, <2>2, <2>7, <3>2, FoundFrame
  <2> QED
    BY <1>5, <2>4, <2>5, <2>6, <2>7 DEF Start, OpensSpool, OpensNoSpool
<1> QED
  BY <1>3, <1>4, <1>5

(* No step leaves a point nowhere.                                           *)
LEMMA FoundStep ==
  ASSUME IInv, LossInv, Moves
  PROVE  Found' /\ Saved'
<1>1. LifeInv /\ Found /\ Saved
  BY DEF LossInv
<1> USE DEF diskVars, queueVars, appendVars, historyVars
<1>2. ASSUME NEW d, WriteRetryFile(mode, waiting, d),
             UNCHANGED <<spool, stored, mode, memory, adding, reading, waiting, db, excused>>
      PROVE  Found' /\ Saved'
  <2>1. PICK m, w : m = mode /\ w = waiting
    OBVIOUS
  <2>2. WriteRetryFile(m, w, d)
    BY <1>2, <2>1
  <2>3. \/ m = "disk" /\ (unsaved' = FALSE => retry' = w)
        \/ UNCHANGED <<retry, unsaved>>
    <3>1. CASE m = "disk" /\ d = TRUE
      BY <2>2, <3>1, RetryWritten
    <3>2. CASE ~(m = "disk" /\ d = TRUE)
      BY <2>2, <3>2, RetryWritten
    <3> QED
      BY <3>1, <3>2
  <2>4. spool.segs = {} => retry' = retry
    BY <1>1, <2>1, <2>3 DEF LifeInv
  <2>5. OnSpool' = OnSpool
    BY <1>2, <2>4, OnSpoolFrame
  <2>6. InMemory' = InMemory /\ Adding' = Adding /\ Submitted' = Submitted /\ Waiting' = Waiting
    BY <1>2 DEF InMemory, Adding, Submitted, Waiting
  <2>7. Held' = Held
    BY <1>2, <2>5, <2>6 DEF Held
  <2>8. unsaved' = FALSE => (unsaved = FALSE /\ Kept' = Kept) \/ Waiting \subseteq Kept'
    BY <2>1, <2>3 DEF Kept, Waiting
  <2> QED
    BY <1>1, <1>2, <2>6, <2>7, <2>8, FoundFrame
<1>3. CASE AppendStep
  BY <1>3, FoundAppend
<1>4. CASE \E w \in Workers : \E n \in 1..MaxPoints : Submit(w, n)
  BY <1>4, FoundSubmit
<1>5. CASE RetireSegment \/ SetAsideSegment \/ ReadMemory
  BY <1>5, FoundRead
<1>6. CASE ConsumeMemory \/ ConsumeSpool
  BY <1>6, FoundConsume
<1>7. CASE CloseEnds \/ Exit \/ Kill \/ Start
  BY <1>7, FoundLife
<1>8. CASE ReadLive \/ ReadSpool \/ ConsumeLive
  <2>1. UNCHANGED <<spool, stored, retry, memory, adding, reading, waiting, db, excused, mode, unsaved>>
    BY <1>8 DEF ReadLive, ReadSpool, ConsumeLive
  <2> QED
    BY <2>1, FoundSame
<1>9. CASE PostStep
  <2>1. /\ UNCHANGED <<spool, stored, retry, mode, memory, adding, reading, unsaved>>
        /\ db \subseteq db' /\ excused \subseteq excused' /\ waiting \subseteq waiting'
    BY <1>9, PostFacts
  <2>2. /\ OnSpool' = OnSpool /\ InMemory' = InMemory /\ Adding' = Adding
        /\ Submitted' = Submitted /\ Kept' = Kept /\ Waiting \subseteq Waiting'
    BY <2>1, OnSpoolFrame DEF InMemory, Adding, Submitted, Kept, Waiting
  <2>3. Held \subseteq Held'
    BY <2>1, <2>2 DEF Held
  <2> QED
    BY <1>1, <2>1, <2>2, <2>3, FoundFrame
<1>10. CASE \E e \in due : Release(e)
  <2>1. /\ UNCHANGED <<spool, stored, retry, mode, memory, reading, waiting, db, excused, unsaved>>
        /\ adding = NoEntry
    BY <1>10 DEF Release
  <2>2. /\ OnSpool' = OnSpool /\ InMemory' = InMemory /\ Adding = {}
        /\ Submitted' = Submitted /\ Kept' = Kept /\ Waiting' = Waiting
    BY <2>1, OnSpoolFrame DEF InMemory, Adding, Submitted, Kept, Waiting
  <2>3. Held \subseteq Held'
    BY <2>1, <2>2 DEF Held
  <2> QED
    BY <1>1, <2>1, <2>2, <2>3, FoundFrame
<1>11. CASE ReleaseOver
  <2>1. PICK d : d = TRUE
    OBVIOUS
  <2> QED
    BY <1>2, <1>11, <2>1 DEF ReleaseOver
<1>12. CASE SaveRefused
  BY <1>2, <1>12 DEF SaveRefused
<1> QED
  BY <1>3, <1>4, <1>5, <1>6, <1>7, <1>8, <1>9, <1>10, <1>11, <1>12 DEF Moves, InPlace, AppendStep

-----------------------------------------------------------------------------
(* The second layer holds *)

(* It holds initially.                                                       *)
LEMMA LossInit ==
  ASSUME Init
  PROVE  LossInv
<1>1. spool.segs = {} /\ NonEmpty(spool) = {} /\ Submitted = {}
  <2>1. reading = [w \in Workers |-> 0]
    BY DEF Init
  <2>2. \A p \in Points : p[1] \in Workers /\ p[2] \in Nat /\ p[2] > 0
    BY SpoolAssumption DEF Points
  <2>3. Submitted = {}
    BY <2>1, <2>2 DEF Submitted
  <2> QED
    BY <2>3 DEF Init, EmptySpool, NonEmpty
<1>2. Rested(spool, stored)
  BY <1>1 DEF Rested
<1> QED
  BY <1>1, <1>2 DEF Init, LossInv, LifeInv, PosInv, ChunkAt, DoneKept, RetryInv, OwnQueue, MemoryChunk,
     PointsIn, Found, Saved

(* Every step keeps it.                                                      *)
LEMMA LossStep ==
  ASSUME IInv, LossInv, [Next]_vars
  PROVE  LossInv'
<1>1. IInv'
  BY NextIInv
<1>2. CASE QuietStep
  BY <1>2, QuietSteps, QuietKeeps
<1>3. CASE Moves
  <2>1. OwnQueue'
    BY OwnQueueStep DEF LossInv
  <2> QED
    BY <1>1, <1>3, <2>1, PlaceStep, ChunkStep, RetryStep, MemoryChunkStep, FoundStep DEF LossInv
<1> QED
  BY <1>2, <1>3, QuietOrMoves

(* What it holds of the points, a running process finds.                     *)
LEMMA LossFinds ==
  ASSUME IInv, LossInv
  PROVE  NothingForgotten
<1>1. LifeInv /\ PosInv /\ Found
  BY DEF LossInv
<1>2. CASE spool.segs = {}
  <2>1. mode = "memory"
    BY <1>1, <1>2 DEF LifeInv
  <2> QED
    BY <1>1, <1>2, <2>1 DEF Found, Held, OnSpool, NothingForgotten
<1>3. CASE spool.segs # {}
  <2>1. GoodSpool(spool) /\ Aimed(spool, stored)
    BY <1>1, <1>3, SpoolFacts DEF PosInv
  <2>2. Lying \subseteq Ahead(spool)
    BY <2>1, LiesAhead DEF Lying
  <2> QED
    BY <1>1, <1>3, <2>2 DEF Found, Held, OnSpool, NothingForgotten
<1> QED
  BY <1>2, <1>3

(* What lies in the spool is on disk.                                        *)
LEMMA SpoolIsOnDisk ==
  ASSUME IInv, PosInv
  PROVE  OnSpool \subseteq OnDisk
<1>1. CASE spool.segs = {}
  BY <1>1 DEF OnSpool
<1>2. CASE spool.segs # {}
  <2>1. /\ GoodSpool(spool) /\ spool.onDisk \subseteq spool.segs /\ stored \in Pointers
        /\ Aimed(spool, stored)
    BY <1>2, SpoolFacts DEF PosInv
  <2>2. Lying \subseteq Recoverable(spool, stored)
    BY <2>1, LiesRecoverable DEF Lying
  <2> QED
    BY <1>2, <2>2 DEF OnSpool, OnDisk
<1> QED
  BY <1>1, <1>2

(* And after a kill, the next process finds.                                 *)
LEMMA LossRecovers ==
  ASSUME IInv, LossInv
  PROVE  SurvivesKill
<1>1. PosInv /\ Found /\ Saved
  BY DEF LossInv
<1>2. unsaved \in BOOLEAN
  BY DEF IInv, HistoryTypeOK
<1>3. OnSpool \subseteq OnDisk
  BY <1>1, SpoolIsOnDisk
<1>4. Kept \subseteq OnDisk
  BY DEF Kept, OnDisk
<1>5. CASE mode = "disk" /\ unsaved = FALSE
  BY <1>1, <1>3, <1>4, <1>5 DEF Saved, Held, SurvivesKill, Volatile
<1>6. CASE ~(mode = "disk" /\ unsaved = FALSE)
  BY <1>1, <1>2, <1>3, <1>6 DEF Found, Held, SurvivesKill, Volatile
<1> QED
  BY <1>5, <1>6

-----------------------------------------------------------------------------
(* Heartbeats: what is left of them while the thread waits *)

(* A caller has been heard since the thread last cleared _wake, or will be.  *)
News == wake \/ rousing # {}

(* The queue is bounded.  The thread goes on to the spool, and looks for a   *)
(* later segment there, only with no heartbeat waiting; so while it posts    *)
(* and nothing is new, either the queue is empty or its head is the chunk.   *)
ReadsAlone   == tpc = "read" /\ lock = Thread => live = <<>>
NoneBehind   == ~News /\ kind \in {"spool", "memory"} => live = <<>>
ChunkLeads ==
  ~News /\ kind = "live" =>
    /\ Len(chunk) = IF Len(live) < ChunkPoints THEN Len(live) ELSE ChunkPoints
    /\ Len(chunk) > 0
    /\ \A i \in 1..Len(chunk) : chunk[i].e = Heartbeat(live[i])
HeldBounded ==
  ~News /\ tpc \in {"check", "wait"} /\ timer /\ ~refusing => Len(live) <= HeldAtMost

HeartInv == LiveBounded /\ ReadsAlone /\ NoneBehind /\ ChunkLeads /\ HeldBounded

(* Steps that leave the heartbeats and the chunk alone, and do not take the  *)
(* thread to where more is said of them.                                     *)
HeartQuiet ==
  /\ UNCHANGED <<live, kind, chunk>>
  /\ News => News'
  /\ tpc' = "read" /\ lock' = Thread => tpc = "read" /\ (lock = Thread \/ live = <<>>)
  /\ tpc' \in {"check", "wait"} =>
       tpc \in {"check", "wait"} /\ (timer' => timer) /\ refusing' = refusing

(* They keep the invariant.                                                  *)
LEMMA HeartQuietKeeps ==
  ASSUME HeartInv, HeartQuiet
  PROVE  HeartInv'
<1> USE DEF HeartQuiet
<1>1. LiveBounded' /\ ReadsAlone' /\ NoneBehind'
  BY DEF HeartInv, LiveBounded, ReadsAlone, NoneBehind
<1>2. ChunkLeads'
  BY DEF HeartInv, ChunkLeads
<1>3. HeldBounded'
  BY DEF HeartInv, HeldBounded
<1> QED
  BY <1>1, <1>2, <1>3 DEF HeartInv

(* The steps that are such.                                                  *)
HeartSteps ==
  \/ AppendStep \/ ThreadTop \/ ReleaseStep \/ RetireSegment \/ SetAsideSegment \/ PostStep \/ SaveRefused
  \/ ThreadCheck \/ ThreadWakes \/ TimerRunsOut \/ (\E e \in waiting : FallsDue(e))
  \/ Start \/ Close \/ CloseEnds \/ UNCHANGED vars
  \/ \E w \in Workers : SubmitAgain(w) \/ Rouse(w) \/ \E n \in 1..MaxPoints : Submit(w, n)

(* They are.                                                                 *)
LEMMA HeartStepsQuiet ==
  ASSUME HeartSteps
  PROVE  HeartQuiet
<1> USE DEF HeartQuiet, News, diskVars, queueVars, appendVars, timerVars, threadVars, chunkVars,
            historyVars, Goto
<1>1. Thread \notin Workers /\ Thread # Nobody
  BY WriterAssumption
<1>2. CASE AppendStep
  <2>1. AppendOver \/ UNCHANGED appendVars
    BY <1>2 DEF AppendStep, MoveToSpool, WriteToSpool, AppendFails, AppendToMemory, KeepInMemory
  <2>2. UNCHANGED <<live, threadVars, timerVars, wake>>
    BY <1>2 DEF AppendStep, MoveToSpool, WriteToSpool, AppendFails, AppendToMemory
  <2> QED
    BY <1>1, <2>1, <2>2 DEF AppendOver
<1>3. CASE ThreadTop \/ ReleaseStep
  <2>1. CASE ThreadTop
    BY <2>1 DEF ThreadTop
  <2>2. CASE ThreadDue
    BY <2>2 DEF ThreadDue
  <2>3. CASE \E e \in due : Release(e)
    BY <2>3 DEF Release
  <2>4. CASE ReleaseOver
    BY <2>4 DEF ReleaseOver
  <2> QED
    BY <1>3, <2>1, <2>2, <2>3, <2>4 DEF ReleaseStep
<1>4. CASE RetireSegment \/ SetAsideSegment
  BY <1>1, <1>4 DEF RetireSegment, SetAsideSegment, AtSpool, TakesLive
<1>5. CASE PostStep
  <2>1. UNCHANGED <<live, kind, chunk, wake, rousing>> /\ tpc' \in {"post", "single", "save"}
    BY <1>5 DEF PostStep, PostAccepted, PostRefused, PostUnanswered, DropUnconfigured, SingleAccepted,
       SingleRefused, GroupOver, NextSingle
  <2> QED
    BY <2>1
<1>6. CASE SaveRefused
  BY <1>6 DEF SaveRefused
<1>7. CASE ThreadCheck \/ ThreadWakes
  BY <1>7 DEF ThreadCheck, ThreadWakes
<1>8. CASE TimerRunsOut \/ (\E e \in waiting : FallsDue(e))
  BY <1>8 DEF TimerRunsOut, FallsDue
<1>9. CASE Start \/ Close \/ CloseEnds
  BY <1>9 DEF Start, Close, CloseEnds
<1>10. CASE UNCHANGED vars
  BY <1>10 DEF vars
<1>11. CASE \E w \in Workers : SubmitAgain(w) \/ Rouse(w) \/ \E n \in 1..MaxPoints : Submit(w, n)
  BY <1>1, <1>11 DEF SubmitAgain, Rouse, Submit
<1> QED
  BY <1>2, <1>3, <1>4, <1>5, <1>6, <1>7, <1>8, <1>9, <1>10, <1>11 DEF HeartSteps

(* A chunk of heartbeats is the head of the queue.                           *)
LEMMA LiveChunkLeads ==
  ASSUME QueueTypeOK, ReadLive, live # <<>>
  PROVE  ChunkLeads' /\ kind' = "live" /\ tpc' = "post" /\ live' = live
<1>1. live \in Seq(HeartbeatIds) /\ live # <<>>
  BY DEF QueueTypeOK
<1>2. PICK n \in Nat \ {0} : /\ n = IF Len(live) < ChunkPoints THEN Len(live) ELSE ChunkPoints
                            /\ DOMAIN FirstOf(live, ChunkPoints) = 1..n
  BY <1>1, FirstOfType
<1>3. NewChunk("live", [i \in DOMAIN FirstOf(live, ChunkPoints) |->
                          [e |-> Heartbeat(live[i]), end |-> NoPtr]])
      /\ live' = live
  BY DEF ReadLive, queueVars
<1>4. chunk' = [i \in 1..n |-> [e |-> Heartbeat(live[i]), end |-> NoPtr]]
      /\ kind' = "live" /\ tpc' = "post" /\ live' = live
  BY <1>2, <1>3 DEF NewChunk, Goto
<1>5. Len(chunk') = n /\ \A i \in 1..n : chunk'[i].e = Heartbeat(live[i])
  BY <1>4
<1> QED
  BY <1>2, <1>4, <1>5 DEF ChunkLeads

(* Of a queue whose head is consumed at least that head goes.                *)
LEMMA AfterShorter ==
  ASSUME NEW S, NEW q \in Seq(S), NEW es, NEW n \in 0..Len(q), \A i \in 1..n : q[i] \in es
  PROVE  Lead(q, es) \in Nat /\ Lead(q, es) >= n /\ Len(After(q, es)) <= Len(q) - n
<1>1. PICK m : m = Lead(q, es)
  OBVIOUS
<1>2. m \in Nat /\ m <= Len(q) /\ n <= m /\ Len(q) \in Nat /\ n \in Nat
  BY <1>1, LeadFacts
<1>3. Len(DropFirst(q, m)) = Len(q) - m
  BY <1>2, DropFirstFacts
<1> QED
  BY <1>1, <1>2, <1>3 DEF After

(* A chunk of heartbeats that failed is dropped whole; one that was answered *)
(* ends well, as some of it is gone from the queue.                          *)
LEMMA HeartConsumed ==
  ASSUME IInv, HeartInv, ConsumeLive
  PROVE  HeartInv'
<1>1. /\ ThreadTypeOK /\ live \in Seq(HeartbeatIds) /\ LiveBounded /\ ChunkLeads
      /\ chunk \in Seq(ChunkEntries)
  BY DEF IInv, ThreadInv, QueueInv, QueueTypeOK, ThreadTypeOK, HeartInv
<1>2. PICK es : es = {e.live : e \in ConsumedEntries}
  OBVIOUS
<1>3. /\ live' = After(live, es) /\ PassGoesOn(Progress(live, es))
      /\ lock = Nobody /\ kind = "live" /\ UNCHANGED <<lock, rousing, wake>>
  BY <1>2 DEF ConsumeLive, appendVars
<1>4. kind' = "none" /\ chunk' = <<>> /\ tpc' \in {"read", "check"}
  BY <1>3 DEF PassGoesOn, EmptyChunk, Goto
<1>5. Len(live) \in Nat /\ LivePoints \in Nat /\ ChunkPoints \in Nat \ {0} /\ Len(chunk) \in Nat
  BY <1>1, WriterAssumption, SpoolAssumption
<1>6. LiveBounded'
  <2>0. PICK n : n = 0
    OBVIOUS
  <2>1. Len(After(live, es)) <= Len(live) - n
    <3>1. n \in 0..Len(live) /\ \A i \in 1..n : live[i] \in es
      BY <1>5, <2>0
    <3> QED
      BY <1>1, <3>1, AfterShorter
  <2>2. After(live, es) \in Seq(HeartbeatIds)
    BY <1>1, AfterType
  <2> QED
    BY <1>1, <1>3, <1>5, <2>0, <2>1, <2>2 DEF LiveBounded
<1>7. ReadsAlone' /\ NoneBehind' /\ ChunkLeads'
  BY <1>3, <1>4, WriterAssumption DEF ReadsAlone, NoneBehind, ChunkLeads
<1>8. HeldBounded'
  <2>1. SUFFICES ASSUME ~News', tpc' = "check", timer', ~refusing'
                 PROVE  Len(live') <= HeldAtMost
    BY <1>4 DEF HeldBounded
  <2>2. ~News
    BY <1>3, <2>1 DEF News
  <2>3. /\ Len(chunk) = IF Len(live) < ChunkPoints THEN Len(live) ELSE ChunkPoints
        /\ Len(chunk) > 0 /\ \A i \in 1..Len(chunk) : chunk[i].e = Heartbeat(live[i])
    BY <1>1, <1>3, <2>2 DEF ChunkLeads
  <2>4. ASSUME NEW i \in 1..Len(chunk), i <= Consumed, Consumed \in Nat
        PROVE  live[i] \in es
    <3>1. chunk[i].e \in ConsumedEntries
      BY <2>4 DEF ConsumedEntries
    <3>2. PICK e : e = chunk[i].e
      OBVIOUS
    <3>3. e = [live |-> live[i]]
      BY <2>3, <3>2 DEF Heartbeat
    <3>4. e.live = live[i]
      BY <3>3
    <3> QED
      BY <1>2, <3>1, <3>2, <3>4
  <2>5. CASE outcome = "failed"
    <3>1. Consumed = Len(chunk)
      BY <1>3, <2>5 DEF Consumed
    <3>2. PICK n : n = Len(chunk)
      OBVIOUS
    <3>3. n \in 0..Len(live) /\ \A i \in 1..n : live[i] \in es
      BY <1>5, <2>3, <2>4, <3>1, <3>2
    <3>4. Len(live') <= Len(live) - n
      BY <1>1, <1>3, <3>3, AfterShorter
    <3>5. live' \in Seq(HeartbeatIds)
      BY <1>1, <1>3, AfterType
    <3> QED
      BY <1>1, <1>5, <2>3, <3>2, <3>3, <3>4, <3>5 DEF HeldAtMost, LiveBounded
  <2>6. CASE outcome # "failed"
    <3>1. Verdict(Progress(live, es)) # "sent"
      BY <1>3, <2>1 DEF PassGoesOn, Goto
    <3>2. Consumed > 0 /\ ~Progress(live, es)
      BY <1>3, <2>6, <3>1 DEF Verdict
    <3>3. Consumed \in Nat /\ Consumed <= Len(chunk)
      BY <1>1, <2>6, HandledIsNat DEF Consumed
    <3>4. 1 \in 0..Len(live) /\ \A i \in 1..1 : live[i] \in es
      BY <1>5, <2>3, <2>4, <3>2, <3>3
    <3>5. Lead(live, es) \in Nat /\ Lead(live, es) >= 1
      BY <1>1, <3>4, AfterShorter
    <3> QED
      BY <3>2, <3>5 DEF Progress
  <2> QED
    BY <2>5, <2>6
<1> QED
  BY <1>6, <1>7, <1>8 DEF HeartInv

(* Every other step keeps it.                                                *)
LEMMA HeartStep ==
  ASSUME IInv, HeartInv, ChunkAt, [Next]_vars
  PROVE  HeartInv'
<1>1. /\ QueueTypeOK /\ live \in Seq(HeartbeatIds) /\ Len(live) \in Nat /\ Len(live) <= LivePoints
      /\ HeldAtMost \in Nat /\ LivePoints \in Nat
  BY WriterAssumption, SpoolAssumption DEF IInv, QueueInv, QueueTypeOK, HeartInv, LiveBounded, HeldAtMost
<1>2. Thread \notin Workers /\ Thread # Nobody
  BY WriterAssumption
<1> USE DEF queueVars, appendVars, timerVars, threadVars, chunkVars, Goto
<1>3. CASE HeartSteps
  BY <1>3, HeartStepsQuiet, HeartQuietKeeps
<1>4. ASSUME NEW w \in Workers, NEW h \in HeartbeatIds, SubmitLive(w, h)
      PROVE  HeartInv'
  <2>1. News' /\ lock' = Nobody
    BY <1>4 DEF SubmitLive, News, CallerFree
  <2>2. live' = IF Len(live) >= LivePoints THEN Append(Tail(live), h) ELSE Append(live, h)
    BY <1>4 DEF SubmitLive
  <2>3. LivePoints > 0
    BY <1>1, <1>4 DEF HeartbeatIds
  <2>4. CASE Len(live) >= LivePoints
    <3>1. live # <<>> /\ live' = Append(Tail(live), h)
      BY <1>1, <2>2, <2>3, <2>4
    <3>2. Tail(live) \in Seq(HeartbeatIds) /\ Len(Tail(live)) = Len(live) - 1
      BY <1>1, <3>1
    <3>3. Len(live') = Len(live)
      BY <1>1, <3>1, <3>2
    <3> QED
      BY <1>1, <1>2, <2>1, <3>3 DEF HeartInv, LiveBounded, ReadsAlone, NoneBehind, ChunkLeads, HeldBounded
  <2>5. CASE ~(Len(live) >= LivePoints)
    <3>1. Len(live') = Len(live) + 1
      BY <1>1, <2>2, <2>5
    <3>2. Len(live') <= LivePoints
      BY <1>1, <2>5, <3>1
    <3> QED
      BY <1>2, <2>1, <3>2 DEF HeartInv, LiveBounded, ReadsAlone, NoneBehind, ChunkLeads, HeldBounded
  <2> QED
    BY <2>4, <2>5
<1>5. ASSUME live' = <<>> \/ (live' = live /\ tpc' \notin {"check", "wait"}),
             kind' \in {"none", "spool", "memory"}, live' # <<>> => kind' = "none",
             live' # <<>> /\ tpc' = "read" => lock' # Thread
      PROVE  HeartInv'
  <2>1. Len(live') \in Nat /\ Len(live') <= LivePoints /\ (live' = <<>> => Len(live') = 0)
    BY <1>1, <1>5
  <2> QED
    BY <1>1, <1>5, <2>1 DEF HeartInv, LiveBounded, ReadsAlone, NoneBehind, ChunkLeads, HeldBounded
<1>6. CASE ThreadTimer
  <2>1. kind = "none"
    BY <1>6 DEF ThreadTimer, ChunkAt, Posting
  <2>2. /\ live' = DropsLive(live) \/ (live' = live /\ tpc' = "read")
        /\ kind' = kind /\ lock' = Nobody
    BY <1>6 DEF ThreadTimer
  <2> QED
    BY <1>2, <1>5, <2>1, <2>2 DEF DropsLive
<1>7. CASE ReadLive
  <2>1. CASE live # <<>>
    <3>1. ChunkLeads' /\ kind' = "live" /\ tpc' = "post" /\ live' = live
      BY <1>1, <1>7, <2>1, LiveChunkLeads
    <3> QED
      BY <1>1, <3>1 DEF HeartInv, LiveBounded, ReadsAlone, NoneBehind, HeldBounded
  <2>2. CASE live = <<>>
    <3>1. live' = <<>> /\ kind' = "none"
      BY <1>7, <2>2 DEF ReadLive, Idle, EmptyChunk
    <3> QED
      BY <1>5, <3>1
  <2> QED
    BY <2>1, <2>2
<1>8. CASE ReadSpool \/ ReadMemory
  <2>1. live = <<>>
    BY <1>8 DEF ReadSpool, ReadMemory, AtSpool, TakesLive, HeartInv, ReadsAlone
  <2>2. live' = live /\ kind' \in {"none", "spool", "memory"}
    BY <1>8 DEF ReadSpool, ReadMemory, NewChunk, Idle, EmptyChunk
  <2> QED
    BY <1>5, <2>1, <2>2
<1>9. CASE ConsumeLive
  BY <1>9, HeartConsumed
<1>10. CASE ConsumeMemory \/ ConsumeSpool
  <2>1. /\ live' = live /\ kind \in {"memory", "spool"} /\ lock = Nobody /\ UNCHANGED <<lock, rousing, wake>>
        /\ \E removed : PassGoesOn(removed)
    BY <1>10 DEF ConsumeMemory, ConsumeSpool
  <2>2. kind' = "none" /\ tpc' \in {"read", "check"} /\ lock' # Thread
    BY <1>2, <2>1 DEF PassGoesOn, EmptyChunk
  <2>3. CASE News
    <3>1. News'
      BY <2>1, <2>3 DEF News
    <3> QED
      BY <1>1, <2>1, <2>2, <3>1 DEF HeartInv, LiveBounded, ReadsAlone, NoneBehind, ChunkLeads, HeldBounded
  <2>4. CASE ~News
    <3>1. live = <<>>
      BY <2>1, <2>4 DEF HeartInv, NoneBehind
    <3> QED
      BY <1>5, <2>1, <2>2, <3>1
  <2> QED
    BY <2>3, <2>4
<1>11. CASE ThreadClears
  <2>1. kind = "none"
    BY <1>11 DEF ThreadClears, ChunkAt, Posting
  <2>2. live' = live /\ kind' = kind /\ tpc' = "top"
    BY <1>11 DEF ThreadClears
  <2> QED
    BY <1>5, <2>1, <2>2
<1>12. CASE Exit \/ Kill
  <2>1. live' = <<>> /\ kind' = "none"
    BY <1>12 DEF Exit, Kill, ProcessEnds, NoThread, EmptyChunk
  <2> QED
    BY <1>5, <2>1
<1> QED
  BY <1>3, <1>4, <1>6, <1>7, <1>8, <1>9, <1>10, <1>11, <1>12
     DEF HeartSteps, Next, AppendStep, CallerStep, ThreadStep, ReleaseStep, ReadStep, ConsumeStep, WaitStep

(* A queue that takes an entry is within its bound still.                    *)
LEMMA PushBounded ==
  ASSUME NEW q \in Seq(Entries), NEW e \in Entries, Len(q) <= MemoryPoints
  PROVE  Len(Push(q, e)) <= MemoryPoints
<1>1. MemoryPoints \in Nat /\ MemoryPoints > 0 /\ Len(q) \in Nat
  BY WriterAssumption
<1>2. CASE Len(q) >= MemoryPoints
  <2>1. q # <<>>
    BY <1>1, <1>2
  <2>2. Tail(q) \in Seq(Entries) /\ Len(Tail(q)) = Len(q) - 1
    BY <2>1
  <2>3. Len(Append(Tail(q), e)) = Len(q)
    BY <1>1, <2>2
  <2> QED
    BY <1>2, <2>3 DEF Push
<1>3. CASE ~(Len(q) >= MemoryPoints)
  <2>1. Len(Append(q, e)) = Len(q) + 1
    BY <1>1
  <2> QED
    BY <1>1, <1>3, <2>1 DEF Push
<1> QED
  BY <1>2, <1>3

(* Every step keeps the memory queues within their bound.                    *)
LEMMA MemoryBoundedStep ==
  ASSUME IInv, MemoryBounded, Next
  PROVE  MemoryBounded'
<1>1. /\ memory \in [Workers -> Seq(Entries)] /\ adding \in Entries \cup {NoEntry}
      /\ MemoryPoints \in Nat /\ \A v \in Workers : Len(memory[v]) \in Nat
  BY WriterAssumption DEF IInv, QueueInv, QueueTypeOK
<1>2. ASSUME NEW w, NEW q, Len(q) <= MemoryPoints, memory' = [memory EXCEPT ![w] = q] PROVE MemoryBounded'
  BY <1>1, <1>2 DEF MemoryBounded
<1>3. ASSUME NEW w \in Workers, MoveToSpool(w) PROVE MemoryBounded'
  <2>1. memory[w] \in Seq(Entries) /\ memory[w] # <<>> /\ memory' = [memory EXCEPT ![w] = Tail(@)]
    BY <1>1, <1>3 DEF MoveToSpool
  <2>2. Len(Tail(memory[w])) = Len(memory[w]) - 1
    BY <2>1
  <2>3. Len(Tail(memory[w])) <= MemoryPoints
    BY <1>1, <2>2 DEF MemoryBounded
  <2> QED
    BY <1>2, <2>1, <2>3
<1>4. CASE AppendFails \/ AppendToMemory
  <2>1. adding \in Entries /\ KeepInMemory
    BY <1>1, <1>4 DEF AppendFails, AppendToMemory
  <2>2. PICK w \in Workers : w = adding.p[1]
    BY <2>1 DEF Entries, Points
  <2>3. memory' = [memory EXCEPT ![w] = Push(@, adding)]
    BY <2>1, <2>2 DEF KeepInMemory
  <2>4. Len(Push(memory[w], adding)) <= MemoryPoints
    BY <1>1, <2>1, PushBounded DEF MemoryBounded
  <2> QED
    BY <1>2, <2>3, <2>4
<1>5. CASE ConsumeMemory
  <2>1. PICK w, n : n = Removed /\ memory' = [memory EXCEPT ![w] = DropFirst(@, n)]
    BY <1>5 DEF ConsumeMemory
  <2>2. n \in Nat
    BY <1>5, <2>1, RemovedIsNat DEF ConsumeMemory, IInv, ThreadInv, QueueInv
  <2>3. ASSUME w \in Workers PROVE Len(DropFirst(memory[w], n)) <= MemoryPoints
    <3>1. memory[w] \in Seq(Entries) /\ Len(memory[w]) <= MemoryPoints
      BY <1>1, <2>3 DEF MemoryBounded
    <3>2. Len(DropFirst(memory[w], n)) <= Len(memory[w])
      BY <2>2, <3>1, DropFirstShortens
    <3> QED
      BY <1>1, <2>3, <3>1, <3>2, DropFirstFacts, <2>2
  <2>4. CASE w \in Workers
    BY <1>2, <2>1, <2>3, <2>4
  <2>5. CASE w \notin Workers
    BY <1>1, <2>1, <2>5 DEF MemoryBounded
  <2> QED
    BY <2>4, <2>5
<1>6. ASSUME UNCHANGED memory PROVE MemoryBounded'
  BY <1>6 DEF MemoryBounded
<1>7. CASE WriteToSpool \/ CallerStep \/ ThreadTop \/ ReleaseStep \/ ThreadTimer \/ ReadStep \/ PostStep \/ WaitStep
  BY <1>6, <1>7 DEF WriteToSpool, CallerStep, Submit, SubmitAgain, SubmitLive, Rouse, ThreadTop, ReleaseStep,
     ThreadDue, Release, ReleaseOver, ThreadTimer, ReadStep, ReadLive, ReadSpool, RetireSegment,
     SetAsideSegment, ReadMemory, PostStep, PostAccepted, PostRefused, PostUnanswered, DropUnconfigured,
     SingleAccepted, SingleRefused, WaitStep, ThreadCheck, ThreadWakes, ThreadClears, queueVars
<1>8. CASE SaveRefused \/ ConsumeLive \/ ConsumeSpool
  BY <1>6, <1>8 DEF SaveRefused, ConsumeLive, ConsumeSpool, queueVars
<1>9. CASE TimerRunsOut \/ (\E e \in waiting : FallsDue(e)) \/ Close \/ CloseEnds \/ Start
  BY <1>6, <1>9 DEF TimerRunsOut, FallsDue, Close, CloseEnds, Start, queueVars
<1>10. CASE Exit \/ Kill
  <2>1. memory' = [w \in Workers |-> <<>>]
    BY <1>10 DEF Exit, Kill, ProcessEnds
  <2> QED
    BY <1>1, <2>1 DEF MemoryBounded
<1> QED
  BY <1>3, <1>4, <1>5, <1>7, <1>8, <1>9, <1>10 DEF Next, AppendStep, ThreadStep, ConsumeStep

(* It holds initially.                                                       *)
LEMMA HeartInit ==
  ASSUME Init
  PROVE  HeartInv
BY WriterAssumption DEF Init, HeartInv, LiveBounded, ReadsAlone, NoneBehind, ChunkLeads, HeldBounded

-----------------------------------------------------------------------------
(* A pass that deals with points removes some of them *)

(* No heartbeat is in the queue twice, and of a chunk of them the first is   *)
(* at the queue's head or nowhere in it.                                     *)
LiveApart ==
  /\ \A i, j \in DOMAIN live : live[i] = live[j] => i = j
  /\ kind = "live" =>
       /\ chunk # <<>>
       /\ \E h \in HeartbeatIds : chunk[1].e = Heartbeat(h) /\ \A j \in DOMAIN live : live[j] = h => j = 1

(* A pass is stuck only where it consumed points and removed none.           *)
LEMMA NotStuck ==
  ASSUME NEW removed, PassGoesOn(removed), Consumed \in Nat, Consumed = 0 \/ removed, ~stuck
  PROVE  ~stuck'
<1>1. PICK verdict : verdict = Verdict(removed)
  OBVIOUS
<1>2. verdict # "stuck"
  <2>1. ~(Consumed > 0 /\ ~removed)
    OBVIOUS
  <2> QED
    BY <1>1, <2>1 DEF Verdict
<1> QED
  BY <1>1, <1>2 DEF PassGoesOn

(* What is consumed of a memory queue was in it, or has left it meanwhile.   *)
LEMMA MemoryProgress ==
  ASSUME IInv, ~stuck, ConsumeMemory
  PROVE  ~stuck'
<1>1. gone \in Nat /\ Consumed \in Nat
  BY RemovedIsNat DEF IInv, QueueInv, QueueTypeOK, ThreadInv, ConsumeMemory
<1>2. Consumed = 0 \/ (Removed > 0 \/ gone > 0)
  BY <1>1 DEF Removed
<1> QED
  BY <1>1, <1>2, NotStuck DEF ConsumeMemory

(* The pointer moves for what is consumed of a segment that is still there.  *)
LEMMA SpoolProgress ==
  ASSUME IInv, LossInv, ~stuck, ConsumeSpool
  PROVE  ~stuck'
<1>1. ThreadTypeOK /\ kind = "spool" /\ PosInv /\ ChunkAt
  BY DEF IInv, ThreadInv, ConsumeSpool, LossInv
<1>2. Consumed \in Nat
  BY <1>1, HandledIsNat DEF Consumed
<1>3. CASE Consumed = 0
  BY <1>2, <1>3, NotStuck DEF ConsumeSpool
<1>4. CASE Consumed # 0
  <2>1. PICK end, t : end = chunk[Consumed].end /\ t = SpoolAfter(end)
    OBVIOUS
  <2>2. spool' = t
    BY <1>4, <2>1 DEF ConsumeSpool
  <2>3. CASE end[1] \notin spool.segs
    BY <1>2, <1>4, <2>1, <2>3, NotStuck DEF ConsumeSpool
  <2>4. CASE end[1] \in spool.segs
    <3>1. /\ end[1] = spool.ptr[1] /\ spool.ptr[1] \in spool.segs /\ spool.ptr # end
          /\ t = Past(spool, end)
      BY <1>1, <1>4, <2>1, <2>4, ConsumedPlaced
    <3>2. spool \in SpoolType
      BY SpoolFacts
    <3>3. t.ptr # spool.ptr
      <4>1. CASE t = [spool EXCEPT !.ptr = end]
        BY <3>1, <3>2, <4>1 DEF SpoolType
      <4>2. CASE t = Retired(spool, end[1])
        <5>1. PICK g \in SegIds : g = end[1]
          BY <2>4, <3>2 DEF SpoolType
        <5>2. PICK left : left = spool.segs \ {g}
          OBVIOUS
        <5>3. PICK p : p = (IF left # {} THEN <<Min(left), 0>> ELSE <<g + 1, 0>>)
          OBVIOUS
        <5>4. Retired(spool, g).ptr = p
          BY <3>2, <5>2, <5>3 DEF Retired, WithoutPointer, SpoolType
        <5>5. p[1] # g
          <6>1. CASE left = {}
            BY <5>3, <6>1 DEF SegIds
          <6>2. CASE left # {}
            <7>1. left \in SUBSET Nat
              BY <3>2, <5>2 DEF SpoolType, SegIds
            <7>2. Min(left) \in left
              BY <6>2, <7>1, MinIsLeast
            <7> QED
              BY <5>2, <5>3, <6>2, <7>2
          <6> QED
            BY <6>1, <6>2
        <5> QED
          BY <3>1, <4>2, <5>1, <5>4, <5>5
      <4> QED
        BY <3>1, <4>1, <4>2 DEF Past
    <3>4. PassGoesOn(spool'.ptr # spool.ptr)
      BY <1>4, <2>1, <2>4 DEF ConsumeSpool
    <3>5. PICK removed \in BOOLEAN : removed = TRUE
      OBVIOUS
    <3>6. spool'.ptr # spool.ptr
      BY <2>2, <3>3
    <3>7. PICK moved : moved = (spool'.ptr # spool.ptr)
      OBVIOUS
    <3>8. PassGoesOn(moved)
      BY <3>4, <3>7, Zenon
    <3>9. moved
      BY <3>6, <3>7
    <3> QED
      BY <1>2, <3>8, <3>9, NotStuck
  <2> QED
    BY <2>3, <2>4
<1> QED
  BY <1>3, <1>4

(* The first of a chunk of heartbeats is removed, or was gone before.        *)
LEMMA LiveProgress ==
  ASSUME IInv, LiveApart, ~stuck, ConsumeLive
  PROVE  LiveApart' /\ ~stuck'
<1>1. /\ ThreadTypeOK /\ live \in Seq(HeartbeatIds) /\ chunk \in Seq(ChunkEntries) /\ kind = "live"
  BY DEF IInv, ThreadInv, QueueInv, QueueTypeOK, ThreadTypeOK, ConsumeLive
<1>2. PICK es : es = {e.live : e \in ConsumedEntries}
  OBVIOUS
<1>3. live' = After(live, es) /\ PassGoesOn(Progress(live, es))
  BY <1>2 DEF ConsumeLive
<1>4. PICK m : m = Lead(live, es)
  OBVIOUS
<1>5. m \in Nat /\ m <= Len(live) /\ Len(live) \in Nat
  BY <1>1, <1>4, LeadFacts
<1>6. LiveApart'
  <2>1. kind' = "none"
    BY <1>3 DEF PassGoesOn, EmptyChunk
  <2>2. PICK r \in Seq(HeartbeatIds) : r = DropFirst(live, m)
    BY <1>1, <1>5, DropFirstFacts
  <2>3. Len(r) = Len(live) - m /\ \A j \in 1..Len(live) - m : r[j] = live[m + j]
    BY <1>1, <1>5, <2>2, DropFirstFacts
  <2>4. ASSUME NEW i \in DOMAIN r, NEW j \in DOMAIN r, r[i] = r[j] PROVE i = j
    <3>1. i \in 1..Len(live) - m /\ j \in 1..Len(live) - m
      BY <2>2, <2>3, <2>4
    <3>2. m + i \in 1..Len(live) /\ m + j \in 1..Len(live) /\ live[m + i] = live[m + j]
      BY <1>5, <2>3, <2>4, <3>1
    <3>3. m + i = m + j
      BY <1>1, <3>2 DEF LiveApart
    <3> QED
      BY <1>5, <3>1, <3>3
  <2>5. live' = r
    BY <1>3, <1>4, <2>2 DEF After
  <2> QED
    BY <2>1, <2>4, <2>5 DEF LiveApart
<1>7. Consumed \in Nat
  BY <1>1, HandledIsNat DEF Consumed, ThreadTypeOK
<1>8. ASSUME Consumed # 0 PROVE Progress(live, es)
  <2>1. PICK h \in HeartbeatIds : chunk[1].e = Heartbeat(h) /\ \A j \in DOMAIN live : live[j] = h => j = 1
    BY <1>1 DEF LiveApart
  <2>2. h \in es
    <3>1. PICK e : e = chunk[1].e
      OBVIOUS
    <3>2. e \in ConsumedEntries
      <4>1. 1 \in 1..Consumed
        BY <1>7, <1>8
      <4> QED
        BY <3>1, <4>1 DEF ConsumedEntries
    <3>3. e = [live |-> h]
      BY <2>1, <3>1 DEF Heartbeat
    <3>4. e.live = h
      BY <3>3
    <3> QED
      BY <1>2, <3>2, <3>4
  <2>3. CASE \E j \in DOMAIN live : live[j] = h
    <3>1. 1 \in DOMAIN live /\ live[1] = h
      BY <2>1, <2>3
    <3>2. PICK n : n = 1
      OBVIOUS
    <3>3. n \in 0..Len(live) /\ \A i \in 1..n : live[i] \in es
      BY <1>1, <2>2, <3>1, <3>2
    <3>4. Lead(live, es) \in Nat /\ Lead(live, es) >= n
      BY <1>1, <3>3, LeadFacts
    <3>5. Lead(live, es) > 0
      BY <3>2, <3>4
    <3> QED
      BY <3>5 DEF Progress
  <2>4. CASE ~\E j \in DOMAIN live : live[j] = h
    BY <2>2, <2>4 DEF Progress
  <2> QED
    BY <2>3, <2>4
<1>9. ~stuck'
  BY <1>3, <1>7, <1>8, NotStuck
<1> QED
  BY <1>6, <1>9

(* Every step keeps that.                                                    *)
LEMMA ProgressStep ==
  ASSUME IInv, LossInv, LiveApart, ~stuck, [Next]_vars
  PROVE  LiveApart' /\ ~stuck'
<1>1. QueueTypeOK /\ live \in Seq(HeartbeatIds) /\ Len(live) \in Nat /\ LivePoints \in Nat
  BY WriterAssumption DEF IInv, QueueInv, QueueTypeOK
<1>2. tpc \notin Posting => kind = "none"
  BY DEF LossInv, ChunkAt
<1> USE DEF queueVars, threadVars, chunkVars, historyVars
<1>3. CASE HeartSteps
  <2>1. UNCHANGED <<live, kind, chunk>>
    BY <1>3, HeartStepsQuiet DEF HeartQuiet
  <2>2. stuck' = stuck
    <3>1. CASE AppendStep
      BY <3>1 DEF AppendStep, MoveToSpool, WriteToSpool, AppendFails, AppendToMemory
    <3>2. CASE ThreadTop \/ ReleaseStep \/ RetireSegment \/ SetAsideSegment \/ SaveRefused
      BY <3>2 DEF ThreadTop, ReleaseStep, ThreadDue, Release, ReleaseOver, RetireSegment, SetAsideSegment, SaveRefused
    <3>3. CASE PostStep
      BY <3>3 DEF PostStep, PostAccepted, PostRefused, PostUnanswered, DropUnconfigured, SingleAccepted,
         SingleRefused
    <3>4. CASE ThreadCheck \/ ThreadWakes \/ TimerRunsOut \/ (\E e \in waiting : FallsDue(e))
      BY <3>4 DEF ThreadCheck, ThreadWakes, TimerRunsOut, FallsDue
    <3>5. CASE Start \/ Close \/ CloseEnds \/ UNCHANGED vars
      BY <3>5 DEF Start, Close, CloseEnds, vars
    <3>6. CASE \E w \in Workers : SubmitAgain(w) \/ Rouse(w) \/ \E n \in 1..MaxPoints : Submit(w, n)
      BY <3>6 DEF SubmitAgain, Rouse, Submit
    <3> QED
      BY <1>3, <3>1, <3>2, <3>3, <3>4, <3>5, <3>6 DEF HeartSteps
  <2> QED
    BY <2>1, <2>2 DEF LiveApart
<1>4. ASSUME NEW w \in Workers, NEW h \in HeartbeatIds, SubmitLive(w, h)
      PROVE  LiveApart' /\ ~stuck'
  <2>1. UNCHANGED <<kind, chunk, stuck>> /\ h \notin InUse
    BY <1>4 DEF SubmitLive
  <2>2. live' = IF Len(live) >= LivePoints THEN Append(Tail(live), h) ELSE Append(live, h)
    BY <1>4 DEF SubmitLive
  <2>3. PICK m \in Nat, r \in Seq(HeartbeatIds) :
          /\ m <= Len(live) /\ Len(r) = Len(live) - m /\ \A j \in 1..Len(r) : r[j] = live[m + j]
          /\ live' = Append(r, h)
    <3>1. CASE Len(live) >= LivePoints
      <4>1. live # <<>>
        BY <1>1, <1>4, <3>1 DEF HeartbeatIds
      <4>2. /\ Tail(live) \in Seq(HeartbeatIds) /\ Len(Tail(live)) = Len(live) - 1 /\ 1 <= Len(live)
            /\ \A j \in 1..Len(Tail(live)) : Tail(live)[j] = live[1 + j]
        BY <1>1, <4>1
      <4> QED
        BY <2>2, <3>1, <4>2
    <3>2. CASE ~(Len(live) >= LivePoints)
      <4>1. Len(live) = Len(live) - 0 /\ 0 <= Len(live) /\ \A j \in 1..Len(live) : live[j] = live[0 + j]
        BY <1>1
      <4> QED
        BY <1>1, <2>2, <3>2, <4>1
    <3> QED
      BY <3>1, <3>2
  <2>4. PICK q \in Seq(HeartbeatIds) : q = Append(r, h)
    <3>1. PICK S : S = HeartbeatIds
      OBVIOUS
    <3>2. r \in Seq(S) /\ h \in S
      BY <2>3, <3>1
    <3>3. Append(r, h) \in Seq(S)
      BY <3>2
    <3> QED
      BY <3>1, <3>3
  <2>5. /\ DOMAIN q = 1..Len(r) + 1 /\ q[Len(r) + 1] = h /\ \A j \in 1..Len(r) : q[j] = r[j]
        /\ Len(r) \in Nat
    BY <2>4
  <2>6. ASSUME NEW j \in 1..Len(r) PROVE m + j \in DOMAIN live /\ q[j] = live[m + j] /\ q[j] # h
    <3>1. m + j \in DOMAIN live /\ q[j] = live[m + j]
      <4>1. m + j \in 1..Len(live) /\ DOMAIN live = 1..Len(live)
        BY <1>1, <2>3, <2>5, <2>6
      <4>2. q[j] = r[j] /\ r[j] = live[m + j]
        BY <2>3, <2>5, <2>6
      <4> QED
        BY <4>1, <4>2
    <3> QED
      BY <2>1, <3>1 DEF InUse
  <2>7. ASSUME NEW i \in DOMAIN q, NEW j \in DOMAIN q, q[i] = q[j] PROVE i = j
    <3>1. CASE i \in 1..Len(r) /\ j \in 1..Len(r)
      <4>1. m + i = m + j
        BY <2>6, <2>7, <3>1 DEF LiveApart
      <4> QED
        BY <2>3, <3>1, <4>1
    <3>2. CASE ~(i \in 1..Len(r) /\ j \in 1..Len(r))
      BY <2>5, <2>6, <2>7, <3>2
    <3> QED
      BY <3>1, <3>2
  <2>8. ASSUME kind = "live"
        PROVE  /\ chunk # <<>>
               /\ \E g \in HeartbeatIds : chunk[1].e = Heartbeat(g) /\ \A j \in DOMAIN q : q[j] = g => j = 1
    <3>1. /\ chunk # <<>> /\ chunk \in Seq(ChunkEntries)
      BY <2>8 DEF LiveApart, IInv, ThreadInv, ThreadTypeOK
    <3>2. PICK g \in HeartbeatIds : chunk[1].e = Heartbeat(g) /\ \A j \in DOMAIN live : live[j] = g => j = 1
      BY <2>8 DEF LiveApart
    <3>3. g # h
      BY <2>1, <3>1, <3>2 DEF InUse
    <3>4. ASSUME NEW j \in DOMAIN q, q[j] = g PROVE j = 1
      <4>1. j \in 1..Len(r)
        BY <2>5, <3>3, <3>4
      <4>2. m + j = 1
        BY <2>6, <3>2, <3>4, <4>1
      <4> QED
        BY <2>3, <4>1, <4>2
    <3> QED
      BY <3>1, <3>2, <3>4
  <2> QED
    BY <2>1, <2>3, <2>4, <2>7, <2>8 DEF LiveApart
<1>5. ASSUME kind' # "live", live' \in {live, <<>>}, stuck' = stuck
      PROVE  LiveApart' /\ ~stuck'
  BY <1>5 DEF LiveApart
<1>6. CASE ThreadTimer \/ ThreadClears
  <2>1. kind = "none"
    BY <1>2, <1>6 DEF ThreadTimer, ThreadClears, Posting
  <2>2. kind' = kind /\ live' \in {live, <<>>} /\ stuck' = stuck
    BY <1>6 DEF ThreadTimer, ThreadClears, DropsLive
  <2> QED
    BY <1>5, <2>1, <2>2
<1>7. CASE ReadLive
  <2>1. live' = live /\ stuck' = stuck
    BY <1>7 DEF ReadLive
  <2>2. CASE live = <<>>
    <3>1. kind' = "none"
      BY <1>7, <2>2 DEF ReadLive, Idle, EmptyChunk
    <3> QED
      BY <1>5, <2>1, <3>1
  <2>3. CASE live # <<>>
    <3>1. PICK n \in Nat \ {0} : DOMAIN FirstOf(live, ChunkPoints) = 1..n
      BY <1>1, <2>3, FirstOfType
    <3>2. chunk' = [i \in 1..n |-> [e |-> Heartbeat(live[i]), end |-> NoPtr]]
      BY <1>7, <2>3, <3>1 DEF ReadLive, NewChunk
    <3>3. 1 \in 1..n /\ 1 \in DOMAIN live
      BY <1>1, <2>3
    <3>4. chunk' # <<>> /\ chunk'[1].e = Heartbeat(live[1]) /\ live[1] \in HeartbeatIds
      <4>1. PICK c : c = chunk'
        OBVIOUS
      <4>2. c = [i \in 1..n |-> [e |-> Heartbeat(live[i]), end |-> NoPtr]]
        BY <3>2, <4>1
      <4>3. c # <<>> /\ c[1].e = Heartbeat(live[1])
        BY <3>3, <4>2
      <4>4. live[1] \in HeartbeatIds
        BY <1>1, <3>3
      <4> QED
        BY <4>1, <4>3, <4>4
    <3> QED
      BY <2>1, <3>3, <3>4 DEF LiveApart
  <2> QED
    BY <2>2, <2>3
<1>8. CASE ReadSpool \/ ReadMemory
  <2>1. live' = live /\ stuck' = stuck /\ kind' # "live"
    BY <1>8 DEF ReadSpool, ReadMemory, NewChunk, Idle, EmptyChunk
  <2> QED
    BY <1>5, <2>1
<1>9. CASE ConsumeLive
  BY <1>9, LiveProgress
<1>10. CASE ConsumeMemory \/ ConsumeSpool
  <2>1. ~stuck'
    BY <1>10, MemoryProgress, SpoolProgress
  <2>2. live' = live /\ kind' = "none"
    BY <1>10 DEF ConsumeMemory, ConsumeSpool, PassGoesOn, EmptyChunk
  <2> QED
    BY <2>1, <2>2 DEF LiveApart
<1>11. CASE Exit \/ Kill
  <2>1. live' = <<>> /\ kind' = "none" /\ stuck' = stuck
    BY <1>11 DEF Exit, Kill, ProcessEnds, NoThread, EmptyChunk
  <2> QED
    BY <1>5, <2>1
<1> QED
  BY <1>3, <1>4, <1>6, <1>7, <1>8, <1>9, <1>10, <1>11
     DEF HeartSteps, Next, AppendStep, CallerStep, ThreadStep, ReleaseStep, ReadStep, ConsumeStep, WaitStep

-----------------------------------------------------------------------------
(* The thread does not sleep over work *)

(* How many entries of the chunk out are still in worker w's queue.          *)
Out(w) == IF kind = "memory" /\ chunk[1].e.p[1] = w THEN Len(chunk) - gone ELSE 0

(* While the disk is away and nobody is appending, nothing lies in the spool *)
(* or some queue holds more than the chunk out: so a thread that reads what  *)
(* memory holds before it sleeps has read the spool before that.             *)
FailedInv ==
  mode = "failed" /\ adding = NoEntry => Lying = {} \/ \E w \in Workers : Len(memory[w]) > Out(w)

(* Asleep with no timeout and nothing about to wake it, the thread has left  *)
(* nothing it could send.                                                    *)
SleepInv ==
  tpc = "wait" /\ ~wake /\ rousing = {} /\ lock = Nobody =>
    /\ "timer" \notin sleepFor => live = <<>> /\ MemoryEmpty /\ (mode # "memory" => Lying = {})
    /\ "due" \notin sleepFor => waiting = {}

(* What is out is in the queue.                                              *)
LEMMA OutFacts ==
  ASSUME IInv, MemoryChunk, NEW w \in Workers
  PROVE  Out(w) \in Nat /\ Len(memory[w]) \in Nat /\ Out(w) <= Len(memory[w])
<1>1. chunk \in Seq(ChunkEntries) /\ gone \in Nat /\ memory[w] \in Seq(Entries)
  BY DEF IInv, QueueInv, QueueTypeOK, ThreadInv, ThreadTypeOK
<1>2. Len(chunk) \in Nat /\ Len(memory[w]) \in Nat
  BY <1>1
<1>3. CASE kind = "memory" /\ chunk[1].e.p[1] = w
  <2>1. Out(w) = Len(chunk) - gone
    BY <1>3 DEF Out
  <2>2. gone <= Len(chunk) /\ Len(chunk) - gone <= Len(memory[w])
    BY <1>3 DEF MemoryChunk, HeadOf
  <2> QED
    BY <1>1, <1>2, <2>1, <2>2
<1>4. CASE ~(kind = "memory" /\ chunk[1].e.p[1] = w)
  <2>1. Out(w) = 0
    BY <1>4 DEF Out
  <2> QED
    BY <1>2, <2>1
<1> QED
  BY <1>3, <1>4

(* The steps that put nothing into the spool narrow it.                      *)
LEMMA NarrowStep ==
  ASSUME IInv, IInv', LossInv,
         spool' = spool \/ RetireSegment \/ SetAsideSegment \/ ConsumeSpool
  PROVE  Lying' \subseteq Lying
<1>1. GoodSpool(spool) /\ spool \in SpoolType
  BY SpoolFacts
<1>2. PICK u : u = spool'
  OBVIOUS
<1>3. GoodSpool(u)
  BY <1>2 DEF IInv, DiskInv, DiskTypeOK, SpoolInv, GoodSpool
<1>4. Lying' = {p \in Points : Lies(u, p)}
  BY <1>2 DEF Lying
<1>5. SUFFICES Narrower(spool, u) \/ u = spool
  <2>1. CASE Narrower(spool, u)
    <3>1. \A p : Lies(u, p) => Lies(spool, p)
      BY <1>1, <1>3, <2>1, NarrowerLies
    <3> QED
      BY <1>4, <3>1 DEF Lying
  <2>2. CASE u = spool
    BY <1>4, <2>2 DEF Lying
  <2> QED
    BY <2>1, <2>2
<1>6. CASE RetireSegment
  <2>1. PICK g : g = spool.ptr[1]
    OBVIOUS
  <2>2. u = Retired(spool, g)
    BY <1>2, <1>6, <2>1 DEF RetireSegment, PtrSeg
  <2> QED
    BY <1>1, <2>1, <2>2, RetiredNarrower
<1>7. CASE SetAsideSegment
  <2>1. PICK g, t, closed : g = PtrSeg(spool) /\ t = [spool EXCEPT !.open = FALSE] /\ closed = Retired(t, g)
    OBVIOUS
  <2>2. /\ u = Retired(spool, g) \/ u = Started(closed) \/ u = AbandonSpool(closed)
        /\ g = spool.ptr[1]
        /\ GoodSpool(t) /\ t.segs = spool.segs /\ t.ptr = spool.ptr /\ t.files = spool.files /\ t.size = spool.size
        /\ GoodSpool(closed) /\ CanStart(closed)
    <3>1. PosInv
      BY DEF LossInv
    <3> QED
      BY <1>2, <1>7, <2>1, <3>1, AsideClosed
  <2>3. Narrower(t, closed) /\ closed.segs = t.segs \ {g}
    <3>1. t \in SpoolType /\ g = t.ptr[1]
      BY <2>2 DEF GoodSpool
    <3>2. Narrower(t, Retired(t, g)) /\ Retired(t, g).segs = t.segs \ {g}
      BY <3>1, RetiredNarrower
    <3> QED
      BY <2>1, <3>2
  <2>4. CASE u = Retired(spool, g)
    BY <1>1, <2>2, <2>4, RetiredNarrower
  <2>5. CASE u = Started(closed)
    <3>1. t.ptr[1] \notin closed.segs
      BY <2>2, <2>3
    <3>2. closed \in SpoolType
      BY <2>2 DEF GoodSpool
    <3>3. Narrower(t, u)
      BY <2>2, <2>3, <2>5, <3>1, <3>2, StartedNarrower
    <3> QED
      BY <2>2, <3>3 DEF Narrower
  <2>6. CASE u = AbandonSpool(closed)
    <3>1. u.segs = {}
      BY <2>2, <2>6 DEF AbandonSpool, GoodSpool, SpoolType
    <3> QED
      BY <3>1 DEF Narrower
  <2> QED
    BY <2>2, <2>4, <2>5, <2>6
<1>8. CASE ConsumeSpool
  <2>1. CASE Consumed = 0
    BY <1>2, <1>8, <2>1 DEF ConsumeSpool
  <2>2. CASE Consumed # 0
    <3>1. PICK end : end = chunk[Consumed].end
      OBVIOUS
    <3>2. u = SpoolAfter(end) /\ kind = "spool"
      BY <1>2, <1>8, <2>2, <3>1 DEF ConsumeSpool
    <3>3. /\ end[1] \notin spool.segs => u = spool
          /\ end[1] \in spool.segs => end[1] = spool.ptr[1] /\ spool.ptr[2] <= end[2] /\ u = Past(spool, end)
      BY <2>2, <3>1, <3>2, ConsumedPlaced DEF LossInv
    <3> QED
      BY <1>1, <3>3, PastNarrower
  <2> QED
    BY <2>1, <2>2
<1> QED
  BY <1>2, <1>6, <1>7, <1>8

(* Memory as it was, the spool no fuller, and no chunk of a queue out but    *)
(* the one there was.                                                        *)
LEMMA FailedFrame ==
  ASSUME IInv, MemoryChunk, FailedInv, mode' = "failed" => mode = "failed", adding' = adding, memory' = memory,
         Lying' \subseteq Lying, kind' # "memory" \/ UNCHANGED <<kind, chunk, gone>>
  PROVE  FailedInv'
<1>1. SUFFICES ASSUME mode' = "failed", adding' = NoEntry, Lying' # {}
               PROVE  \E w \in Workers : Len(memory'[w]) > Out(w)'
  BY DEF FailedInv
<1>2. PICK w \in Workers : Len(memory[w]) > Out(w)
  BY <1>1 DEF FailedInv
<1>3. Out(w) \in Nat /\ Len(memory[w]) \in Nat
  BY OutFacts
<1>4. Out(w)' = Out(w) \/ Out(w)' = 0
  BY DEF Out
<1>5. Len(memory'[w]) > Out(w)'
  BY <1>2, <1>3, <1>4
<1> QED
  BY <1>5

(* A point held in memory is more than the chunk out.                        *)
LEMMA FailedAppend ==
  ASSUME IInv, MemoryChunk, AppendFails
  PROVE  FailedInv'
<1>1. PICK w \in Workers : w = adding.p[1]
  BY DEF AppendFails, IInv, QueueInv, QueueTypeOK, Entries, Points
<1>2. PICK e \in Entries : e = adding
  BY DEF AppendFails, IInv, QueueInv, QueueTypeOK
<1>3. PICK q \in Seq(Entries) : q = memory[w]
  BY DEF IInv, QueueInv, QueueTypeOK
<1>4. /\ memory' = [memory EXCEPT ![w] = Push(@, adding)] /\ UNCHANGED <<kind, chunk>>
      /\ IF Len(memory[w]) >= MemoryPoints THEN HeadGone(w) ELSE UNCHANGED gone
  BY <1>1 DEF AppendFails, KeepInMemory, threadVars, chunkVars
<1>5. memory'[w] = Push(q, e)
  BY <1>1, <1>2, <1>3, <1>4 DEF IInv, QueueInv, QueueTypeOK
<1>6. Out(w) \in Nat /\ Out(w) <= Len(q) /\ Len(q) \in Nat /\ MemoryPoints \in Nat /\ MemoryPoints > 0
  BY <1>3, OutFacts, WriterAssumption
<1>7. gone \in Nat /\ Len(chunk) \in Nat /\ (kind = "memory" => gone <= Len(chunk))
  BY DEF IInv, QueueInv, QueueTypeOK, ThreadInv, ThreadTypeOK, MemoryChunk
<1>8. CASE Len(q) >= MemoryPoints
  <2>1. Len(Push(q, e)) = Len(q) /\ Len(q) > 0
    <3>1. q # <<>>
      BY <1>6, <1>8
    <3>2. Tail(q) \in Seq(Entries) /\ Len(Tail(q)) = Len(q) - 1
      BY <3>1
    <3>3. Len(Append(Tail(q), e)) = Len(Tail(q)) + 1
      BY <3>2
    <3> QED
      BY <1>6, <1>8, <3>2, <3>3 DEF Push
  <2>2. gone' = IF kind = "memory" /\ chunk[1].e.p[1] = w /\ gone < Len(chunk) THEN gone + 1 ELSE gone
    BY <1>3, <1>4, <1>8 DEF HeadGone
  <2>3. Out(w)' < Len(q)
    <3>1. CASE kind = "memory" /\ chunk[1].e.p[1] = w
      <4>1. Out(w)' = Len(chunk) - gone' /\ Out(w) = Len(chunk) - gone
        BY <1>4, <3>1 DEF Out
      <4>2. gone' = gone + 1 \/ (gone' = gone /\ gone = Len(chunk))
        BY <1>7, <2>2, <3>1
      <4> QED
        BY <1>6, <1>7, <2>1, <4>1, <4>2
    <3>2. CASE ~(kind = "memory" /\ chunk[1].e.p[1] = w)
      <4>1. Out(w)' = 0
        BY <1>4, <3>2 DEF Out
      <4> QED
        BY <2>1, <4>1
    <3> QED
      BY <3>1, <3>2
  <2> QED
    BY <1>5, <2>1, <2>3 DEF FailedInv
<1>9. CASE ~(Len(q) >= MemoryPoints)
  <2>1. Len(Push(q, e)) = Len(q) + 1
    BY <1>9 DEF Push
  <2>2. Out(w)' = Out(w)
    BY <1>3, <1>4, <1>9 DEF Out
  <2>3. Len(memory'[w]) > Out(w)'
    BY <1>5, <1>6, <2>1, <2>2
  <2> QED
    BY <2>3 DEF FailedInv
<1> QED
  BY <1>8, <1>9

(* What is consumed of a queue is no more than was out of it.                *)
LEMMA FailedConsume ==
  ASSUME IInv, MemoryChunk, FailedInv, ConsumeMemory
  PROVE  FailedInv'
<1>1. PICK v \in Workers : v = chunk[1].e.p[1]
  <2>1. chunk # <<>> /\ chunk \in Seq(ChunkEntries) /\ kind = "memory"
    BY DEF ConsumeMemory, MemoryChunk, IInv, ThreadInv, ThreadTypeOK
  <2>2. 1 \in DOMAIN chunk
    BY <2>1
  <2>3. chunk[1].e \in Entries
    BY <2>1, <2>2 DEF IInv, ThreadInv, ChunkInv
  <2> QED
    BY <2>3 DEF Entries, Points
<1>2. /\ kind = "memory" /\ kind' = "none" /\ UNCHANGED <<mode, adding, spool>>
      /\ memory' = [memory EXCEPT ![v] = DropFirst(@, Removed)]
  BY <1>1 DEF ConsumeMemory, PassGoesOn, EmptyChunk, diskVars, appendVars
<1>3. SUFFICES ASSUME mode' = "failed", adding' = NoEntry, Lying' # {}
               PROVE  \E w \in Workers : Len(memory'[w]) > Out(w)'
  BY DEF FailedInv
<1>4. PICK w \in Workers : Len(memory[w]) > Out(w)
  BY <1>2, <1>3 DEF FailedInv, Lying
<1>5. Out(w)' = 0 /\ Out(w) \in Nat /\ Len(memory[w]) \in Nat
  BY <1>2, OutFacts DEF Out
<1>6. memory \in [Workers -> Seq(Entries)]
  BY DEF IInv, QueueInv, QueueTypeOK
<1>7. CASE w # v
  <2>1. memory'[w] = memory[w]
    BY <1>2, <1>6, <1>7
  <2> QED
    BY <1>4, <1>5, <2>1
<1>8. CASE w = v
  <2>1. memory'[w] = DropFirst(memory[w], Removed)
    BY <1>2, <1>6, <1>8
  <2>2. Out(w) = Len(chunk) - gone
    BY <1>1, <1>2, <1>8 DEF Out
  <2>3. Removed \in Nat /\ Removed <= Out(w)
    <3>1. Removed \in Nat /\ Consumed \in Nat /\ Consumed <= Len(chunk)
      BY <1>2, RemovedIsNat DEF IInv, QueueInv, ThreadInv
    <3>2. gone \in Nat /\ Len(chunk) \in Nat /\ gone <= Len(chunk)
      BY <1>2 DEF IInv, QueueInv, QueueTypeOK, ThreadInv, ThreadTypeOK, MemoryChunk
    <3> QED
      BY <2>2, <3>1, <3>2 DEF Removed
  <2>4. PICK r \in Nat : r = Removed
    BY <2>3
  <2>5. PICK q \in Seq(Entries) : q = memory[w]
    BY <1>6
  <2>6. r <= Len(q)
    BY <1>4, <1>5, <2>3, <2>4, <2>5
  <2>7. Len(DropFirst(q, r)) = Len(q) - r
    BY <2>6, DropFirstFacts
  <2>8. Len(memory'[w]) > 0
    BY <1>4, <1>5, <2>1, <2>3, <2>4, <2>5, <2>7
  <2> QED
    BY <1>5, <2>8
<1> QED
  BY <1>7, <1>8

(* Nothing lies in a spool that is exhausted.                                *)
LEMMA ExhaustedStep ==
  ASSUME IInv, LossInv, mode # "memory", Exhausted(spool), spool' = SkipTorn(spool)
  PROVE  Lying' = {}
<1>1. GoodSpool(spool) /\ spool.segs # {} /\ Aimed(spool, stored) /\ Newest(spool)
  BY SpoolFacts DEF LossInv, LifeInv, PosInv
<1>2. \A p : ~Lies(SkipTorn(spool), p)
  BY <1>1, ExhaustedEmpty
<1>3. PICK u : u = spool'
  OBVIOUS
<1>4. Lying' = {p \in Points : Lies(u, p)}
  BY <1>3 DEF Lying
<1> QED
  BY <1>2, <1>3, <1>4

(* Every step keeps it so.                                                   *)
LEMMA FailedStep ==
  ASSUME IInv, IInv', LossInv, FailedInv, [Next]_vars
  PROVE  FailedInv'
<1>1. MemoryChunk /\ LifeInv
  BY DEF LossInv
<1> USE DEF diskVars, queueVars, appendVars, timerVars, threadVars, chunkVars, historyVars
<1>2. ASSUME mode' = mode, adding' = adding, memory' = memory, Lying' \subseteq Lying,
             kind' # "memory" \/ UNCHANGED <<kind, chunk, gone>>
      PROVE  FailedInv'
  BY <1>1, <1>2, FailedFrame
<1>3. CASE QuietStep
  <2>1. UNCHANGED <<spool, mode, adding, memory, kind, chunk, gone>>
    BY <1>3, QuietSteps DEF Quiet
  <2>2. Lying' \subseteq Lying
    BY <2>1, NarrowStep
  <2> QED
    BY <1>2, <2>1, <2>2
<1>4. CASE ReleaseOver \/ ReadLive \/ ReadSpool \/ PostStep \/ SaveRefused \/ ConsumeLive
  <2>1. UNCHANGED <<spool, mode, adding, memory>> /\ (kind' # "memory" \/ UNCHANGED <<kind, chunk, gone>>)
    <3>1. CASE ReleaseOver \/ SaveRefused
      BY <3>1 DEF ReleaseOver, SaveRefused
    <3>2. CASE ReadLive \/ ReadSpool
      BY <3>2 DEF ReadLive, ReadSpool, NewChunk, Idle, EmptyChunk
    <3>3. CASE PostStep
      BY <3>3 DEF PostStep, PostAccepted, PostRefused, PostUnanswered, DropUnconfigured, SingleAccepted,
         SingleRefused
    <3>4. CASE ConsumeLive
      BY <3>4 DEF ConsumeLive, PassGoesOn, EmptyChunk
    <3> QED
      BY <1>4, <3>1, <3>2, <3>3, <3>4
  <2>2. Lying' \subseteq Lying
    BY <2>1, NarrowStep
  <2> QED
    BY <1>2, <2>1, <2>2
<1>5. CASE RetireSegment \/ ConsumeSpool
  <2>1. UNCHANGED <<mode, adding, memory>> /\ (kind' # "memory" \/ UNCHANGED <<kind, chunk, gone>>)
    BY <1>5 DEF RetireSegment, ConsumeSpool, PassGoesOn, EmptyChunk
  <2> QED
    BY <1>2, <1>5, <2>1, NarrowStep
<1>6. CASE SetAsideSegment
  <2>1. /\ mode' = mode \/ mode' = "memory"
        /\ UNCHANGED <<adding, memory, kind, chunk, gone>>
    BY <1>6 DEF SetAsideSegment
  <2>2. Lying' \subseteq Lying
    BY <1>6, NarrowStep
  <2> QED
    BY <1>1, <2>1, <2>2, FailedFrame
<1>7. CASE ConsumeMemory
  BY <1>1, <1>7, FailedConsume
<1>8. CASE ReadMemory
  <2>1. mode' = mode /\ Exhausted(spool) /\ spool' = SkipTorn(spool)
    BY <1>8 DEF ReadMemory
  <2>2. mode # "memory" => Lying' = {}
    BY <2>1, ExhaustedStep
  <2> QED
    BY <2>1, <2>2 DEF FailedInv
<1>9. CASE AppendFails
  BY <1>1, <1>9, FailedAppend
<1>10. CASE (\E w \in Workers : MoveToSpool(w)) \/ WriteToSpool \/ AppendToMemory
  BY <1>10 DEF MoveToSpool, WriteToSpool, AppendToMemory, FailedInv
<1>11. CASE (\E e \in due : Release(e)) \/ \E w \in Workers : \E n \in 1..MaxPoints : Submit(w, n)
  <2>1. adding' # NoEntry
    <3>1. due \subseteq Entries
      BY DEF IInv, QueueInv, QueueTypeOK
    <3>2. ASSUME NEW w \in Workers, NEW n \in 1..MaxPoints, Submit(w, n) PROVE adding' \in Entries
      <4>1. adding' = [p |-> <<w, n>>, r |-> 0]
        BY <3>2 DEF Submit
      <4>2. 0 \in 0..MaxRejections - 1
        BY SpoolAssumption
      <4> QED
        BY <4>1, <4>2 DEF Entries, Points
    <3>3. adding' \in Entries
      BY <1>11, <3>1, <3>2 DEF Release
    <3> QED
      BY <3>3, WriterAssumption
  <2> QED
    BY <2>1 DEF FailedInv
<1>12. CASE CloseEnds \/ Exit \/ Kill \/ Start
  BY <1>12 DEF CloseEnds, Exit, Kill, ProcessEnds, Start, OpensSpool, OpensNoSpool, FailedInv
<1> QED
  BY <1>3, <1>4, <1>5, <1>6, <1>7, <1>8, <1>9, <1>10, <1>11, <1>12, QuietOrMoves DEF Moves, InPlace, AppendStep

(* Going to sleep: what the thread looks at is all there is.                 *)
LEMMA SleepBegins ==
  ASSUME IInv, LossInv, FailedInv, ThreadCheck
  PROVE  SleepInv'
<1> USE DEF diskVars, queueVars, appendVars, historyVars
<1>1. /\ UNCHANGED <<spool, mode, memory, live, waiting>> /\ lock = Nobody
      /\ tpc' = "gone" \/ (tpc' = "wait" /\ sleepFor' = Timeouts)
  BY DEF ThreadCheck, Goto
<1>2. ASSUME "timer" \notin Timeouts
      PROVE  live = <<>> /\ MemoryEmpty /\ (mode # "memory" => Lying = {})
  <2>1. ~Pending /\ live = <<>>
    BY <1>2 DEF Timeouts
  <2>2. MemoryEmpty
    BY <2>1 DEF Pending
  <2>3. CASE mode = "disk"
    <3>1. GoodSpool(spool) /\ Aimed(spool, stored)
      BY <2>3, SpoolFacts DEF LossInv, LifeInv, PosInv
    <3>2. \A p : ~Lies(spool, p)
      BY <2>1, <2>3, <3>1, CountedEmpty DEF Pending
    <3> QED
      BY <2>1, <2>2, <3>2 DEF Lying
  <2>4. CASE mode = "failed"
    <3>1. adding = NoEntry
      BY <1>1 DEF IInv, QueueInv, AppendInv
    <3>2. ASSUME NEW w \in Workers PROVE ~(Len(memory[w]) > Out(w))
      <4>1. Out(w) \in Nat
        BY OutFacts DEF LossInv
      <4>2. Len(memory[w]) = 0
        BY <2>2 DEF MemoryEmpty
      <4> QED
        BY <4>1, <4>2
    <3> QED
      BY <2>1, <2>2, <2>4, <3>1, <3>2 DEF FailedInv
  <2> QED
    BY <2>1, <2>2, <2>3, <2>4 DEF IInv, QueueInv, QueueTypeOK
<1>3. "due" \notin Timeouts => waiting = {}
  BY DEF Timeouts
<1>4. MemoryEmpty' = MemoryEmpty /\ Lying' = Lying
  BY <1>1 DEF MemoryEmpty, Lying
<1> QED
  BY <1>1, <1>2, <1>3, <1>4 DEF SleepInv

(* While it sleeps, whoever adds anything to send rouses it.                 *)
LEMMA SleepStep ==
  ASSUME IInv, IInv', LossInv, FailedInv, SleepInv, [Next]_vars
  PROVE  SleepInv'
<1>1. CASE ThreadCheck
  BY <1>1, SleepBegins
<1>2. CASE ~ThreadCheck
  <2> USE DEF diskVars, queueVars, appendVars, timerVars, threadVars, chunkVars, historyVars
  <2>1. /\ lock \in Workers \cup {Thread, Nobody} /\ Thread # Nobody /\ Nobody \notin Workers
        /\ adding # NoEntry => lock # Nobody
        /\ adding' # NoEntry => lock' # Nobody
        /\ lock = Thread => tpc # "wait"
    <3>1. AppendInv /\ AppendInv' /\ lock \in Workers \cup {Thread, Nobody}
      BY DEF IInv, QueueInv, QueueTypeOK
    <3> QED
      BY <3>1, WriterAssumption DEF AppendInv
  <2>2. SUFFICES ASSUME tpc' = "wait", ~wake', rousing' = {}, lock' = Nobody
                 PROVE  /\ "timer" \notin sleepFor' =>
                             live' = <<>> /\ MemoryEmpty' /\ (mode' # "memory" => Lying' = {})
                        /\ "due" \notin sleepFor' => waiting' = {}
    BY DEF SleepInv
  <2>3. ASSUME tpc = "wait", ~wake, rousing = {}, lock = Nobody,
               UNCHANGED <<spool, memory, live, waiting, sleepFor>>, mode' \in {mode, "memory"}
        PROVE  /\ "timer" \notin sleepFor' =>
                    live' = <<>> /\ MemoryEmpty' /\ (mode' # "memory" => Lying' = {})
               /\ "due" \notin sleepFor' => waiting' = {}
    <3>1. MemoryEmpty' = MemoryEmpty /\ Lying' = Lying
      BY <2>3 DEF MemoryEmpty, Lying
    <3> QED
      BY <2>3, <3>1 DEF SleepInv
  <2>4. CASE AppendStep
    <3>1. adding # NoEntry /\ tpc = "wait"
      BY <2>2, <2>4 DEF AppendStep, MoveToSpool, WriteToSpool, AppendFails, AppendToMemory
    <3>2. lock \in Workers
      BY <2>1, <3>1
    <3>3. CASE \E w \in Workers : MoveToSpool(w)
      BY <2>1, <2>2, <3>1, <3>3 DEF MoveToSpool
    <3>4. CASE AppendOver
      <4>1. rousing' = rousing \cup {lock}
        BY <2>1, <3>1, <3>4 DEF AppendOver
      <4> QED
        BY <2>2, <4>1
    <3> QED
      BY <2>4, <3>3, <3>4 DEF AppendStep, WriteToSpool, AppendFails, AppendToMemory, KeepInMemory
  <2>5. CASE \E w \in Workers : \E n \in 1..MaxPoints : Submit(w, n)
    BY <2>1, <2>2, <2>5 DEF Submit
  <2>6. CASE \E w \in Workers : SubmitAgain(w) \/ Rouse(w) \/ \E h \in HeartbeatIds : SubmitLive(w, h)
    <3>1. PICK w \in Workers : SubmitAgain(w) \/ Rouse(w) \/ \E h \in HeartbeatIds : SubmitLive(w, h)
      BY <2>6
    <3>2. CASE SubmitAgain(w)
      BY <2>2, <2>3, <3>2 DEF SubmitAgain
    <3>3. CASE Rouse(w)
      BY <2>2, <3>3 DEF Rouse
    <3>4. CASE \E h \in HeartbeatIds : SubmitLive(w, h)
      BY <2>2, <3>4 DEF SubmitLive
    <3> QED
      BY <3>1, <3>2, <3>3, <3>4
  <2>7. CASE ThreadTop \/ ThreadDue \/ ReleaseOver \/ ThreadTimer \/ ThreadWakes \/ ThreadClears
    BY <2>2, <2>7 DEF ThreadTop, ThreadDue, ReleaseOver, ThreadTimer, ThreadWakes, ThreadClears, Goto
  <2>8. CASE \E e \in due : Release(e)
    BY <2>2, <2>8 DEF Release
  <2>9. CASE ReadStep
    BY <2>2, <2>9 DEF ReadStep, ReadLive, ReadSpool, RetireSegment, SetAsideSegment, ReadMemory, AtSpool,
       NewChunk, Idle, Goto
  <2>10. CASE PostStep
    BY <2>2, <2>10 DEF PostStep, PostAccepted, PostRefused, PostUnanswered, DropUnconfigured, SingleAccepted,
       SingleRefused, NextSingle, GroupOver, Goto
  <2>11. CASE ConsumeStep
    BY <2>2, <2>11 DEF ConsumeStep, SaveRefused, ConsumeLive, ConsumeMemory, ConsumeSpool, PassGoesOn, Goto
  <2>12. CASE TimerRunsOut \/ (\E e \in waiting : FallsDue(e)) \/ CloseEnds \/ UNCHANGED vars
    <3>1. CASE TimerRunsOut \/ UNCHANGED vars
      BY <2>2, <2>3, <3>1 DEF TimerRunsOut, vars
    <3>2. CASE \E e \in waiting : FallsDue(e)
      BY <2>2, <2>3, <3>2 DEF FallsDue
    <3>3. CASE CloseEnds
      <4>1. /\ UNCHANGED <<memory, live, waiting, sleepFor, tpc, wake, rousing, lock>> /\ mode' = "memory"
        BY <3>3 DEF CloseEnds
      <4>2. MemoryEmpty' = MemoryEmpty
        BY <4>1 DEF MemoryEmpty
      <4> QED
        BY <2>2, <4>1, <4>2 DEF SleepInv
    <3> QED
      BY <2>12, <3>1, <3>2, <3>3
  <2>13. CASE Close
    BY <2>2, <2>13 DEF Close
  <2>14. CASE Start
    <3>1. tpc' = tpc /\ tpc = "none"
      BY <2>14 DEF Start, IInv, QueueInv, AppendInv
    <3> QED
      BY <2>2, <3>1
  <2>15. CASE Exit \/ Kill
    BY <2>2, <2>15 DEF Exit, Kill, ProcessEnds, NoThread
  <2> QED
    BY <1>2, <2>4, <2>5, <2>6, <2>7, <2>8, <2>9, <2>10, <2>11, <2>12, <2>13, <2>14, <2>15
       DEF Next, CallerStep, ThreadStep, ReleaseStep, WaitStep
<1> QED
  BY <1>1, <1>2

(* Nothing to send is nothing owed.                                          *)
LEMMA SleepOwesNothing ==
  ASSUME IInv, LossInv, SleepInv
  PROVE  NoLostWakeup
<1>1. SUFFICES ASSUME tpc = "wait", ~wake, rousing = {}, lock = Nobody, "timer" \notin sleepFor
               PROVE  Submitted \subseteq
                        db \cup excused \cup Waiting \cup (IF mode = "memory" THEN OnDisk ELSE {})
  BY DEF NoLostWakeup, SleepInv
<1>2. Found /\ LifeInv /\ PosInv
  BY DEF LossInv
<1>3. MemoryEmpty /\ (mode # "memory" => Lying = {})
  BY <1>1 DEF SleepInv
<1>4. InMemory = {}
  BY <1>3 DEF InMemory, MemoryEmpty, PointsIn
<1>5. Adding = {}
  BY <1>1 DEF Adding, IInv, QueueInv, AppendInv
<1>6. CASE mode # "memory"
  <2>1. OnSpool = {}
    BY <1>2, <1>3, <1>6 DEF OnSpool, LifeInv
  <2> QED
    BY <1>2, <1>4, <1>5, <2>1 DEF Found, Held
<1>7. CASE mode = "memory"
  BY <1>2, <1>4, <1>5, <1>7, SpoolIsOnDisk DEF Found, Held
<1> QED
  BY <1>6, <1>7

-----------------------------------------------------------------------------
(* The order of the points.  Settled points are those no later one need wait *)
(* for: stored, given up, or refused once.  OrderInv says of every place a   *)
(* point can be - a line of the spool, a memory queue, a chunk, the retry    *)
(* list, the append under way - that the worker's earlier readings are       *)
(* settled or come first from there.                                         *)

Settled == db \cup excused \cup turned

(* What waits has been refused.                                              *)
TurnedInv == Waiting \cup Kept \subseteq turned

(* A group is posted one by one from its first entry on.                     *)
SingleInv ==
  /\ tpc = "single" => single \in Group /\ \A j \in Group : j < single => j \in done
  /\ tpc = "post" => single = 0

(* The spool, or what a start will make of the files.                        *)
SpoolOrder == Ordered(IF spool.segs = {} THEN Loaded(spool, stored) ELSE spool, Settled)

MemoryOrder == spool.segs # {} => \A w \in Workers : InRow(memory[w], Settled \cup Lying)

ChunkOrder ==
  (spool.segs # {} /\ kind # "live") => \A i \in DOMAIN chunk : \A q \in Sooner(chunk[i].e.p) :
    q \in Settled \/ \E j \in 1..i - 1 : chunk[j].e.p = q

WaitOrder ==
  /\ \A e \in retry : Sooner(e.p) \subseteq Settled
  /\ spool.segs # {} => \A e \in waiting : Sooner(e.p) \subseteq Settled

AddOrder ==
  (spool.segs # {} /\ adding # NoEntry) => adding.p \in Submitted \/ Sooner(adding.p) \subseteq Settled

OrderInv ==
  /\ TurnedInv /\ SingleInv /\ SpoolOrder /\ MemoryOrder /\ ChunkOrder /\ WaitOrder /\ AddOrder

-----------------------------------------------------------------------------
(* What settles stays so *)

(* Nothing is taken back.                                                    *)
LEMMA SettledGrows ==
  ASSUME IInv, [Next]_vars
  PROVE  Settled \subseteq Settled' /\ Submitted \subseteq Submitted' /\ db \subseteq db' /\ turned \subseteq turned'
<1>0. HistoryTypeOK
  BY DEF IInv
<1>1. /\ db \subseteq db' /\ excused \subseteq excused' /\ turned \subseteq turned'
      /\ reading' = reading \/ \E w \in Workers, n \in 1..MaxPoints :
                                 (n = reading[w] \/ n = reading[w] + 1) /\ reading' = [reading EXCEPT ![w] = n]
  <2> USE DEF diskVars, queueVars, appendVars, timerVars, threadVars, chunkVars, historyVars
  <2>1. CASE AppendStep
    BY <2>1 DEF AppendStep, MoveToSpool, WriteToSpool, AppendFails, AppendToMemory, KeepInMemory
  <2>2. CASE ThreadTop \/ ReleaseStep \/ ThreadTimer
    BY <2>2 DEF ThreadTop, ReleaseStep, ThreadDue, Release, ReleaseOver, ThreadTimer
  <2>3. CASE ReadStep
    BY <2>3 DEF ReadStep, ReadLive, ReadSpool, RetireSegment, SetAsideSegment, ReadMemory
  <2>4. CASE PostStep
    BY <2>4 DEF PostStep, PostAccepted, PostRefused, PostUnanswered, DropUnconfigured, SingleAccepted, SingleRefused
  <2>5. CASE ConsumeStep
    BY <2>5 DEF ConsumeStep, SaveRefused, ConsumeLive, ConsumeMemory, ConsumeSpool
  <2>6. CASE WaitStep
    BY <2>6 DEF WaitStep, ThreadCheck, ThreadWakes, ThreadClears
  <2>7. CASE CallerStep
    BY <2>7 DEF CallerStep, Submit, SubmitAgain, SubmitLive, Rouse
  <2>8. CASE TimerRunsOut \/ (\E e \in waiting : FallsDue(e)) \/ UNCHANGED vars
    BY <2>8 DEF TimerRunsOut, FallsDue, vars
  <2>9. CASE Start \/ Close \/ CloseEnds \/ Exit \/ Kill
    BY <2>9 DEF Start, Close, CloseEnds, Exit, Kill, ProcessEnds
  <2> QED
    BY <2>1, <2>2, <2>3, <2>4, <2>5, <2>6, <2>7, <2>8, <2>9 DEF Next, ThreadStep
<1>2. \A w \in Workers : reading[w] <= reading'[w] /\ reading[w] \in Nat /\ reading'[w] \in Nat
  BY <1>0, <1>1 DEF HistoryTypeOK
<1>3. Submitted \subseteq Submitted'
  <2>1. SUFFICES ASSUME NEW p \in Points, p[2] <= reading[p[1]] PROVE p[2] <= reading'[p[1]]
    BY DEF Submitted
  <2>2. p[1] \in Workers /\ p[2] \in Nat
    BY DEF Points
  <2> QED
    BY <1>2, <2>1, <2>2
<1> QED
  BY <1>1, <1>3 DEF Settled

(* What a chunk has dealt with is settled.                                   *)
LEMMA DoneSettled ==
  ASSUME DoneKept, TurnedInv, kind # "live", NEW i \in done
  PROVE  chunk[i].e.p \in Settled
BY DEF DoneKept, TurnedInv, Settled

(* What waits, on disk or not, has been refused.                             *)
LEMMA TurnedStep ==
  ASSUME IInv, TurnedInv, [Next]_vars
  PROVE  TurnedInv'
<1>1. turned \subseteq turned'
  BY SettledGrows
<1>2. ASSUME waiting' \subseteq waiting \cup retry, retry' \subseteq waiting \cup retry PROVE TurnedInv'
  BY <1>1, <1>2 DEF TurnedInv, Waiting, Kept
<1> USE DEF diskVars, queueVars
<1>3. CASE QuietStep
  <2>1. UNCHANGED <<waiting, retry>>
    BY <1>3, QuietSteps DEF Quiet
  <2> QED
    BY <1>2, <2>1
<1>4. ASSUME NEW m, NEW d, WriteRetryFile(m, waiting, d), waiting' \subseteq waiting PROVE TurnedInv'
  <2>1. retry' = waiting \/ retry' = retry
    BY <1>4 DEF WriteRetryFile
  <2> QED
    BY <1>2, <1>4, <2>1
<1>5. CASE AppendStep
  <2>1. CASE \E w \in Workers : MoveToSpool(w)
    BY <1>2, <2>1 DEF MoveToSpool
  <2>2. CASE WriteToSpool
    <3>1. waiting' \subseteq waiting /\ (retry' = retry \/ WriteRetryFile("disk", waiting, TRUE))
      BY <2>2 DEF WriteToSpool, AppendOver
    <3> QED
      BY <1>2, <1>4, <3>1
  <2>3. CASE AppendFails \/ AppendToMemory
    BY <1>2, <2>3 DEF AppendFails, AppendToMemory, KeepInMemory, AppendOver
  <2> QED
    BY <1>5, <2>1, <2>2, <2>3 DEF AppendStep
<1>6. CASE ReleaseOver \/ SaveRefused
  <2>1. waiting' = waiting /\ \E d : WriteRetryFile(mode, waiting, d)
    BY <1>6 DEF ReleaseOver, SaveRefused
  <2> QED
    BY <1>4, <2>1
<1>7. CASE PostStep
  <2>1. CASE SingleRefused
    <3>1. ThreadTypeOK /\ ChunkInv
      BY DEF IInv, ThreadInv
    <3>2. PICK e : e = chunk[single].e
      OBVIOUS
    <3>3. tpc = "single" /\ retry' = retry /\ turned' = turned \cup PointsAt({single})
      BY <2>1 DEF SingleRefused
    <3>4. CASE kind = "live" \/ GivesUpOn(e.r + 1)
      BY <1>2, <2>1, <3>2, <3>3, <3>4 DEF SingleRefused
    <3>5. CASE kind # "live" /\ ~GivesUpOn(e.r + 1)
      <4>1. e \in Entries
        BY <3>1, <3>2, <3>3, <3>5 DEF ChunkInv
      <4>2. PICK n : n = [e EXCEPT !.r = @ + 1]
        OBVIOUS
      <4>3. n.p = e.p /\ waiting' = waiting \cup {n}
        BY <2>1, <3>2, <3>5, <4>1, <4>2 DEF SingleRefused, Entries
      <4>4. e.p \in turned'
        BY <3>2, <3>3, <3>5 DEF PointsAt
      <4> QED
        BY <1>1, <3>3, <4>3, <4>4 DEF TurnedInv, Waiting, Kept
    <3> QED
      BY <3>4, <3>5
  <2>2. CASE ~SingleRefused
    BY <1>2, <1>7, <2>2 DEF PostStep, PostAccepted, PostRefused, PostUnanswered, DropUnconfigured, SingleAccepted
  <2> QED
    BY <2>1, <2>2
<1>8. CASE ReadLive \/ ReadSpool \/ ConsumeLive \/ ConsumeMemory \/ ConsumeSpool \/ CloseEnds
  BY <1>2, <1>8 DEF ReadLive, ReadSpool, ConsumeLive, ConsumeMemory, ConsumeSpool, CloseEnds
<1>9. CASE RetireSegment \/ SetAsideSegment \/ ReadMemory
  BY <1>2, <1>9 DEF RetireSegment, SetAsideSegment, ReadMemory
<1>10. CASE (\E e \in due : Release(e)) \/ \E w \in Workers : \E n \in 1..MaxPoints : Submit(w, n)
  BY <1>2, <1>10 DEF Release, Submit
<1>11. CASE Exit \/ Kill
  BY <1>2, <1>11 DEF Exit, Kill, ProcessEnds
<1>12. CASE Start
  BY <1>2, <1>12 DEF Start, OpensSpool, OpensNoSpool
<1> QED
  BY <1>3, <1>5, <1>6, <1>7, <1>8, <1>9, <1>10, <1>11, <1>12, QuietOrMoves DEF Moves, InPlace, AppendStep

(* A group is posted one by one from its first entry on.                     *)
LEMMA SingleStep ==
  ASSUME IInv, SingleInv, [Next]_vars
  PROVE  SingleInv'
<1>1. ThreadTypeOK /\ ChunkInv
  BY DEF IInv, ThreadInv
<1> USE DEF threadVars, chunkVars, Goto
<1>2. ASSUME UNCHANGED chunkVars, tpc' = tpc \/ tpc' \notin {"post", "single"}
      PROVE  SingleInv'
  <2>1. Group' = Group
    BY <1>2 DEF Group, SourceAt
  <2> QED
    BY <1>2, <2>1 DEF SingleInv
<1>3. ASSUME single' = 0, tpc' # "single" PROVE SingleInv'
  BY <1>3 DEF SingleInv
<1>4. ASSUME tpc' \notin {"post", "single"} PROVE SingleInv'
  BY <1>4 DEF SingleInv
<1>5. CASE PostStep
  <2>1. tpc \in {"post", "single"}
    BY <1>5 DEF PostStep, PostAccepted, PostRefused, PostUnanswered, DropUnconfigured, SingleAccepted, SingleRefused
  <2>2. Group \subseteq DOMAIN chunk /\ Group \subseteq Nat /\ Min(Group) \in Group
    <3>1. DOMAIN chunk \ tried # {} /\ DOMAIN chunk \subseteq Nat
      BY <1>1, <2>1 DEF ChunkInv, ThreadTypeOK
    <3> QED
      BY <1>1, <3>1, GroupOfChunk
  <2>3. ASSUME GroupOver PROVE SingleInv'
    BY <1>3, <2>3 DEF GroupOver
  <2>4. CASE PostAccepted \/ DropUnconfigured
    BY <2>3, <2>4 DEF PostAccepted, DropUnconfigured
  <2>5. CASE PostUnanswered
    BY <1>4, <2>5 DEF PostUnanswered
  <2>6. CASE PostRefused
    <3>1. /\ tpc' = "single" /\ single' = Min(Group) /\ UNCHANGED <<kind, chunk, tried, done>>
      BY <2>6 DEF PostRefused
    <3>2. Group' = Group
      BY <3>1 DEF Group, SourceAt
    <3>3. \A j \in Group : Min(Group) <= j
      BY <2>2, MinIsLeast
    <3>4. \A j \in Group : ~(j < single')
      BY <2>2, <3>1, <3>3
    <3> QED
      BY <2>2, <3>1, <3>2, <3>4 DEF SingleInv
  <2>7. CASE SingleAccepted \/ SingleRefused
    <3>1. NextSingle /\ tpc = "single" /\ UNCHANGED <<kind, chunk>>
      BY <2>7 DEF SingleAccepted, SingleRefused
    <3>2. CASE ~\E j \in Group : j > single
      BY <2>3, <3>1, <3>2 DEF NextSingle
    <3>3. CASE \E j \in Group : j > single
      <4>1. PICK L : L = {j \in Group : j > single}
        OBVIOUS
      <4>2. /\ single' = Min(L) /\ done' = done \cup {single} /\ UNCHANGED <<tpc, tried>>
        BY <3>1, <3>3, <4>1 DEF NextSingle
      <4>3. Min(L) \in L /\ \A j \in L : Min(L) <= j
        <5>1. L \in SUBSET Nat /\ L # {}
          BY <2>2, <3>3, <4>1
        <5> QED
          BY <5>1, MinIsLeast
      <4>4. Group' = Group
        BY <3>1, <4>2 DEF Group, SourceAt
      <4>5. single \in Group /\ \A j \in Group : j < single => j \in done
        BY <3>1 DEF SingleInv
      <4>6. ASSUME NEW j \in Group, j < single' PROVE j \in done'
        <5>1. j \notin L
          BY <2>2, <4>1, <4>2, <4>3, <4>6
        <5>2. j <= single
          BY <2>2, <4>1, <4>5, <5>1
        <5> QED
          BY <2>2, <4>2, <4>5, <5>2
      <4> QED
        BY <3>1, <4>1, <4>2, <4>3, <4>4, <4>6 DEF SingleInv
    <3> QED
      BY <3>2, <3>3
  <2> QED
    BY <1>5, <2>4, <2>5, <2>6, <2>7 DEF PostStep
<1>6. CASE ReadLive \/ ReadSpool \/ ReadMemory
  BY <1>3, <1>6 DEF ReadLive, ReadSpool, ReadMemory, NewChunk, Idle, EmptyChunk
<1>7. CASE ConsumeLive \/ ConsumeMemory \/ ConsumeSpool
  BY <1>4, <1>7 DEF ConsumeLive, ConsumeMemory, ConsumeSpool, PassGoesOn
<1>8. CASE Exit \/ Kill
  BY <1>4, <1>8 DEF Exit, Kill, ProcessEnds, NoThread
<1>9. CASE AppendStep
  BY <1>2, <1>9 DEF AppendStep, MoveToSpool, WriteToSpool, AppendFails, AppendToMemory
<1>10. CASE ThreadTop \/ ReleaseStep \/ ThreadTimer \/ SaveRefused \/ WaitStep
  BY <1>2, <1>10 DEF ThreadTop, ReleaseStep, ThreadDue, Release, ReleaseOver, ThreadTimer, SaveRefused, WaitStep,
     ThreadCheck, ThreadWakes, ThreadClears
<1>11. CASE RetireSegment \/ SetAsideSegment
  BY <1>2, <1>11 DEF RetireSegment, SetAsideSegment
<1>12. CASE CallerStep
  <2>1. UNCHANGED chunkVars /\ (tpc' = tpc \/ tpc' = "top")
    BY <1>12 DEF CallerStep, Submit, SubmitAgain, SubmitLive, Rouse
  <2> QED
    BY <1>2, <2>1
<1>13. CASE TimerRunsOut \/ (\E e \in waiting : FallsDue(e)) \/ UNCHANGED vars
  BY <1>2, <1>13 DEF TimerRunsOut, FallsDue, vars
<1>14. CASE Start \/ Close \/ CloseEnds
  BY <1>2, <1>14 DEF Start, Close, CloseEnds
<1> QED
  BY <1>5, <1>6, <1>7, <1>8, <1>9, <1>10, <1>11, <1>12, <1>13, <1>14 DEF Next, ThreadStep, ReadStep, ConsumeStep

(* What is consumed of a chunk is settled.                                   *)
LEMMA ConsumedSettled ==
  ASSUME IInv, DoneKept, TurnedInv, kind # "live", NEW e \in ConsumedEntries
  PROVE  e.p \in Settled
<1>1. PICK i \in 1..Consumed : e = chunk[i].e
  BY DEF ConsumedEntries
<1>2. i \in done
  <2>1. CASE Consumed = 0
    BY <1>1, <2>1
  <2>2. CASE Consumed # 0
    BY <1>1, <2>2, ConsumedInChunk DEF IInv, ThreadInv
  <2> QED
    BY <2>1, <2>2
<1> QED
  BY <1>1, <1>2, DoneSettled

(* Before the entry under way come its worker's earlier readings.            *)
LEMMA AddingLed ==
  ASSUME IInv, LossInv, OrderInv, spool.segs # {}, adding # NoEntry, NEW s \in Sooner(adding.p)
  PROVE  s \in Settled \/ Lies(spool, s) \/ s \in PointsIn(memory[adding.p[1]])
<1>1. adding \in Entries /\ adding.p \in Points /\ adding.p[2] \in Nat
  BY DEF IInv, QueueInv, QueueTypeOK, Entries, Points
<1>2. s \in Points /\ s[1] = adding.p[1] /\ s[2] < adding.p[2] /\ s[2] \in Nat
  BY DEF Sooner, Points
<1>3. CASE s \in Settled
  BY <1>3
<1>4. CASE s \notin Settled
  <2>1. adding.p \in Submitted
    BY <1>4 DEF OrderInv, AddOrder
  <2>2. reading[adding.p[1]] \in Nat
    BY <1>1 DEF IInv, HistoryTypeOK, Points
  <2>3. s \in Submitted
    BY <1>1, <1>2, <2>1, <2>2 DEF Submitted
  <2>4. s \in Held \cup Waiting
    BY <2>3 DEF LossInv, Found
  <2>5. s \notin Adding
    BY <1>1, <1>2 DEF Adding
  <2>6. s \notin Waiting
    BY <1>4 DEF OrderInv, TurnedInv, Settled
  <2>7. s \in InMemory \/ Lies(spool, s)
    BY <1>4, <2>4, <2>5, <2>6 DEF Held, OnSpool, Lying, Settled
  <2>8. ASSUME s \in InMemory PROVE s \in PointsIn(memory[adding.p[1]])
    <3>1. PICK w \in Workers : s \in PointsIn(memory[w])
      BY <2>8 DEF InMemory
    <3>2. w = s[1]
      BY <3>1 DEF LossInv, OwnQueue
    <3> QED
      BY <1>2, <3>1, <3>2
  <2> QED
    BY <2>7, <2>8
<1> QED
  BY <1>3, <1>4

(* Before a queue's first entry too.                                         *)
LEMMA HeadLed ==
  ASSUME IInv, OrderInv, spool.segs # {}, NEW w \in Workers, memory[w] # <<>>
  PROVE  Led(spool, Head(memory[w]).p, Settled)
<1>1. PICK q \in Seq(Entries) : q = memory[w]
  BY DEF IInv, QueueInv, QueueTypeOK
<1>2. 1 \in DOMAIN q /\ Head(q) = q[1]
  BY <1>1
<1>3. InRow(q, Settled \cup Lying)
  BY <1>1 DEF OrderInv, MemoryOrder
<1>4. \A s \in Sooner(q[1].p) : s \in Settled \cup Lying
  BY <1>2, <1>3 DEF InRow
<1> QED
  BY <1>1, <1>2, <1>4 DEF Led, Lying

(* And before the entry under way, where memory is empty.                    *)
LEMMA AddingLedAlone ==
  ASSUME IInv, LossInv, OrderInv, spool.segs # {}, adding # NoEntry, MemoryEmpty
  PROVE  Led(spool, adding.p, Settled)
<1>1. adding.p[1] \in Workers
  BY DEF IInv, QueueInv, QueueTypeOK, Entries, Points
<1>2. PointsIn(memory[adding.p[1]]) = {}
  BY <1>1 DEF MemoryEmpty, PointsIn
<1> QED
  BY <1>2, AddingLed DEF Led

-----------------------------------------------------------------------------
(* The order in the spool, step by step *)

(* What lies in the spool lies there still, or is settled.                   *)
LEMMA LiesKept ==
  ASSUME IInv, LossInv, TurnedInv, [Next]_vars, spool.segs # {}, spool'.segs # {}, NEW q, Lies(spool, q)
  PROVE  Lies(spool', q) \/ q \in Settled'
<1>1. LifeInv /\ PosInv /\ ChunkAt /\ DoneKept
  BY DEF LossInv
<1>2. Settled \subseteq Settled' /\ Waiting \subseteq Settled /\ db \cup excused \subseteq Settled
      /\ excused' \subseteq Settled'
  BY SettledGrows DEF TurnedInv, Settled
<1>3. CASE QuietStep
  BY <1>3, QuietSteps DEF Quiet
<1>4. CASE InPlace
  BY <1>4, InPlaceSteps
<1>5. CASE AppendStep
  BY <1>1, <1>2, <1>5, AppendFacts
<1>6. CASE RetireSegment
  <2>1. PICK t, at : t = Retired(spool, PtrSeg(spool)) /\ at = stored
    OBVIOUS
  <2>2. Finished(spool) /\ spool' = t
    BY <1>6, <2>1 DEF RetireSegment
  <2>3. Lies(t, q)
    <3>1. at \in {stored, t.ptr}
      BY <2>1
    <3> QED
      BY <1>1, <2>1, <2>2, <3>1, RetireStep
  <2> QED
    BY <2>2, <2>3
<1>7. CASE SetAsideSegment
  BY <1>1, <1>2, <1>7, AsideStep
<1>8. CASE ReadMemory
  BY <1>1, <1>8, TornStep DEF ReadMemory
<1>9. CASE ConsumeSpool
  <2>1. CASE Consumed = 0
    BY <1>9, <2>1 DEF ConsumeSpool
  <2>2. CASE Consumed # 0
    <3>1. PICK end, t : end = chunk[Consumed].end /\ t = SpoolAfter(end)
      OBVIOUS
    <3>2. kind = "spool" /\ spool' = t
      BY <1>9, <2>2, <3>1 DEF ConsumeSpool
    <3>3. Lies(t, q) \/ q \in db \cup excused \cup Waiting
      BY <1>1, <2>2, <3>1, <3>2, ConsumedAimed
    <3> QED
      BY <1>2, <3>2, <3>3
  <2> QED
    BY <2>1, <2>2
<1>10. CASE CloseEnds
  <2>1. PICK t : t = [spool EXCEPT !.open = FALSE]
    OBVIOUS
  <2>2. t.segs = spool.segs /\ t.files = spool.files /\ t.size = spool.size /\ t.ptr = spool.ptr
    BY <2>1, SpoolFacts DEF SpoolType
  <2>3. Lies(t, q)
    BY <2>2 DEF Lies, LiesIn
  <2> QED
    BY <1>10, <2>1, <2>3 DEF CloseEnds
<1>11. CASE Exit \/ Kill
  BY <1>1, <1>11, EndStep DEF Exit, Kill
<1>12. CASE Start
  BY <1>1, <1>12 DEF Start, LifeInv
<1> QED
  BY <1>3, <1>4, <1>5, <1>6, <1>7, <1>8, <1>9, <1>10, <1>11, <1>12, QuietOrMoves DEF Moves

(* Only a start makes a spool where there was none.                          *)
LEMMA OnlyStartOpens ==
  ASSUME IInv, LossInv, [Next]_vars, spool.segs = {}, spool'.segs # {}
  PROVE  Start
<1>1. LifeInv /\ PosInv /\ ChunkAt /\ DoneKept
  BY DEF LossInv
<1>2. mode = "memory" /\ kind # "spool"
  BY <1>1 DEF LifeInv, ChunkAt
<1>3. ~QuietStep
  BY QuietSteps DEF Quiet
<1>4. ~InPlace
  BY InPlaceSteps
<1>5. ~AppendStep
  BY <1>1, <1>2, AppendFacts
<1>6. ~RetireSegment /\ ~SetAsideSegment
  BY DEF RetireSegment, Finished, SetAsideSegment, PtrInSpool
<1>7. ~ReadMemory
  BY <1>1, TornStep DEF ReadMemory
<1>8. ~ConsumeSpool
  BY <1>2 DEF ConsumeSpool
<1>9. ~CloseEnds
  <2>1. SUFFICES ASSUME CloseEnds PROVE FALSE
    OBVIOUS
  <2>2. PICK t : t = [spool EXCEPT !.open = FALSE]
    OBVIOUS
  <2>3. t.segs = spool.segs
    BY <2>2, SpoolFacts DEF SpoolType
  <2> QED
    BY <2>1, <2>2, <2>3 DEF CloseEnds
<1>10. ~Exit /\ ~Kill
  BY <1>1, EndStep DEF Exit, Kill
<1> QED
  BY <1>3, <1>4, <1>5, <1>6, <1>7, <1>8, <1>9, <1>10, QuietOrMoves DEF Moves

(* A memory queue stays in order behind the spool.                           *)
LEMMA MemoryOrderStep ==
  ASSUME IInv, LossInv, OrderInv, [Next]_vars
  PROVE  MemoryOrder'
<1>1. /\ LifeInv /\ PosInv /\ ChunkAt /\ DoneKept /\ TurnedInv /\ AppendInv /\ MemoryInv
      /\ memory \in [Workers -> Seq(Entries)]
  BY DEF LossInv, OrderInv, IInv, QueueInv, QueueTypeOK
<1>2. SUFFICES ASSUME spool'.segs # {}, NEW w \in Workers
               PROVE  InRow(memory'[w], Settled' \cup Lying')
  BY DEF MemoryOrder
<1>3. ASSUME memory'[w] = <<>> PROVE InRow(memory'[w], Settled' \cup Lying')
  BY <1>3 DEF InRow
<1>4. CASE spool.segs = {}
  <2>1. Start
    BY <1>2, <1>4, OnlyStartOpens
  <2>2. memory' = memory /\ MemoryEmpty
    BY <1>1, <2>1 DEF Start, MemoryInv
  <2> QED
    BY <1>2, <1>3, <2>2 DEF MemoryEmpty
<1>5. CASE spool.segs # {}
  <2>1. PICK R, R2 : R = Settled \cup Lying /\ R2 = Settled' \cup Lying'
    OBVIOUS
  <2>2. R \subseteq R2 /\ Settled \subseteq R /\ excused' \subseteq R2
    BY <1>1, <1>2, <1>5, <2>1, LiesKept, SettledGrows DEF Lying, Settled
  <2>3. PICK q \in Seq(Entries) : q = memory[w]
    BY <1>1
  <2>4. InRow(q, R)
    BY <1>5, <2>1, <2>3 DEF OrderInv, MemoryOrder
  <2>5. CASE memory'[w] = memory[w]
    BY <2>1, <2>2, <2>3, <2>4, <2>5, RowMore
  <2>6. CASE MoveToSpool(w) /\ memory[w] # <<>> /\ memory'[w] = Tail(memory[w])
    <3>1. PICK e \in Entries : e = Head(q)
      BY <2>3, <2>6
    <3>2. /\ mode # "memory" /\ CanStart(spool) /\ spool' = Wrote(spool, e) /\ stored' = stored
          /\ excused' = excused \cup EvictedPoints(Appended(spool, e))
      BY <2>3, <2>6, <3>1 DEF MoveToSpool
    <3>3. Lies(spool', e.p) \/ e.p \in excused'
      BY <1>1, <3>2, WriteStep
    <3>4. e.p \in R2
      BY <2>1, <2>2, <3>3 DEF Lying, Entries
    <3>5. InRow(Tail(q), R2)
      BY <2>2, <2>3, <2>4, <2>6, <3>1, <3>4, RowTail
    <3> QED
      BY <2>1, <2>3, <2>6, <3>5
  <2>7. CASE /\ adding \in Entries /\ adding # NoEntry /\ adding.p[1] = w
             /\ memory'[w] = Push(memory[w], adding) /\ excused' = excused \cup PushedOut(memory[w])
    <3>1. PushedOut(q) \subseteq R2
      BY <2>2, <2>3, <2>7
    <3>2. ASSUME NEW s \in Sooner(adding.p) PROVE s \in R2 \/ s \in PointsIn(q)
      <4>1. s \in Settled \/ Lies(spool, s) \/ s \in PointsIn(q)
        BY <1>5, <2>3, <2>7, <3>2, AddingLed
      <4> QED
        BY <2>1, <2>2, <4>1 DEF Lying, Sooner
    <3>3. InRow(Push(q, adding), R2)
      BY <2>2, <2>3, <2>4, <2>7, <3>1, <3>2, RowPush
    <3> QED
      BY <2>1, <2>3, <2>7, <3>3
  <2>8. CASE /\ ConsumeMemory
             /\ \E n \in 0..Len(memory[w]) : /\ memory'[w] = DropFirst(memory[w], n)
                                             /\ \A i \in 1..n : memory[w][i] \in ConsumedEntries
    <3>1. \A e \in ConsumedEntries : e.p \in R2
      BY <1>1, <2>2, <2>8, ConsumedSettled DEF ConsumeMemory
    <3>2. PICK n \in 0..Len(q) : memory'[w] = DropFirst(q, n) /\ \A i \in 1..n : q[i] \in ConsumedEntries
      BY <2>3, <2>8
    <3>3. InRow(DropFirst(q, n), R2)
      BY <2>2, <2>3, <2>4, <3>1, <3>2, RowDropFirst
    <3> QED
      BY <2>1, <3>2, <3>3
  <2>9. CASE memory'[w] = <<>>
    BY <1>3, <2>9
  <2> QED
    BY <2>5, <2>6, <2>7, <2>8, <2>9, QueueSteps DEF LossInv
<1> QED
  BY <1>4, <1>5

(* A chunk is read in order, what it comes before being settled.             *)
LEMMA ChunkOrderStep ==
  ASSUME IInv, LossInv, OrderInv, [Next]_vars
  PROVE  ChunkOrder'
<1>1. /\ LifeInv /\ PosInv /\ ChunkAt /\ AppendInv
      /\ memory \in [Workers -> Seq(Entries)] /\ GoodSpool(spool) /\ stored \in Pointers
  BY SpoolFacts DEF LossInv, IInv, QueueInv, QueueTypeOK
<1>2. Settled \subseteq Settled'
  BY SettledGrows
<1>3. ASSUME chunk' = <<>> \/ kind' = "live" PROVE ChunkOrder'
  BY <1>3 DEF ChunkOrder
<1>4. ASSUME UNCHANGED <<kind, chunk>>, spool.segs # {} PROVE ChunkOrder'
  BY <1>2, <1>4 DEF ChunkOrder, OrderInv
<1>5. ASSUME UNCHANGED <<kind, chunk>>, ~Start PROVE ChunkOrder'
  <2>1. CASE spool.segs # {}
    BY <1>4, <1>5, <2>1
  <2>2. CASE spool.segs = {}
    <3>1. spool'.segs = {}
      BY <1>5, <2>2, OnlyStartOpens
    <3> QED
      BY <3>1 DEF ChunkOrder
  <2> QED
    BY <2>1, <2>2
<1> USE DEF threadVars, chunkVars
<1>6. CASE Start
  <2>1. UNCHANGED chunk /\ tpc = "none"
    BY <1>1, <1>6 DEF Start, AppendInv
  <2>2. chunk = <<>>
    BY <1>1, <2>1 DEF ChunkAt, Posting
  <2> QED
    BY <1>3, <2>1, <2>2
<1>7. CASE ReadSpool
  <2>1. PICK c : c = SpoolChunk(spool)
    OBVIOUS
  <2>2. kind' = "spool" /\ chunk' = c /\ spool' = spool /\ PtrInSpool(spool)
    BY <1>7, <2>1 DEF ReadSpool, NewChunk, diskVars, Readable
  <2>3. spool.segs # {} /\ Aimed(spool, stored) /\ Ordered(spool, Settled)
    BY <1>1, <2>2 DEF PtrInSpool, PosInv, OrderInv, SpoolOrder
  <2>4. ASSUME NEW i \in DOMAIN c, NEW q \in Sooner(c[i].e.p)
        PROVE  q \in Settled \/ \E j \in 1..i - 1 : c[j].e.p = q
    BY <1>1, <2>1, <2>2, <2>3, <2>4, ChunkOrdered
  <2> QED
    BY <1>2, <2>2, <2>4 DEF ChunkOrder
<1>8. CASE ReadMemory
  <2>1. CASE Idle
    BY <1>3, <2>1 DEF Idle, EmptyChunk
  <2>2. ASSUME NEW w \in Workers, memory[w] # <<>>,
               NewChunk("memory", [i \in DOMAIN FirstOf(memory[w], ChunkPoints) |->
                                     [e |-> memory[w][i], end |-> NoPtr]])
        PROVE  ChunkOrder'
    <3>1. PICK q \in Seq(Entries) : q = memory[w]
      BY <1>1
    <3>2. PICK n \in Nat \ {0} : /\ n = IF Len(q) < ChunkPoints THEN Len(q) ELSE ChunkPoints
                                 /\ DOMAIN FirstOf(q, ChunkPoints) = 1..n
      BY <2>2, <3>1, FirstOfType
    <3>3. chunk' = [i \in 1..n |-> [e |-> q[i], end |-> NoPtr]] /\ Exhausted(spool) /\ spool' = SkipTorn(spool)
      BY <1>8, <2>2, <3>1, <3>2 DEF NewChunk, ReadMemory
    <3>4. DOMAIN chunk' = 1..n /\ \A i \in 1..n : chunk'[i].e = q[i]
      BY <3>3
    <3>5. n <= Len(q) /\ Len(q) \in Nat /\ DOMAIN q = 1..Len(q)
      BY <3>1, <3>2, SpoolAssumption
    <3>6. SUFFICES ASSUME spool.segs # {}, NEW i \in 1..n, NEW s \in Sooner(q[i].p), s \notin Settled
                   PROVE  \E j \in 1..i - 1 : q[j].p = s
      <4>1. spool'.segs = spool.segs
        BY <1>1, <3>3, SkipTornGood
      <4>2. \A i \in 1..n : \A j \in 1..i - 1 : j \in 1..n
        BY <3>2
      <4> QED
        BY <1>2, <3>4, <4>1, <4>2 DEF ChunkOrder
    <3>7. InRow(q, Settled \cup Lying) /\ Aimed(spool, stored) /\ Newest(spool)
      BY <1>1, <3>1, <3>6 DEF OrderInv, MemoryOrder, PosInv
    <3>8. ~Lies(spool, s)
      <4>1. SUFFICES ASSUME NEW g \in spool.segs, LiesIn(spool, g, s) PROVE FALSE
        BY DEF Lies
      <4>2. PtrInSpool(spool) /\ ~Readable(spool) /\ spool.ptr[1] = spool.cur
        BY <3>3, <3>6, <3>7 DEF Exhausted, PtrInSpool, PtrSeg, Aimed
      <4>3. spool.ptr[1] <= g /\ g <= spool.cur /\ g \in Nat /\ spool.ptr[1] \in Nat
        <5>1. spool.segs \subseteq SegIds /\ spool.ptr \in Pointers
          BY <1>1 DEF GoodSpool, SpoolType
        <5>2. g \in Nat /\ spool.ptr[1] \in Nat
          BY <4>1, <5>1 DEF SegIds, Pointers
        <5>3. spool.ptr[1] <= g
          BY <3>6, <3>7, <4>1 DEF Aimed
        <5>4. g <= spool.cur
          BY <3>6, <3>7, <4>1 DEF Newest
        <5> QED
          BY <5>2, <5>3, <5>4
      <4>4. g = spool.ptr[1]
        BY <4>2, <4>3
      <4> QED
        BY <1>1, <4>1, <4>2, <4>4, NothingLies
    <3>9. s \notin Settled \cup Lying
      BY <3>6, <3>8 DEF Lying
    <3>10. i \in DOMAIN q
      BY <3>5, <3>6
    <3> QED
      BY <3>6, <3>7, <3>9, <3>10 DEF InRow
  <2> QED
    BY <1>8, <2>1, <2>2 DEF ReadMemory
<1>9. CASE ReadLive
  BY <1>3, <1>9 DEF ReadLive, NewChunk, Idle, EmptyChunk
<1>10. CASE ConsumeLive \/ ConsumeMemory \/ ConsumeSpool \/ Exit \/ Kill
  BY <1>3, <1>10 DEF ConsumeLive, ConsumeMemory, ConsumeSpool, PassGoesOn, Exit, Kill, ProcessEnds, NoThread, EmptyChunk
<1>11. CASE QuietStep /\ ~Start
  BY <1>5, <1>11, QuietSteps DEF Quiet
<1>12. CASE AppendStep /\ ~Start
  BY <1>1, <1>5, <1>12, AppendFacts
<1>13. CASE PostStep /\ ~Start
  BY <1>5, <1>13, PostFacts
<1>14. CASE (ReleaseOver \/ SaveRefused \/ \E e \in due : Release(e)) /\ ~Start
  BY <1>5, <1>14 DEF ReleaseOver, SaveRefused, Release
<1>15. CASE (RetireSegment \/ SetAsideSegment \/ CloseEnds) /\ ~Start
  BY <1>5, <1>15 DEF RetireSegment, SetAsideSegment, CloseEnds
<1>16. CASE (\E w \in Workers : \E n \in 1..MaxPoints : Submit(w, n)) /\ ~Start
  BY <1>5, <1>16 DEF Submit
<1> QED
  BY <1>6, <1>7, <1>8, <1>9, <1>10, <1>11, <1>12, <1>13, <1>14, <1>15, <1>16, QuietOrMoves
  DEF Moves, InPlace, AppendStep

(* A refused point's earlier ones come before it in the chunk, and so in the *)
(* group it is posted with, being its own worker's.                          *)
LEMMA ChunkSooner ==
  ASSUME IInv, OrderInv, spool.segs # {}, tpc \in {"post", "single"}, kind # "live",
         NEW i \in Group, NEW q \in Sooner(chunk[i].e.p)
  PROVE  q \in Settled \/ \E j \in Group : j < i /\ chunk[j].e.p = q
<1>1. ThreadTypeOK /\ DOMAIN chunk \ tried # {} /\ chunk \in Seq(ChunkEntries)
  BY DEF IInv, ThreadInv, ThreadTypeOK, ChunkInv
<1>2. Group \subseteq DOMAIN chunk
  BY <1>1, GroupOfChunk
<1>3. q \in Settled \/ \E j \in 1..i - 1 : chunk[j].e.p = q
  BY <1>2 DEF OrderInv, ChunkOrder
<1>4. ASSUME NEW j \in 1..i - 1, chunk[j].e.p = q PROVE j \in Group /\ j < i
  <2>1. DOMAIN chunk = 1..Len(chunk) /\ Len(chunk) \in Nat
    BY <1>1
  <2>2. i \in 1..Len(chunk)
    BY <1>2, <2>1
  <2>3. j \in DOMAIN chunk /\ j < i
    BY <2>1, <2>2
  <2>4. q[1] = chunk[i].e.p[1]
    BY DEF Sooner
  <2>5. SourceAt(j) = SourceAt(i)
    BY <1>4, <2>4 DEF SourceAt
  <2>6. PICK first : first = Min(DOMAIN chunk \ tried)
    OBVIOUS
  <2>7. Group = {k \in DOMAIN chunk : SourceAt(k) = SourceAt(first)}
    BY <2>6 DEF Group
  <2> QED
    BY <2>3, <2>5, <2>7
<1> QED
  BY <1>3, <1>4

(* The earlier readings of one refused on its own are settled.               *)
LEMMA SingleSooner ==
  ASSUME IInv, LossInv, OrderInv, spool.segs # {}, tpc = "single", kind # "live",
         NEW q \in Sooner(chunk[single].e.p)
  PROVE  q \in Settled
<1>1. single \in Group /\ \A j \in Group : j < single => j \in done
  BY DEF OrderInv, SingleInv
<1>2. PICK i \in Group : i = single
  BY <1>1
<1>3. q \in Settled \/ \E j \in Group : j < i /\ chunk[j].e.p = q
  BY <1>2, ChunkSooner
<1>4. ASSUME NEW j \in Group, j < i, chunk[j].e.p = q PROVE q \in Settled
  BY <1>1, <1>2, <1>4, DoneSettled DEF LossInv, OrderInv
<1> QED
  BY <1>3, <1>4

(* The earlier readings of a point that waits are settled.                   *)
LEMMA WaitOrderStep ==
  ASSUME IInv, LossInv, OrderInv, [Next]_vars
  PROVE  WaitOrder'
<1>1. LifeInv /\ PosInv /\ WaitOrder
  BY DEF LossInv, OrderInv
<1>2. Settled \subseteq Settled'
  BY SettledGrows
<1>3. mode # "memory" => spool.segs # {}
  BY <1>1 DEF LifeInv
<1>4. ASSUME \A e \in retry' : e \in retry \/ (e \in waiting /\ spool.segs # {}),
             spool'.segs # {} => \A e \in waiting' : e \in retry \/ (e \in waiting /\ spool.segs # {})
      PROVE  WaitOrder'
  BY <1>1, <1>2, <1>4 DEF WaitOrder
<1>5. ASSUME retry' = retry, waiting' \subseteq waiting, ~Start PROVE WaitOrder'
  <2>1. spool'.segs # {} => spool.segs # {}
    BY <1>5, OnlyStartOpens
  <2> QED
    BY <1>4, <1>5, <2>1
<1>6. ASSUME NEW m, NEW d, WriteRetryFile(m, waiting, d), m = "disk" => spool.segs # {},
             waiting' \subseteq waiting, ~Start
      PROVE  WaitOrder'
  <2>1. retry' = retry \/ (retry' = waiting /\ spool.segs # {})
    BY <1>6 DEF WriteRetryFile
  <2>2. spool'.segs # {} => spool.segs # {}
    BY <1>6, OnlyStartOpens
  <2> QED
    BY <1>4, <1>6, <2>1, <2>2
<1> USE DEF diskVars, queueVars
<1>7. CASE Start
  BY <1>4, <1>7 DEF Start, OpensSpool, OpensNoSpool
<1>8. CASE QuietStep /\ ~Start
  <2>1. UNCHANGED <<waiting, retry>>
    BY <1>8, QuietSteps DEF Quiet
  <2> QED
    BY <1>5, <1>8, <2>1
<1>9. CASE AppendStep /\ ~Start
  <2>1. CASE \E w \in Workers : MoveToSpool(w)
    BY <1>5, <1>9, <2>1 DEF MoveToSpool
  <2>2. CASE WriteToSpool
    <3>1. /\ waiting' \subseteq waiting /\ mode # "memory"
          /\ retry' = retry \/ WriteRetryFile("disk", waiting, TRUE)
      BY <2>2 DEF WriteToSpool, AppendOver
    <3> QED
      BY <1>3, <1>5, <1>6, <1>9, <3>1
  <2>3. CASE AppendFails \/ AppendToMemory
    BY <1>5, <1>9, <2>3 DEF AppendFails, AppendToMemory, KeepInMemory, AppendOver
  <2> QED
    BY <1>9, <2>1, <2>2, <2>3 DEF AppendStep
<1>10. CASE (ReleaseOver \/ SaveRefused) /\ ~Start
  <2>1. waiting' = waiting /\ \E d : WriteRetryFile(mode, waiting, d)
    BY <1>10 DEF ReleaseOver, SaveRefused
  <2> QED
    BY <1>3, <1>6, <1>10, <2>1
<1>11. CASE PostStep /\ ~Start
  <2>1. CASE SingleRefused
    <3>1. ThreadTypeOK /\ ChunkInv
      BY DEF IInv, ThreadInv
    <3>2. PICK e : e = chunk[single].e
      OBVIOUS
    <3>3. tpc = "single" /\ retry' = retry /\ spool' = spool
      BY <2>1 DEF SingleRefused
    <3>4. CASE kind = "live" \/ GivesUpOn(e.r + 1)
      BY <1>5, <1>11, <2>1, <3>2, <3>3, <3>4 DEF SingleRefused
    <3>5. CASE kind # "live" /\ ~GivesUpOn(e.r + 1)
      <4>1. e \in Entries
        BY <3>1, <3>2, <3>3, <3>5 DEF ChunkInv
      <4>2. PICK n : n = [e EXCEPT !.r = @ + 1]
        OBVIOUS
      <4>3. n.p = e.p /\ waiting' = waiting \cup {n}
        BY <2>1, <3>2, <3>5, <4>1, <4>2 DEF SingleRefused, Entries
      <4>4. spool.segs # {} => Sooner(e.p) \subseteq Settled
        BY <3>2, <3>3, <3>5, SingleSooner
      <4> QED
        BY <1>1, <1>2, <3>3, <4>3, <4>4 DEF WaitOrder
    <3> QED
      BY <3>4, <3>5
  <2>2. CASE ~SingleRefused
    BY <1>5, <1>11, <2>2 DEF PostStep, PostAccepted, PostRefused, PostUnanswered, DropUnconfigured, SingleAccepted
  <2> QED
    BY <2>1, <2>2
<1>12. CASE (ReadLive \/ ReadSpool \/ ConsumeLive \/ ConsumeMemory \/ ConsumeSpool \/ CloseEnds) /\ ~Start
  BY <1>5, <1>12 DEF ReadLive, ReadSpool, ConsumeLive, ConsumeMemory, ConsumeSpool, CloseEnds
<1>13. CASE (RetireSegment \/ SetAsideSegment \/ ReadMemory) /\ ~Start
  BY <1>5, <1>13 DEF RetireSegment, SetAsideSegment, ReadMemory
<1>14. CASE ((\E e \in due : Release(e)) \/ \E w \in Workers : \E n \in 1..MaxPoints : Submit(w, n)) /\ ~Start
  BY <1>5, <1>14 DEF Release, Submit
<1>15. CASE (Exit \/ Kill) /\ ~Start
  BY <1>5, <1>15 DEF Exit, Kill, ProcessEnds
<1> QED
  BY <1>7, <1>8, <1>9, <1>10, <1>11, <1>12, <1>13, <1>14, <1>15, QuietOrMoves DEF Moves, InPlace, AppendStep

(* The entry under way is the latest reading, or its earlier ones are        *)
(* settled.                                                                  *)
LEMMA AddOrderStep ==
  ASSUME IInv, LossInv, OrderInv, [Next]_vars
  PROVE  AddOrder'
<1>1. LifeInv /\ PosInv /\ WaitOrder /\ AddOrder /\ AppendInv /\ QueueTypeOK /\ HistoryTypeOK
  BY DEF LossInv, OrderInv, IInv, QueueInv
<1>2. Settled \subseteq Settled' /\ Submitted \subseteq Submitted'
  BY SettledGrows
<1>3. ASSUME adding' = adding \/ adding' = NoEntry PROVE AddOrder'
  <2>1. CASE adding' = NoEntry
    BY <2>1 DEF AddOrder
  <2>2. CASE adding' = adding /\ adding # NoEntry
    <3>1. ~Start
      BY <1>1, <2>2 DEF Start, AppendInv
    <3>2. spool'.segs # {} => spool.segs # {}
      BY <3>1, OnlyStartOpens
    <3> QED
      BY <1>1, <1>2, <2>2, <3>2 DEF AddOrder
  <2> QED
    BY <1>3, <2>1, <2>2
<1> USE DEF appendVars
<1>4. CASE \E e \in due : Release(e)
  <2>1. PICK e \in due : Release(e)
    BY <1>4
  <2>2. e \in waiting /\ adding' = e /\ spool' = spool
    BY <1>1, <2>1 DEF Release, QueueTypeOK, diskVars
  <2> QED
    BY <1>1, <1>2, <2>2 DEF AddOrder, WaitOrder
<1>5. CASE \E w \in Workers : \E n \in 1..MaxPoints : Submit(w, n)
  <2>1. PICK w \in Workers, n \in 1..MaxPoints : Submit(w, n)
    BY <1>5
  <2>2. adding' = [p |-> <<w, n>>, r |-> 0] /\ reading' = [reading EXCEPT ![w] = n]
    BY <2>1 DEF Submit
  <2>3. adding'.p = <<w, n>> /\ reading'[w] = n /\ n \in Nat /\ <<w, n>> \in Points
    BY <1>1, <2>2 DEF HistoryTypeOK, Points
  <2>4. <<w, n>> \in Submitted'
    BY <2>3 DEF Submitted
  <2> QED
    BY <2>3, <2>4 DEF AddOrder
<1>6. CASE QuietStep
  BY <1>3, <1>6, QuietSteps DEF Quiet
<1>7. CASE AppendStep
  BY <1>3, <1>7 DEF AppendStep, MoveToSpool, WriteToSpool, AppendFails, AppendToMemory, KeepInMemory, AppendOver
<1>8. CASE PostStep
  BY <1>3, <1>8, PostFacts
<1>9. CASE ReleaseOver \/ SaveRefused \/ ReadLive \/ ReadSpool \/ ConsumeLive \/ ConsumeMemory \/ ConsumeSpool
  BY <1>3, <1>9 DEF ReleaseOver, SaveRefused, ReadLive, ReadSpool, ConsumeLive, ConsumeMemory, ConsumeSpool
<1>10. CASE RetireSegment \/ SetAsideSegment \/ ReadMemory \/ CloseEnds \/ Start
  BY <1>3, <1>10 DEF RetireSegment, SetAsideSegment, ReadMemory, CloseEnds, Start
<1>11. CASE Exit \/ Kill
  BY <1>3, <1>11 DEF Exit, Kill, ProcessEnds
<1> QED
  BY <1>4, <1>5, <1>6, <1>7, <1>8, <1>9, <1>10, <1>11, QuietOrMoves DEF Moves, InPlace, AppendStep

-----------------------------------------------------------------------------
(* The order of the lines, step by step *)

(* The spool untouched is in order as it was.                                *)
LEMMA SameOrder ==
  ASSUME SpoolOrder, UNCHANGED <<spool, stored>>, Settled \subseteq Settled'
  PROVE  SpoolOrder'
<1>1. PICK s : s = IF spool.segs = {} THEN Loaded(spool, stored) ELSE spool
  OBVIOUS
<1>2. Ordered(s, Settled)
  BY <1>1 DEF SpoolOrder
<1>3. Ordered(s, Settled')
  BY <1>2, OrderedMore
<1> QED
  BY <1>1, <1>3 DEF SpoolOrder

(* An append follows its worker's earlier readings.                          *)
LEMMA AppendOrder ==
  ASSUME IInv, LossInv, OrderInv, AppendStep, Settled \subseteq Settled'
  PROVE  SpoolOrder'
<1>1. LifeInv /\ PosInv /\ SpoolOrder
  BY DEF LossInv, OrderInv
<1>2. /\ adding \in Entries /\ adding # NoEntry /\ stored' = stored
      /\ mode # "memory" => spool'.segs # {}
      /\ mode = "memory" => UNCHANGED spool
  BY <1>1, AppendFacts
<1>3. CASE mode = "memory"
  BY <1>1, <1>2, <1>3, SameOrder
<1>4. CASE mode # "memory"
  <2>1. /\ GoodSpool(spool) /\ spool.onDisk \subseteq spool.segs /\ stored \in Pointers
        /\ spool.segs # {} /\ Aimed(spool, stored) /\ Newest(spool) /\ Ordered(spool, Settled)
    BY <1>1, <1>4, SpoolFacts DEF LifeInv, PosInv, SpoolOrder
  <2>2. memory \in [Workers -> Seq(Entries)]
    BY DEF IInv, QueueInv, QueueTypeOK
  <2>3. ASSUME NEW w \in Workers, memory[w] # <<>>
        PROVE  Head(memory[w]) \in Entries /\ Led(spool, Head(memory[w]).p, Settled)
    BY <2>1, <2>2, <2>3, HeadLed
  <2>4. MemoryEmpty => Led(spool, adding.p, Settled)
    BY <1>2, <2>1, AddingLedAlone
  <2>5. ASSUME NEW e \in Entries, CanStart(spool), Led(spool, e.p, Settled), spool' = Wrote(spool, e),
               excused' = excused \cup EvictedPoints(Appended(spool, e))
        PROVE  SpoolOrder'
    <3>1. PICK R2 : R2 = Settled'
      OBVIOUS
    <3>2. Settled \subseteq R2 /\ EvictedPoints(Appended(spool, e)) \subseteq R2
      BY <2>5, <3>1 DEF Settled
    <3>3. Ordered(Wrote(spool, e), R2)
      BY <2>1, <2>5, <3>2, WroteOrdered
    <3> QED
      BY <1>2, <1>4, <2>5, <3>1, <3>3 DEF SpoolOrder
  <2>6. CASE \E w \in Workers : MoveToSpool(w)
    <3>1. PICK w \in Workers : MoveToSpool(w)
      BY <2>6
    <3>2. PICK e : e = Head(memory[w])
      OBVIOUS
    <3>3. /\ memory[w] # <<>> /\ CanStart(spool) /\ spool' = Wrote(spool, e)
          /\ excused' = excused \cup EvictedPoints(Appended(spool, e))
      BY <3>1, <3>2 DEF MoveToSpool
    <3> QED
      BY <2>3, <2>5, <3>2, <3>3
  <2>7. CASE WriteToSpool
    BY <1>2, <2>4, <2>5, <2>7 DEF WriteToSpool
  <2>8. CASE AppendFails
    <3>1. PICK e \in Entries : spool' \in FailedWrites(spool, e) /\ Led(spool, e.p, Settled)
      <4>1. CASE MemoryEmpty
        BY <1>2, <2>4, <2>8, <4>1 DEF AppendFails
      <4>2. CASE ~MemoryEmpty
        <5>1. PICK e \in {Head(memory[w]) : w \in {v \in Workers : memory[v] # <<>>}} :
                spool' \in FailedWrites(spool, e)
          BY <2>8, <4>2 DEF AppendFails
        <5> QED
          BY <2>3, <5>1
      <4> QED
        BY <4>1, <4>2
    <3>2. CanStart(spool)
      BY <2>8 DEF AppendFails
    <3>3. PICK f \in FailedWrites(spool, e) : f = spool'
      BY <3>1
    <3>4. Ordered(f, Settled)
      BY <2>1, <3>1, <3>2, FailedWritesOrdered
    <3>5. Ordered(f, Settled')
      BY <3>4, OrderedMore
    <3> QED
      BY <1>2, <1>4, <3>3, <3>5 DEF SpoolOrder
  <2>9. CASE AppendToMemory
    BY <1>4, <2>9 DEF AppendToMemory
  <2> QED
    BY <2>6, <2>7, <2>8, <2>9 DEF AppendStep
<1> QED
  BY <1>3, <1>4

(* A segment set aside leaves the others in order.                           *)
LEMMA AsideOrder ==
  ASSUME IInv, LossInv, OrderInv, SetAsideSegment, Settled \subseteq Settled'
  PROVE  SpoolOrder'
<1>1. PosInv /\ SpoolOrder
  BY DEF LossInv, OrderInv
<1>2. PICK g, t, closed : g = PtrSeg(spool) /\ t = [spool EXCEPT !.open = FALSE] /\ closed = Retired(t, g)
  OBVIOUS
<1>3. /\ \/ g # spool.cur /\ spool' = Retired(spool, g)
         \/ g = spool.cur /\ spool' = Started(closed)
         \/ g = spool.cur /\ spool' = AbandonSpool(closed) /\ mode' = "memory"
      /\ g = spool.ptr[1] /\ g \in spool.segs /\ g \in SegIds
      /\ Newest(spool) /\ spool.onDisk \subseteq spool.segs
      /\ \A p : LiesIn(spool, g, p) => p \in excused'
      /\ GoodSpool(t) /\ t.segs = spool.segs /\ t.ptr = spool.ptr /\ t.files = spool.files /\ t.size = spool.size
      /\ GoodSpool(closed) /\ closed.onDisk \subseteq closed.segs /\ CanStart(closed)
      /\ stored' \in Pointers /\ Aimed(closed, stored')
  BY <1>1, <1>2, AsideClosed
<1>4. PICK R : R = Settled'
  OBVIOUS
<1>5. GoodSpool(spool) /\ Ordered(spool, R) /\ excused' \subseteq R
  <2>1. spool.segs # {}
    BY <1>3
  <2>2. Ordered(spool, Settled)
    BY <1>1, <2>1 DEF SpoolOrder
  <2>3. Ordered(spool, R)
    BY <1>4, <2>2, OrderedMore
  <2> QED
    BY <1>4, <2>3, SpoolFacts DEF Settled
<1>6. Ordered(t, R)
  BY <1>3, <1>5 DEF Ordered, InFront, Stands
<1>7. Ordered(closed, R)
  <2>1. \A q : LiesIn(t, g, q) => q \in R
    BY <1>3, <1>5 DEF LiesIn
  <2> QED
    BY <1>2, <1>3, <1>6, <2>1, RetiredOrdered
<1>8. CASE g # spool.cur /\ spool' = Retired(spool, g)
  <2>1. Ordered(Retired(spool, g), R)
    BY <1>3, <1>5, RetiredOrdered
  <2>2. Retired(spool, g).segs = spool.segs \ {g}
    BY <1>3, <1>5, <1>8, RetiredGood
  <2>3. Retired(spool, g).segs # {}
    BY <1>3, <1>8, <2>2 DEF Newest
  <2> QED
    BY <1>4, <1>8, <2>1, <2>3 DEF SpoolOrder
<1>9. CASE spool' = Started(closed)
  <2>1. Ordered(Started(closed), R)
    <3>1. PICK at : at = stored'
      OBVIOUS
    <3> QED
      BY <1>3, <1>7, <3>1, StartedOrdered
  <2>2. Started(closed).segs # {}
    BY <1>3, StartedGood
  <2> QED
    BY <1>4, <1>9, <2>1, <2>2 DEF SpoolOrder
<1>10. CASE spool' = AbandonSpool(closed)
  <2>1. PICK u, at : u = AbandonSpool(closed) /\ at = stored'
    OBVIOUS
  <2>2. u.onDisk = closed.onDisk /\ u.files = closed.files /\ u.segs = {}
    BY <1>3, <2>1 DEF AbandonSpool, GoodSpool, SpoolType
  <2>3. Loaded(u, at) = Loaded(closed, at)
    BY <2>2, SameLoaded
  <2>4. Ordered(Loaded(closed, at), R)
    BY <1>3, <1>7, <2>1, LoadedOrdered
  <2> QED
    BY <1>4, <1>10, <2>1, <2>2, <2>3, <2>4 DEF SpoolOrder
<1> QED
  BY <1>3, <1>8, <1>9, <1>10

(* What is consumed of a chunk leaves the rest in order.                     *)
LEMMA ConsumedOrdered ==
  ASSUME IInv, LossInv, OrderInv, kind = "spool", Consumed # 0,
         NEW end, end = chunk[Consumed].end, NEW t, t = SpoolAfter(end)
  PROVE  Ordered(t, Settled)
<1>1. PosInv /\ ChunkAt /\ DoneKept /\ TurnedInv /\ SpoolOrder /\ GoodSpool(spool)
  BY SpoolFacts DEF LossInv, OrderInv
<1>2. Ordered(spool, Settled)
  BY <1>1 DEF ChunkAt, SpoolOrder
<1>3. CASE end[1] \notin spool.segs
  <2>1. t = spool
    BY <1>1, <1>3, ConsumedPlaced
  <2> QED
    BY <1>2, <2>1
<1>4. CASE end[1] \in spool.segs
  <2>1. /\ end \in Pointers /\ end[1] = spool.ptr[1] /\ spool.ptr[1] \in spool.segs /\ t = Past(spool, end)
        /\ \A i \in spool.ptr[2] + 1 .. end[2] : \E k \in done : spool.files[end[1]][i] = chunk[k].e
    BY <1>1, <1>4, ConsumedPlaced
  <2>2. \A i \in spool.ptr[2] + 1 .. end[2] : spool.files[end[1]][i].p \in Settled
    BY <1>1, <2>1, DoneSettled
  <2> QED
    BY <1>1, <1>2, <2>1, <2>2, PastOrdered
<1> QED
  BY <1>3, <1>4

(* A process that ends leaves its files in order.                            *)
LEMMA EndOrder ==
  ASSUME IInv, LossInv, OrderInv, ProcessEnds, Settled \subseteq Settled'
  PROVE  SpoolOrder'
<1>1. LifeInv /\ PosInv /\ ChunkAt /\ DoneKept /\ SpoolOrder /\ GoodSpool(spool) /\ stored \in Pointers
  BY SpoolFacts DEF LossInv, OrderInv
<1>2. PICK s \in CutShort(spool) : spool' = [AbandonSpool(s) EXCEPT !.stale = 0]
  BY DEF ProcessEnds
<1>3. GoodSpool(s)
  BY CutShortGood DEF IInv
<1>4. PICK u : u = spool'
  OBVIOUS
<1>5. u.onDisk = s.onDisk /\ u.files = s.files /\ u.segs = {} /\ stored' = stored
  <2>1. PICK v : v = AbandonSpool(s)
    OBVIOUS
  <2>2. v.onDisk = s.onDisk /\ v.files = s.files /\ v.segs = {} /\ v \in SpoolType
    BY <1>3, <2>1, AbandonGood DEF AbandonSpool, GoodSpool, SpoolType
  <2>3. u = [v EXCEPT !.stale = 0]
    BY <1>2, <1>4, <2>1
  <2> QED
    BY <2>2, <2>3 DEF SpoolType, ProcessEnds
<1>6. SUFFICES Ordered(Loaded(s, stored), Settled)
  <2>1. Loaded(u, stored) = Loaded(s, stored)
    BY <1>5, SameLoaded
  <2>2. Ordered(Loaded(s, stored), Settled')
    BY <1>6, OrderedMore
  <2> QED
    BY <1>4, <1>5, <2>1, <2>2 DEF SpoolOrder
<1>7. CASE spool.segs = {}
  BY <1>1, <1>7, CutShortFacts DEF SpoolOrder
<1>8. CASE spool.segs # {}
  <2>1. Aimed(s, stored) /\ s.onDisk \subseteq s.segs
    BY <1>1, <1>8, CutShortFacts
  <2>2. Ordered(spool, Settled) /\ Newest(spool)
    BY <1>1, <1>8 DEF SpoolOrder, PosInv
  <2>3. Ordered(s, Settled)
    <3>1. CASE s = spool
      BY <2>2, <3>1
    <3>2. CASE spool.open /\ s = TornEnd(spool)
      BY <1>1, <2>2, <3>2, TornOrdered
    <3>3. CASE Finished(spool) /\ s = Retired(spool, PtrSeg(spool))
      BY <1>1, <2>2, <3>3, FinishedOrdered
    <3>4. CASE kind = "spool" /\ Consumed # 0 /\ s = SpoolAfter(chunk[Consumed].end)
      <4>1. PICK end : end = chunk[Consumed].end
        OBVIOUS
      <4> QED
        BY <3>4, <4>1, ConsumedOrdered
    <3> QED
      BY <1>1, <3>1, <3>2, <3>3, <3>4, CutShortFacts
  <2> QED
    BY <1>1, <1>3, <2>1, <2>3, LoadedOrdered
<1> QED
  BY <1>7, <1>8

(* A start finds them so.                                                    *)
LEMMA StartOrder ==
  ASSUME IInv, LossInv, OrderInv, Start, Settled \subseteq Settled'
  PROVE  SpoolOrder'
<1>1. LifeInv /\ PosInv /\ SpoolOrder /\ GoodSpool(spool) /\ stored \in Pointers
  BY SpoolFacts DEF LossInv, OrderInv
<1>2. PICK s : s = Loaded(spool, stored)
  OBVIOUS
<1>3. spool.segs = {} /\ stored' = stored
  BY <1>1 DEF Start, LifeInv
<1>4. Ordered(s, Settled)
  BY <1>1, <1>2, <1>3 DEF SpoolOrder
<1>5. GoodSpool(s) /\ s.onDisk \subseteq s.segs /\ Aimed(s, stored)
  BY <1>1, <1>2, <1>3, LoadedGood, LoadedAimed DEF PosInv
<1>6. CASE CanStart(s) /\ spool' = Started(s)
  <2>1. Ordered(Started(s), Settled)
    BY <1>4, <1>5, <1>6, StartedOrdered
  <2>2. Ordered(Started(s), Settled')
    BY <2>1, OrderedMore
  <2>3. Started(s).segs # {}
    BY <1>5, <1>6, StartedGood
  <2> QED
    BY <1>6, <2>2, <2>3 DEF SpoolOrder
<1>7. CASE spool' = AbandonSpool(s)
  <2>1. PICK u : u = AbandonSpool(s)
    OBVIOUS
  <2>2. u.onDisk = s.onDisk /\ u.files = s.files /\ u.segs = {}
    BY <1>5, <2>1 DEF AbandonSpool, GoodSpool, SpoolType
  <2>3. s.onDisk = NonEmpty(spool) /\ s.files = spool.files
    BY <1>2 DEF Loaded
  <2>4. NonEmpty(u) = NonEmpty(spool)
    BY <2>2, <2>3 DEF NonEmpty
  <2>5. Loaded(u, stored) = s
    <3>1. Oldest(u) = Oldest(spool)
      BY <2>4 DEF Oldest
    <3>2. ResumeAt(u, stored) = ResumeAt(spool, stored)
      BY <2>2, <2>3, <2>4, <3>1 DEF ResumeAt
    <3> QED
      BY <1>2, <2>2, <2>3, <2>4, <3>2 DEF Loaded
  <2>6. Ordered(s, Settled')
    BY <1>4, OrderedMore
  <2> QED
    BY <1>3, <1>7, <2>1, <2>2, <2>5, <2>6 DEF SpoolOrder
<1>8. CASE UNCHANGED spool
  BY <1>1, <1>3, <1>8, SameOrder
<1> QED
  BY <1>2, <1>6, <1>7, <1>8 DEF Start, OpensSpool, OpensNoSpool

(* The spool stays in order.                                                 *)
LEMMA SpoolOrderStep ==
  ASSUME IInv, LossInv, OrderInv, [Next]_vars
  PROVE  SpoolOrder'
<1>1. LifeInv /\ PosInv /\ SpoolOrder /\ GoodSpool(spool) /\ stored \in Pointers
  BY SpoolFacts DEF LossInv, OrderInv
<1>2. Settled \subseteq Settled'
  BY SettledGrows
<1>3. CASE QuietStep
  BY <1>1, <1>2, <1>3, QuietSteps, SameOrder DEF Quiet
<1>4. CASE InPlace
  BY <1>1, <1>2, <1>4, InPlaceSteps, SameOrder
<1>5. ASSUME NEW t, spool' = t, t.segs # {}, Ordered(t, Settled) PROVE SpoolOrder'
  <2>1. Ordered(t, Settled')
    BY <1>2, <1>5, OrderedMore
  <2> QED
    BY <1>5, <2>1 DEF SpoolOrder
<1>6. CASE RetireSegment
  <2>1. PICK t, at : t = Retired(spool, PtrSeg(spool)) /\ at = stored
    OBVIOUS
  <2>2. Finished(spool) /\ spool' = t /\ spool.segs # {}
    BY <1>6, <2>1 DEF RetireSegment, Finished, PtrInSpool
  <2>3. Ordered(t, Settled)
    BY <1>1, <2>1, <2>2, FinishedOrdered DEF SpoolOrder
  <2>4. t.segs # {}
    <3>1. at \in {stored, t.ptr}
      BY <2>1
    <3> QED
      BY <1>1, <2>1, <2>2, <3>1, RetireStep
  <2> QED
    BY <1>5, <2>2, <2>3, <2>4
<1>7. CASE ReadMemory
  <2>1. Exhausted(spool) /\ spool' = SkipTorn(spool) /\ stored' = stored
    BY <1>7 DEF ReadMemory
  <2>2. spool'.segs = spool.segs /\ (spool.segs = {} => spool' = spool)
    BY <1>1, <2>1, TornStep
  <2>3. CASE spool.segs = {}
    BY <1>1, <1>2, <2>1, <2>2, <2>3, SameOrder
  <2>4. CASE spool.segs # {}
    <3>1. PICK t : t = SkipTorn(spool)
      OBVIOUS
    <3>2. Ordered(t, Settled)
      BY <1>1, <2>1, <2>4, <3>1, SkipTornOrdered DEF SpoolOrder
    <3> QED
      BY <1>5, <2>1, <2>2, <2>4, <3>1, <3>2
  <2> QED
    BY <2>3, <2>4
<1>8. CASE ConsumeSpool
  <2>1. CASE Consumed = 0
    BY <1>1, <1>2, <1>8, <2>1, SameOrder DEF ConsumeSpool
  <2>2. CASE Consumed # 0
    <3>1. PICK end, t : end = chunk[Consumed].end /\ t = SpoolAfter(end)
      OBVIOUS
    <3>2. kind = "spool" /\ spool' = t
      BY <1>8, <2>2, <3>1 DEF ConsumeSpool
    <3>3. t.segs # {}
      BY <1>1, <2>2, <3>1, <3>2, ConsumedAimed DEF LossInv
    <3>4. Ordered(t, Settled)
      BY <2>2, <3>1, <3>2, ConsumedOrdered
    <3> QED
      BY <1>5, <3>2, <3>3, <3>4
  <2> QED
    BY <2>1, <2>2
<1>9. CASE CloseEnds
  <2>1. PICK t : t = [spool EXCEPT !.open = FALSE]
    OBVIOUS
  <2>2. spool' = t /\ stored' = stored
    BY <1>9, <2>1 DEF CloseEnds
  <2>3. /\ t.segs = spool.segs /\ t.files = spool.files /\ t.size = spool.size /\ t.ptr = spool.ptr
        /\ t.onDisk = spool.onDisk
    BY <2>1, SpoolFacts DEF SpoolType
  <2>4. CASE spool.segs # {}
    <3>1. Ordered(t, Settled)
      BY <1>1, <2>3, <2>4 DEF SpoolOrder, Ordered, InFront, Stands
    <3> QED
      BY <1>5, <2>2, <2>3, <2>4, <3>1
  <2>5. CASE spool.segs = {}
    <3>1. Loaded(t, stored) = Loaded(spool, stored)
      BY <2>3, SameLoaded
    <3>2. Ordered(Loaded(spool, stored), Settled)
      BY <1>1, <2>5 DEF SpoolOrder
    <3>3. Ordered(Loaded(spool, stored), Settled')
      BY <1>2, <3>2, OrderedMore
    <3> QED
      BY <2>2, <2>3, <2>5, <3>1, <3>3 DEF SpoolOrder
  <2> QED
    BY <2>4, <2>5
<1>10. CASE AppendStep
  BY <1>2, <1>10, AppendOrder
<1>11. CASE SetAsideSegment
  BY <1>2, <1>11, AsideOrder
<1>12. CASE Exit \/ Kill
  BY <1>2, <1>12, EndOrder DEF Exit, Kill
<1>13. CASE Start
  BY <1>2, <1>13, StartOrder
<1> QED
  BY <1>3, <1>4, <1>6, <1>7, <1>8, <1>9, <1>10, <1>11, <1>12, <1>13, QuietOrMoves DEF Moves

-----------------------------------------------------------------------------
(* The third layer holds *)

(* It holds initially.                                                       *)
LEMMA OrderInit ==
  ASSUME Init
  PROVE  OrderInv
<1>1. PICK s : s = Loaded(spool, stored)
  OBVIOUS
<1>2. spool.segs = {} /\ s.segs = {}
  BY <1>1 DEF Init, EmptySpool, Loaded, NonEmpty
<1>3. SpoolOrder
  BY <1>1, <1>2 DEF SpoolOrder, Ordered
<1>4. TurnedInv /\ SingleInv
  BY DEF Init, TurnedInv, SingleInv, Waiting, Kept
<1>5. MemoryOrder /\ ChunkOrder /\ AddOrder
  BY <1>2 DEF MemoryOrder, ChunkOrder, AddOrder
<1>6. WaitOrder
  BY <1>2 DEF Init, WaitOrder
<1> QED
  BY <1>3, <1>4, <1>5, <1>6 DEF OrderInv

(* Every step keeps it.                                                      *)
LEMMA OrderStep ==
  ASSUME IInv, LossInv, OrderInv, [Next]_vars
  PROVE  OrderInv'
<1>1. TurnedInv /\ SingleInv
  BY DEF OrderInv
<1>2. TurnedInv' /\ SingleInv'
  BY <1>1, TurnedStep, SingleStep
<1>3. SpoolOrder' /\ MemoryOrder' /\ ChunkOrder' /\ WaitOrder' /\ AddOrder'
  BY SpoolOrderStep, MemoryOrderStep, ChunkOrderStep, WaitOrderStep, AddOrderStep
<1> QED
  BY <1>2, <1>3 DEF OrderInv

(* What a step stores is a group of the chunk, or the entry posted alone.    *)
LEMMA StoredByPost ==
  ASSUME IInv, SingleInv, [Next]_vars
  PROVE  \/ db' = db
         \/ tpc = "post" /\ db' = db \cup PointsAt(Group)
         \/ tpc = "single" /\ db' = db \cup PointsAt({single})
<1>1. ThreadTypeOK /\ ChunkInv
  BY DEF IInv, ThreadInv
<1> USE DEF historyVars
<1>2. CASE AppendStep
  BY <1>2 DEF AppendStep, MoveToSpool, WriteToSpool, AppendFails, AppendToMemory, KeepInMemory
<1>3. CASE ThreadTop \/ ReleaseStep \/ ThreadTimer
  BY <1>3 DEF ThreadTop, ReleaseStep, ThreadDue, Release, ReleaseOver, ThreadTimer
<1>4. CASE ReadStep
  BY <1>4 DEF ReadStep, ReadLive, ReadSpool, RetireSegment, SetAsideSegment, ReadMemory
<1>5. CASE PostStep
  <2>1. CASE PostAccepted
    BY <2>1 DEF PostAccepted
  <2>2. CASE SingleAccepted
    BY <2>2 DEF SingleAccepted
  <2>3. CASE PostUnanswered
    <3>1. tpc \in {"post", "single"} /\ db' \in {db, db \cup PointsAt(IF single = 0 THEN Group ELSE {single})}
      BY <2>3 DEF PostUnanswered
    <3>2. tpc = "post" => single = 0
      BY DEF SingleInv
    <3>3. tpc = "single" => single # 0
      BY <1>1 DEF ThreadTypeOK, ChunkInv
    <3> QED
      BY <3>1, <3>2, <3>3
  <2>4. CASE PostRefused \/ DropUnconfigured \/ SingleRefused
    BY <2>4 DEF PostRefused, DropUnconfigured, SingleRefused
  <2> QED
    BY <1>5, <2>1, <2>2, <2>3, <2>4 DEF PostStep
<1>6. CASE ConsumeStep
  BY <1>6 DEF ConsumeStep, SaveRefused, ConsumeLive, ConsumeMemory, ConsumeSpool
<1>7. CASE WaitStep
  BY <1>7 DEF WaitStep, ThreadCheck, ThreadWakes, ThreadClears
<1>8. CASE CallerStep
  BY <1>8 DEF CallerStep, Submit, SubmitAgain, SubmitLive, Rouse
<1>9. CASE TimerRunsOut \/ (\E e \in waiting : FallsDue(e)) \/ UNCHANGED vars
  BY <1>9 DEF TimerRunsOut, FallsDue, vars
<1>10. CASE Start \/ Close \/ CloseEnds \/ Exit \/ Kill
  BY <1>10 DEF Start, Close, CloseEnds, Exit, Kill, ProcessEnds
<1> QED
  BY <1>2, <1>3, <1>4, <1>5, <1>6, <1>7, <1>8, <1>9, <1>10 DEF Next, ThreadStep

(* A point is stored after the earlier ones of its worker, or with them.     *)
LEMMA StoredInOrder ==
  ASSUME IInv, LossInv, OrderInv, [Next]_vars, spool.segs # {},
         NEW p \in db' \ db, NEW q \in Submitted, q[1] = p[1], q[2] < p[2]
  PROVE  q \in db' \cup excused \cup turned
<1>1. SingleInv /\ db \subseteq db'
  BY SettledGrows DEF OrderInv
<1>2. q \in Sooner(p)
  BY DEF Submitted, Sooner
<1>3. ASSUME q \in Settled PROVE q \in db' \cup excused \cup turned
  BY <1>1, <1>3 DEF Settled
<1>4. CASE tpc = "post" /\ db' = db \cup PointsAt(Group)
  <2>1. kind # "live"
    BY <1>4 DEF PointsAt
  <2>2. PICK i \in Group : chunk[i].e.p = p
    BY <1>4, <2>1 DEF PointsAt
  <2>3. q \in Settled \/ \E j \in Group : j < i /\ chunk[j].e.p = q
    BY <1>2, <1>4, <2>1, <2>2, ChunkSooner
  <2>4. ASSUME NEW j \in Group, chunk[j].e.p = q PROVE q \in db'
    BY <1>4, <2>1, <2>4 DEF PointsAt
  <2> QED
    BY <1>3, <2>3, <2>4
<1>5. CASE tpc = "single" /\ db' = db \cup PointsAt({single})
  <2>1. kind # "live"
    BY <1>5 DEF PointsAt
  <2>2. chunk[single].e.p = p
    BY <1>5, <2>1 DEF PointsAt
  <2>3. q \in Settled
    BY <1>2, <1>5, <2>1, <2>2, SingleSooner
  <2> QED
    BY <1>3, <2>3
<1>6. CASE db' = db
  BY <1>6
<1> QED
  BY <1>1, <1>4, <1>5, <1>6, StoredByPost

-----------------------------------------------------------------------------
(* Theorems *)

(* The invariant holds of the writer, whatever it is fair to. *)
THEOREM Invariance == Safety => []IInv
<1>1. Init => IInv
  BY InitIInv
<1>2. IInv /\ [Next]_vars => IInv'
  BY NextIInv
<1> QED
  BY <1>1, <1>2, PTL DEF Safety

(* While the spool takes points memory holds none, so that no reading reaches *)
(* the spool ahead of an earlier one of its worker still in memory (_append,  *)
(* _move_memory_to_spool).                                                   *)
THEOREM SpoolKeepsOrder == Safety => []MemoryEmptyOnDisk
<1>1. IInv => MemoryEmptyOnDisk
  BY DEF IInv, QueueInv, MemoryInv, MemoryEmptyOnDisk
<1> QED
  BY <1>1, Invariance, PTL

(* The pointer never leaves the spool while there is one, so the search for a *)
(* later segment in _read_spool is never needed (_start_segment, _retire,     *)
(* _enforce_limit, _consume, _read_pointer).                                 *)
THEOREM PointerStays == Safety => []PointerInSpool
<1>1. Init => PointerInSpool
  BY DEF Init, EmptySpool, PointerInSpool
<1>2. IInv /\ PointerInSpool /\ [Next]_vars => PointerInSpool'
  BY PointerStep
<1> QED
  BY <1>1, <1>2, Invariance, PTL DEF Safety

(* The second layer of the invariant holds of the writer.                    *)
THEOREM LossInvariance == Safety => []LossInv
<1>1. Init => LossInv
  BY LossInit
<1>2. IInv /\ LossInv /\ [Next]_vars => LossInv'
  BY LossStep
<1> QED
  BY <1>1, <1>2, Invariance, PTL DEF Safety

(* A running writer forgets no point: through segments dropped, retired or    *)
(* set aside while a chunk of theirs is out, writes that fail and a disk that *)
(* comes back, and chunks refused in part, what send_data() handed over is    *)
(* stored, given up by name, or where this process finds it (_append,         *)
(* _read_spool, _send_run, _consume, _write_retry_file).                      *)
THEOREM NothingIsForgotten == Safety => []NothingForgotten
<1>1. IInv /\ LossInv => NothingForgotten
  BY LossFinds
<1> QED
  BY <1>1, Invariance, LossInvariance, PTL

(* A kill between any two steps loses only what was in memory anyway: the     *)
(* directory and pointer.json, as they are or as the step under way leaves    *)
(* them, and retry.jsonl give the next process every other point             *)
(* (_load_spool, _read_pointer, _load_retry_file).                           *)
THEOREM KillSurvived == Safety => []SurvivesKill
<1>1. IInv /\ LossInv => SurvivesKill
  BY LossRecovers
<1> QED
  BY <1>1, Invariance, LossInvariance, PTL

(* What is known of the heartbeats holds of the writer.                      *)
THEOREM HeartInvariance == Safety => []HeartInv
<1>1. Init => HeartInv
  BY HeartInit
<1>2. IInv /\ LossInv /\ HeartInv /\ [Next]_vars => HeartInv'
  BY HeartStep DEF LossInv
<1> QED
  BY <1>1, <1>2, Invariance, LossInvariance, PTL DEF Safety

(* An outage piles up no heartbeats: while the thread waits for the retry     *)
(* timer, submit_live() leaves no more of them than the queue's bound         *)
(* LIVE_POINTS exceeds a chunk, CHUNK_POINTS (_drop_live, _post_next_chunk,   *)
(* _consume).                                                                *)
THEOREM HeartbeatsBounded == Safety => []NoHeartbeatHeld
<1>1. HeartInv => NoHeartbeatHeld
  BY DEF HeartInv, HeldBounded, News, NoHeartbeatHeld
<1> QED
  BY <1>1, HeartInvariance, PTL

(* Every variable keeps its type: whatever a full disk, a torn line, a        *)
(* dropped segment or a restart leaves, the reader finds entries in what it   *)
(* decodes, and the pointer, the queues and the chunk stay well formed        *)
(* (_load_spool, _read_segment, _consume); and no outage makes a memory queue *)
(* or the heartbeat queue longer than its bound (_append, submit).            *)
THEOREM TypeCorrect == Safety => []TypeOK
<1>1. Init => MemoryBounded
  BY WriterAssumption DEF Init, MemoryBounded
<1>2. IInv /\ MemoryBounded /\ [Next]_vars => MemoryBounded'
  <2>1. IInv /\ MemoryBounded /\ Next => MemoryBounded'
    BY MemoryBoundedStep
  <2>2. MemoryBounded /\ UNCHANGED vars => MemoryBounded'
    BY DEF vars, queueVars, MemoryBounded
  <2> QED
    BY <2>1, <2>2
<1>3. IInv /\ HeartInv /\ MemoryBounded => TypeOK
  BY DEF IInv, DiskInv, QueueInv, ThreadInv, HeartInv, TypeOK
<1> QED
  BY <1>1, <1>2, <1>3, Invariance, HeartInvariance, PTL DEF Safety

(* The pass that "dealt with points and could not remove them", which _run    *)
(* reports as a bug, does not happen: whatever was pushed out, moved to the   *)
(* spool or dropped with its segment while it was posted, and however few of  *)
(* a chunk were answered, the pointer moves or an entry has left its queue    *)
(* (_consume, _post_next_chunk).                                             *)
THEOREM PassesProgress == Safety => []NeverStuck
<1>1. Init => LiveApart /\ ~stuck
  BY DEF Init, LiveApart
<1>2. IInv /\ LossInv /\ LiveApart /\ ~stuck /\ [Next]_vars => LiveApart' /\ ~stuck'
  BY ProgressStep
<1>3. ~stuck => NeverStuck
  BY DEF NeverStuck
<1> QED
  BY <1>1, <1>2, <1>3, Invariance, LossInvariance, PTL DEF Safety

(* The sending thread never sleeps over work: when it waits with no timeout   *)
(* and nobody is about to set _wake, it owes nothing - through disks that fail *)
(* and come back, segments set aside, points moved from memory while a chunk   *)
(* of them is out, and a submit() between its last look and its wait (_run,    *)
(* pending, submit, _append).                                                *)
THEOREM NeverSleepsOverWork == Safety => []NoLostWakeup
<1>1. Init => FailedInv /\ SleepInv
  BY DEF Init, FailedInv, SleepInv
<1>2. IInv /\ IInv' /\ LossInv /\ FailedInv /\ SleepInv /\ [Next]_vars => FailedInv' /\ SleepInv'
  BY FailedStep, SleepStep
<1>3. IInv /\ LossInv /\ SleepInv => NoLostWakeup
  BY SleepOwesNothing
<1> QED
  BY <1>1, <1>2, <1>3, Invariance, LossInvariance, PTL DEF Safety

(* The third layer of the invariant holds of the writer.                     *)
THEOREM OrderInvariance == Safety => []OrderInv
<1>1. Init => OrderInv
  BY OrderInit
<1>2. IInv /\ LossInv /\ OrderInv /\ [Next]_vars => OrderInv'
  BY OrderStep
<1> QED
  BY <1>1, <1>2, Invariance, LossInvariance, PTL DEF Safety

(* Each worker's readings reach InfluxDB in order, but for those it refused   *)
(* once and those given up: through a disk that fails and comes back with     *)
(* points in memory meanwhile, points released again behind the spool, and    *)
(* files left by a process that was killed (_append, _move_memory_to_spool,   *)
(* _read_chunk, _release_due, _by_database, _load_spool).                     *)
THEOREM ReadingsInOrder == Safety => InOrder
<1>1. IInv /\ LossInv /\ OrderInv /\ [Next]_vars =>
        [spool.segs # {} =>
           \A p \in db' \ db : \A q \in Submitted :
             (q[1] = p[1] /\ q[2] < p[2]) => q \in db' \cup excused \cup turned]_vars
  BY StoredInOrder
<1> QED
  BY <1>1, Invariance, LossInvariance, OrderInvariance, PTL DEF Safety, InOrder
==============================================================================
