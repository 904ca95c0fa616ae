------------------------------- MODULE Spool -------------------------------
(***************************************************************************)
(* The disk spool of toinflux/writer.py as a data structure: segments of   *)
(* JSON lines, the in-memory position of the reader and of the appender,   *)
(* and what a restart makes of the directory it finds.                     *)
(*                                                                         *)
(* A byte offset is abstracted to a number of lines.  One record `s' holds *)
(* everything the spool's methods read and write:                          *)
(*   onDisk, files   the segment files there are, and their lines          *)
(*   segs, size      _segments (kept sorted, so a set) and _sizes          *)
(*   cur, open       _append_segment, and whether _append_file is open     *)
(*   ptr             _pointer: <<segment, lines dealt with>>               *)
(*   stale           _stale_segment, the stored pointer's segment          *)
(* Every operator is a pure function of that record; module Writer runs    *)
(* the threads over it.                                                    *)
(***************************************************************************)
EXTENDS Naturals, Sequences, FiniteSets, FiniteSetsExt

CONSTANTS
  Workers,        (* the (source, instance) pairs that submit points         *)
  MaxPoints,      (* readings per worker                                     *)
  MaxRejections,  (* MAX_POINT_REJECTIONS                                    *)
  MaxSegments,    (* bound on segment numbers; large enough never to bind    *)
  SegmentLines,   (* SEGMENT_BYTES, in lines                                 *)
  LimitLines,     (* influx.buffer_mb, in lines                              *)
  ChunkPoints,    (* CHUNK_POINTS                                            *)
  Torn            (* the bytes of a line cut off in the middle               *)

Points  == Workers \X (1..MaxPoints)
Entries == [p : Points, r : 0..MaxRejections - 1]
SegIds  == 1..MaxSegments

ASSUME SpoolAssumption ==
  /\ MaxPoints \in Nat \ {0}
  /\ MaxRejections \in Nat \ {0}
  /\ MaxSegments \in Nat \ {0}
  /\ SegmentLines \in Nat \ {0}
  /\ LimitLines \in Nat \ {0}
  /\ ChunkPoints \in Nat \ {0}
  /\ Torn \notin Entries

Lines    == Entries \cup {Torn}
Pointers == (0..MaxSegments + 1) \X Nat
NoPtr    == <<0, 0>>

SpoolType ==
  [onDisk : SUBSET SegIds, files : [SegIds -> Seq(Lines)],
   segs : SUBSET SegIds, size : [SegIds -> Nat],
   cur : 0..MaxSegments, open : BOOLEAN,
   ptr : Pointers, stale : 0..MaxSegments + 1]

EmptySpool ==
  [onDisk |-> {}, files |-> [g \in SegIds |-> <<>>],
   segs |-> {}, size |-> [g \in SegIds |-> 0],
   cur |-> 0, open |-> FALSE, ptr |-> NoPtr, stale |-> 0]

(* What the bookkeeping keeps true of itself: the open segment is the newest *)
(* one and whole, a file with lines in it is on disk, and only the last line *)
(* of a file can be cut off.                                                 *)
WellFormed(s) ==
  /\ s.open => s.cur \in s.onDisk \cap s.segs /\ \A g \in s.segs : g <= s.cur
  /\ s.open => \A i \in DOMAIN s.files[s.cur] : s.files[s.cur][i] # Torn
  /\ \A g \in SegIds : s.files[g] # <<>> => g \in s.onDisk
  /\ \A g \in SegIds : \A i \in 1..Len(s.files[g]) - 1 : s.files[g][i] # Torn

-----------------------------------------------------------------------------
(* Lines and entries *)

(* A line appended behind a torn one runs on from it, and neither decodes. *)
AppendLine(file, line) ==
  IF file # <<>> /\ file[Len(file)] = Torn THEN file ELSE Append(file, line)

(* What _decode makes of a file: every line but a cut-off last one. *)
Decodable(file) ==
  IF file # <<>> /\ file[Len(file)] = Torn
  THEN SubSeq(file, 1, Len(file) - 1)
  ELSE file

PointsIn(lines) == {lines[i].p : i \in DOMAIN lines}

(* The entries of segment g from a given number of lines on. *)
From(s, g, off) == LET f == Decodable(s.files[g]) IN SubSeq(f, off + 1, Len(f))

(* The points the reader still has in front of it. *)
Ahead(s) ==
  UNION {PointsIn(From(s, g, IF g = s.ptr[1] THEN s.ptr[2] ELSE 0)) :
           g \in {h \in s.segs : h >= s.ptr[1]}}

-----------------------------------------------------------------------------
(* Segments *)

(* _start_segment numbers above everything in use, a stale stored pointer    *)
(* included, so no stored pointer comes to name a segment made after it.     *)
(* The broken variant forgets the stored one.                                *)
NextSegmentReusingStale(s) == 1 + Max(s.segs \cup {s.ptr[1]})
NextSegment(s) == 1 + Max(s.segs \cup {s.ptr[1], s.stale})

Started(s) ==
  LET n == NextSegment(s) IN
  [s EXCEPT !.onDisk = @ \cup {n},
            !.segs = @ \cup {n},
            !.size[n] = 0,
            !.cur = n,
            !.open = TRUE,
            !.ptr = IF @[1] \in s.segs THEN @ ELSE <<Min(s.segs \cup {n}), 0>>]

(* Closed before the open() of the next one failed. *)
StartFailed(s) == [s EXCEPT !.open = FALSE]

NeedsSegment(s) == ~s.open \/ s.size[s.cur] >= SegmentLines

(* A bound on the model only: a segment can be started. *)
CanStart(s) == NextSegment(s) <= MaxSegments

TotalSize(s, G) == MapThenSumSet(LAMBDA g : s.size[g], G)

(* The segments _enforce_limit drops: the fewest of the oldest that bring    *)
(* the spool inside its bound, never the newest.                             *)
OverLimit(s) ==
  LET keepFrom == Min({g \in s.segs :
                         \/ TotalSize(s, {h \in s.segs : h >= g}) <= LimitLines
                         \/ g = Max(s.segs)})
  IN {g \in s.segs : g < keepFrom}

(* The segments in gone deleted, and the pointer moved on if it was in one. *)
WithoutPointer(s, gone) ==
  [s EXCEPT !.onDisk = @ \ gone,
            !.files = [g \in SegIds |-> IF g \in gone THEN <<>> ELSE @[g]],
            !.segs = @ \ gone,
            !.size = [g \in SegIds |-> IF g \in gone THEN 0 ELSE @[g]]]

(* Broken variant: the pointer left in a segment that was dropped. *)
LimitedKeepingPointer(s) == WithoutPointer(s, OverLimit(s))

Limited(s) ==
  LET gone == OverLimit(s) IN
  [WithoutPointer(s, gone) EXCEPT
     !.ptr = IF @[1] \in gone THEN <<Min(s.segs \ gone), 0>> ELSE @]

EvictedPoints(s) ==
  UNION {PointsIn(From(s, g, IF g = s.ptr[1] THEN s.ptr[2] ELSE 0)) : g \in OverLimit(s)}

-----------------------------------------------------------------------------
(* Appending: _write_entry *)

ReadyToWrite(s) == IF NeedsSegment(s) THEN Started(s) ELSE s

Appended(s, e) ==
  LET t == ReadyToWrite(s) IN
  [t EXCEPT !.files[t.cur] = AppendLine(@, e), !.size[t.cur] = @ + 1]

Wrote(s, e) == Limited(Appended(s, e))

(* _abandon_segment after a failed write or sync: what is left in the file   *)
(* is nothing (cut back off), part of the line, or all of it, and its size   *)
(* is read back unless that fails too.                                       *)
Abandoned(s, left, counted) ==
  LET file == s.files[s.cur] \o left IN
  [s EXCEPT !.files[s.cur] = file,
            !.size[s.cur] = IF counted THEN Len(file) ELSE @,
            !.open = FALSE]

(* Every way the write of e can fail. *)
FailedWrites(s, e) ==
  (IF NeedsSegment(s) THEN {StartFailed(s)} ELSE {})
  \cup {Abandoned(ReadyToWrite(s), left, counted) :
          left \in {<<>>, <<Torn>>, <<e>>}, counted \in BOOLEAN}

-----------------------------------------------------------------------------
(* Reading: one iteration of _read_spool *)

PtrSeg(s) == s.ptr[1]
PtrInSpool(s) == s.ptr[1] \in s.segs
LaterSegs(s) == {g \in s.segs : g > s.ptr[1]}

(* There are entries to read at the pointer. *)
Readable(s) ==
  /\ PtrInSpool(s)
  /\ s.ptr[2] < s.size[PtrSeg(s)]
  /\ s.ptr[2] < Len(Decodable(s.files[PtrSeg(s)]))

(* The pointer is past the end of a segment nothing is appended to. *)
Finished(s) == PtrInSpool(s) /\ ~Readable(s) /\ PtrSeg(s) # s.cur

(* Nothing more to read at all. *)
Exhausted(s) ==
  \/ ~PtrInSpool(s) /\ LaterSegs(s) = {}
  \/ PtrInSpool(s) /\ ~Readable(s) /\ PtrSeg(s) = s.cur

(* Up to a chunk of entries, each with the pointer just past it. *)
SpoolChunk(s) ==
  LET rest == From(s, PtrSeg(s), s.ptr[2])
      n == IF Len(rest) < ChunkPoints THEN Len(rest) ELSE ChunkPoints
  IN [i \in 1..n |-> [e |-> rest[i], end |-> <<PtrSeg(s), s.ptr[2] + i>>]]

(* A torn last line of the segment appended to is stepped over. *)
SkipTorn(s) ==
  IF PtrInSpool(s) /\ s.ptr[2] < s.size[PtrSeg(s)]
  THEN [s EXCEPT !.ptr = <<@[1], Len(s.files[@[1]])>>]
  ELSE s

(* _retire and _set_aside: the segment goes, and the pointer with it. *)
Retired(s, g) ==
  LET left == s.segs \ {g} IN
  [WithoutPointer(s, {g}) EXCEPT !.ptr = IF left # {} THEN <<Min(left), 0>> ELSE <<g + 1, 0>>]

(* _abandon_spool: nothing half-open is used; the files stay where they are. *)
AbandonSpool(s) ==
  [s EXCEPT !.segs = {}, !.size = [g \in SegIds |-> 0], !.cur = 0, !.open = FALSE, !.ptr = NoPtr]

-----------------------------------------------------------------------------
(* Restarting: _load_spool *)

NonEmpty(s) == {g \in s.onDisk : s.files[g] # <<>>}

Oldest(s) == IF NonEmpty(s) = {} THEN NoPtr ELSE <<Min(NonEmpty(s)), 0>>

(* _read_pointer: a stored pointer is believed only where it names a         *)
(* segment that is there and an offset inside it.                            *)
ResumeAt(s, stored) ==
  IF stored = NoPtr \/ stored[1] \notin NonEmpty(s) THEN Oldest(s)
  ELSE IF stored[2] > Len(s.files[stored[1]]) THEN <<stored[1], 0>>
  ELSE stored

(* What a run finds, its own first segment not yet started. *)
Loaded(s, stored) ==
  [onDisk |-> NonEmpty(s), files |-> s.files, segs |-> NonEmpty(s),
   size |-> [g \in SegIds |-> IF g \in NonEmpty(s) THEN Len(s.files[g]) ELSE 0],
   cur |-> 0, open |-> FALSE, ptr |-> ResumeAt(s, stored), stale |-> stored[1]]

(* What a run would send, found from the directory alone. *)
Recoverable(s, stored) == Ahead(Loaded(s, stored))
=============================================================================
