------------------------------ MODULE MCWriter ------------------------------
(* Small instances of Writer for TLC, one in each behaviour: one worker with *)
(* every reading, life and fault of the bounds; or, where there are two, one *)
(* that goes with the kill of the first life and another that comes with the *)
(* second.                                                                   *)
EXTENDS Writer, TLC

CONSTANTS a, b

MCReadings == [w \in Workers |-> IF w = a THEN MaxPoints ELSE 1]
MCSourceOf == [w \in Workers |-> w]
MCConfigured == {{a}}
MCPerhaps == {{}, {a}}

VARIABLE both  \* whether the second worker comes

MCInit == Init /\ both \in (IF b \in Workers THEN BOOLEAN ELSE {FALSE})

Fixed == UNCHANGED both
InTurn(w) == w = IF both /\ starts = 2 THEN b ELSE a
Survives == both => starts < 2

MCNext ==
  \/ \E w \in Workers :
       \/ Fixed /\ MoveToSpool(w)
       \/ \E n \in 1..MaxPoints : InTurn(w) /\ Fixed /\ Submit(w, n)
       \/ Fixed /\ SubmitAgain(w)
       \/ \E h \in HeartbeatIds : Fixed /\ SubmitLive(w, h)
       \/ Fixed /\ Rouse(w)
  \/ Fixed /\ WriteToSpool
  \/ Fixed /\ AppendFails
  \/ Fixed /\ AppendToMemory
  \/ Fixed /\ ThreadTop
  \/ Fixed /\ ThreadDue
  \/ \E e \in due : Fixed /\ Release(e)
  \/ Fixed /\ ReleaseOver
  \/ Fixed /\ ThreadTimer
  \/ Fixed /\ ReadLive
  \/ Fixed /\ ReadSpool
  \/ Fixed /\ RetireSegment
  \/ Fixed /\ SetAsideSegment
  \/ Fixed /\ ReadMemory
  \/ Fixed /\ PostAccepted
  \/ Fixed /\ PostRefused
  \/ Fixed /\ PostUnanswered
  \/ Fixed /\ DropUnconfigured
  \/ Fixed /\ SingleAccepted
  \/ Fixed /\ SingleRefused
  \/ Fixed /\ SaveRefused
  \/ Fixed /\ ConsumeLive
  \/ Fixed /\ ConsumeMemory
  \/ Fixed /\ ConsumeSpool
  \/ Fixed /\ ThreadCheck
  \/ Fixed /\ ThreadWakes
  \/ Fixed /\ ThreadClears
  \/ Fixed /\ TimerRunsOut
  \/ \E e \in waiting : Fixed /\ FallsDue(e)
  \/ Fixed /\ Start
  \/ ~both /\ Fixed /\ Close
  \/ Fixed /\ CloseEnds
  \/ Fixed /\ Exit
  \/ Survives /\ Fixed /\ Kill

MCSafety == MCInit /\ [][MCNext]_<<vars, both>>
MCSpec == MCSafety /\ Fairness
=============================================================================
