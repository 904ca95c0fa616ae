--------------------------- MODULE MCControlLoop ---------------------------
EXTENDS ControlLoop

Off == [kind |-> "unenergised", value |-> 0]
On == [kind |-> "energised", value |-> 0]
At(v) == [kind |-> "value", value |-> v]
Two(x, y) == [far |-> x, near |-> y]

\* Two heaters on two bridges with a daily window: near trims what far gives,
\* and far has a minimum longer than a cycle.
Heaters ==
  [place |-> Two(2, 1), bridge |-> Two(1, 2), driven |-> {}, full |-> 4,
   identity |-> Two("hall", "desk"), min |-> Two(3, 1),
   stages |-> <<[level |-> 0, states |-> Two(0, 0)], [level |-> 2, states |-> Two(1, 0)],
                [level |-> 4, states |-> Two(1, 1)]>>,
   fingerprint |-> "heaters", safe |-> Off, end |-> On,
   period |-> TRUE, gated |-> FALSE, total |-> TRUE]

\* The same control gated by a rule, with a dimmer for near and a shorter
\* minimum for the far heater.
Gated == [Heaters EXCEPT !.identity = Two("hall", "lamp"), !.fingerprint = "gated",
                         !.driven = {"near"}, !.min = Two(1, 3), !.safe = At(2),
                         !.stages = <<[level |-> 0, states |-> Two(0, 0)],
                                      [level |-> 4, states |-> Two(1, 4)]>>,
                         !.period = FALSE, !.gated = TRUE]

MCDocuments == {Heaters, Gated}
MCCaps == {2, 4}
MCDemands == 0..4
=============================================================================
