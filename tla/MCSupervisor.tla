---------------------------- MODULE MCSupervisor ----------------------------
(* Small instances of Supervisor for TLC. *)
EXTENDS Supervisor, TLC

Docs(specsets) == [specs : specsets, enabled : BOOLEAN]

(* One heater, two heaters, the heater of the first bridge named or not,     *)
(* and heaters of two bridges.                                               *)
MCOneDevice == Docs({{1}})
MCShared == Docs({{1}, {9}, {1, 2}})
=============================================================================
