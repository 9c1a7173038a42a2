----------------------- MODULE MC_ControlLoopHistory -----------------------
(***************************************************************************)
(* Small instances of ControlLoopHistory.                                  *)
(***************************************************************************)
EXTENDS ControlLoopHistory

CONSTANTS c1, c2, a1, a2

TwoCalls == {c1, c2}
TwoActions == {a1, a2}
EveryFault == AllFaults
=============================================================================
