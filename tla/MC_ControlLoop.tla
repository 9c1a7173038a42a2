-------------------------- MODULE MC_ControlLoop --------------------------
(***************************************************************************)
(* A small instance of ControlLoop: two call identities are enough to see  *)
(* a second call in flight, chunks of up to three actions on a threshold   *)
(* of three make the queue both overshoot and run dry.                     *)
(***************************************************************************)
EXTENDS ControlLoop

CONSTANTS c1, c2, a1, a2

TwoCalls == {c1, c2}
TwoActions == {a1, a2}
NoFaults == {}
=============================================================================
