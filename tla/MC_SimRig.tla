------------------------------ MODULE MC_SimRig ------------------------------
(***************************************************************************)
(* Small instances of SimRig.                                              *)
(***************************************************************************)
EXTENDS SimRig

NoFaults == {}
EveryFault == AllFaults
=============================================================================
