---------------------------- MODULE MC_ReqRepLink ----------------------------
(***************************************************************************)
(* Small instances of ReqRepLink: two calls and three sockets are enough   *)
(* for a call to overtake the one before it on a fresh socket while the    *)
(* abandoned request is still at the server.                               *)
(***************************************************************************)
EXTENDS ReqRepLink

CONSTANTS c1, c2, s1, s2, s3

TwoCalls == {c1, c2}
ThreeSockets == {s1, s2, s3}
EveryFault == AllFaults
=============================================================================
