--------------------------- MODULE MC_ClusterLoop ---------------------------
(***************************************************************************)
(* One call identity at the loop besides the one that is handled; one kind *)
(* of action: only the length of the queue matters here.                   *)
(***************************************************************************)
EXTENDS ClusterLoop

CONSTANTS c1, c2, a1

TwoCalls == {c1, c2}
OneAction == {a1}
NoFaults == {}
EveryOutage == AllOutages
=============================================================================
