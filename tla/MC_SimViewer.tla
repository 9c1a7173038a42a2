----------------------------- MODULE MC_SimViewer -----------------------------
(***************************************************************************)
(* A small instance of SimViewer: three writes let a sync fall before,     *)
(* within and after one, and let one follow stop().                        *)
(***************************************************************************)
EXTENDS SimViewer
=============================================================================
