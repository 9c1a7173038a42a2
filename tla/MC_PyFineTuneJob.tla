--------------------------- MODULE MC_PyFineTuneJob ---------------------------
(***************************************************************************)
(* A small instance of PyFineTuneJob: with two checkpoints and three       *)
(* resumes one resume can lose what the one before it wrote down.          *)
(***************************************************************************)
EXTENDS PyFineTuneJob
=============================================================================
