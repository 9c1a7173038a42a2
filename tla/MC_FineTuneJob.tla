---------------------------- MODULE MC_FineTuneJob ----------------------------
(***************************************************************************)
(* Small instances of FineTuneJob: three steps saved every second one leave*)
(* an unsaved step, a saved one and a last one saved out of turn; a run of *)
(* no steps counts down; later runs meet the files of earlier ones.        *)
(***************************************************************************)
EXTENDS FineTuneJob

FewSteps == {0, 1, 3}
EveryStepOrSecond == {1, 2}
=============================================================================
