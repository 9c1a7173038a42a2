--------------------------- MODULE MC_ParityGate ---------------------------
(***************************************************************************)
(* Datasets of short episodes, in one data file and spread over two; two   *)
(* numbers of steps, so that an earlier run's checkpoint can be the later  *)
(* one by its name; settings that raise.                                   *)
(***************************************************************************)
EXTENDS ParityGate

Episode(l, f) == [len |-> l, file |-> f]
OneFile == <<Episode(4, 0), Episode(1, 0), Episode(2, 0), Episode(3, 0), Episode(2, 0)>>
TwoFiles == <<Episode(2, 0), Episode(3, 0), Episode(1, 1), Episode(2, 1)>>
SomeSources == {OneFile, TwoFiles}
SomeTotals == {Len(s) : s \in SomeSources}
SomeHoldouts == {1, 2, 4}

Setting(s, f, c) == [steps |-> s, frames |-> f, calls |-> c]
SomeConfigs == {Setting(1, 2, 1), Setting(2, 2, 1), Setting(1, 0, 1), Setting(1, 2, 0)}
SomeErrors == [python |-> {0, 5}, elixir |-> {6, 7}]
SomeSpeeds == [python |-> {11}, elixir |-> {1, 2}]
=============================================================================
