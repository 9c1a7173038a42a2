SPECIFICATION GateSpec
CONSTANTS
  Totals <- SomeTotals
  Holdouts <- SomeHoldouts
  Sources <- SomeSources
  Configs <- SomeConfigs
  Errors <- SomeErrors
  Speeds <- SomeSpeeds
  MaxRuns = 2
  None = None
  Torn = Torn
CHECK_DEADLOCK FALSE
INVARIANTS EveryNth SplitIsPartition ReadsAreExact HoldoutUnseen ReportOfOneRun VerdictIsFair
PROPERTIES GateEnds
