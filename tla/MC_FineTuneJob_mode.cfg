SPECIFICATION Spec
CONSTANTS
  MaxRuns = 2
  MaxSteps = 3
  StepCounts <- FewSteps
  Intervals <- EveryStepOrSecond
  Absent = Absent
  Torn = Torn
CHECK_DEADLOCK FALSE
INVARIANTS ModeNeverInconsistent
