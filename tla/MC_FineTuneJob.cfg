SPECIFICATION Spec
CONSTANTS
  MaxRuns = 3
  MaxSteps = 3
  StepCounts <- FewSteps
  Intervals <- EveryStepOrSecond
  Absent = Absent
  Torn = Torn
CHECK_DEADLOCK FALSE
INVARIANTS TypeOK ResumeKeepsIdentity LastIsValid LossBounded ResumeNeverMixes
