SPECIFICATION Spec
CONSTANTS
  MaxRuns = 2
  MaxSteps = 2
  Faults <- NoFaults
CHECK_DEADLOCK FALSE
PROPERTIES ObservationIsCurrent
