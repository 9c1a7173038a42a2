SPECIFICATION FairSpec
CONSTANTS
  MaxRuns = 4
  MaxSteps = 2
  Faults <- EveryFault
CHECK_DEADLOCK FALSE
INVARIANTS TypeOK MovesAsSent
PROPERTIES EveryWaitEnds NoGhostSteps ObservationFollowsLastAction
