SPECIFICATION Spec
CONSTANTS
  c1 = c1
  c2 = c2
  a1 = a1
  a2 = a2
  Actions <- TwoActions
  Calls <- TwoCalls
  LowWater = 3
  ChunkMax = 3
  MaxInitial = 3
  Faults <- NoFaults

PROPERTIES CrossingTickHasTriggered
