SPECIFICATION HSpec
CONSTANTS
  c1 = c1
  c2 = c2
  a1 = a1
  a2 = a2
  Actions <- TwoActions
  Calls <- TwoCalls
  LowWater = 3
  ChunkMax = 2
  MaxInitial = 3
  Faults <- EveryFault
  MaxSent = 5
CHECK_DEADLOCK FALSE
INVARIANTS TypeOK SingleFlight FlagTracksCall DepthBound NothingLostOrRepeated BoundedStaleness
PROPERTIES ImplementsStream
