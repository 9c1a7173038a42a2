SPECIFICATION ClusterSpec
CONSTANTS
  c1 = c1
  c2 = c2
  a1 = a1
  NoCall = NoCall
  Abandoned = Abandoned
  Actions <- OneAction
  Calls <- TwoCalls
  LowWater = 3
  ChunkMax = 3
  MaxInitial = 3
  Faults <- NoFaults
  Outages <- EveryOutage
PROPERTIES SettlesUnlessHung ClusterRecovers ImplementsPort
