SPECIFICATION FairSpec
CONSTANTS
  MaxWrites = 3
CHECK_DEADLOCK FALSE
INVARIANTS NoSyncInsideWrite StopTakesOneMore
PROPERTIES ClosingEnds
