CONSTANTS
  Start <- Starts
  MaxFiles = 2
  MaxSize = 2
  GraceTurns = 1
  MaxSignals = 1
  MaxFaults = 2
SPECIFICATION FairSpec
CHECK_DEADLOCK FALSE
INVARIANTS
  TypeOK
  QuietWhileCapturing
  Restored
  EveryFileListed
PROPERTIES
  HashedIsClosed
  StopEnds
