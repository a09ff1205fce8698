CONSTANTS
  Name <- MCName
  Byte <- MCByte
  MaxBytes = 1
  Digest <- MCDigest
  Sha256 <- MCSha256
  NoHash = NoHash
  MaxRuns = 2
  MaxConnections = 4
  MaxStreams = 2
  MaxFaults = 1
  MaxKills = 1
  n1 = n1
  n2 = n2
SPECIFICATION FairSpec
CHECK_DEADLOCK FALSE
INVARIANTS
  TypeOK
  ItemsDescribeFiles
  ExitCodeIsTrue
  CodeSpent
PROPERTIES
  ImplementsDelivery
  SessionEnds
