CONSTANTS
  Endpoint <- Endpoints
  MaxRuns = 4
  Where <- Ports
  MaxProbes = 2
  MaxLogins = 2
  MaxFaults = 2
  MaxKills = 2
  e1 = e1
  e2 = e2
SPECIFICATION Spec
CHECK_DEADLOCK FALSE
INVARIANTS
  TypeOK
  OwnKeysOnly
  EarlierLoginsRecorded
PROPERTIES
  LeavesNothing
