CONSTANTS
  Shell <- TwoShells
  Endpoint <- Endpoints
  V6 <- Sixes
  Loopback <- Loopbacks
  SshAt <- TwoEndpoints
  MaxRuns = 3
  MaxFaults = 2
  MaxKills = 1
  s0 = s0
  s1 = s1
  four = four
  six = six
  lo = lo
SPECIFICATION Spec
CHECK_DEADLOCK FALSE
SYMMETRY ShellsAlike
INVARIANTS
  TypeOK
  NoStrayOpening
  OpenWhileAlone
PROPERTIES
  StaleRemoved
