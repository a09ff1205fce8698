CONSTANTS
  Ap <- OneAp
  Uplink <- OneUplink
  None = None
  MaxCommands = 2
  MaxFaults = 0
  MaxKills = 0
  MaxMoves = 0
  w0 = w0
  e0 = e0
SPECIFICATION Spec
CHECK_DEADLOCK FALSE
INVARIANTS
  GuardsWhicheverProcess
