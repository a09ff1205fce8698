CONSTANTS
  Ap <- OneAp
  Uplink <- OneUplink
  None = None
  MaxCommands = 3
  MaxFaults = 0
  MaxKills = 1
  MaxMoves = 0
  w0 = w0
  w1 = w1
  e0 = e0
  e1 = e1
SPECIFICATION Spec
CHECK_DEADLOCK FALSE
PROPERTIES
  StopPutsItBack
