CONSTANTS
  Ap <- TwoAps
  Uplink <- TwoUplinks
  None = None
  MaxCommands = 3
  MaxFaults = 1
  MaxKills = 1
  MaxMoves = 1
  w0 = w0
  w1 = w1
  e0 = e0
  e1 = e1
SPECIFICATION Spec
CHECK_DEADLOCK FALSE
SYMMETRY Alike
CONSTRAINT FewTroubles
INVARIANTS
  TypeOK
  GuardsWhileActive
  NatIsWhole
PROPERTIES
  CleanEnd
  StatusAgrees
  ForwardingRestored
