CONSTANTS
  Start <- PlainStart
  MaxFiles = 2
  MaxSize = 2
  GraceTurns = 2
  MaxSignals = 1
  MaxFaults = 0
SPECIFICATION Spec
CHECK_DEADLOCK FALSE
INVARIANTS
  RestoredOnSignal
