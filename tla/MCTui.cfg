CONSTANTS
  Interface <- Three
  List <- ListedThree
  Wifi <- TwoWifi
  None = None
  Found <- FoundThree
  MaxTroubles = 1
  w0 = w0
  w1 = w1
  e0 = e0
  e1 = e1
SPECIFICATION Spec
CHECK_DEADLOCK FALSE
INVARIANTS
  TypeOK
  ScreenAgrees
  TerminalRestored
  LinkAsBefore
PROPERTIES
  HangupEnds
