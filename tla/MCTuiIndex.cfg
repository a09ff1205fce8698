CONSTANTS
  Interface <- Four
  List <- ListedFour
  Wifi <- TwoWifi
  None = None
  Found <- FoundFour
  MaxTroubles = 1
  w0 = w0
  w1 = w1
  e0 = e0
  e1 = e1
SPECIFICATION Spec
CHECK_DEADLOCK FALSE
INVARIANT
  NoPanic
