SPECIFICATION ProtocolSpec
CONSTANTS
  Calls = {c1, c2, c3}
  NoCall = NoCall
  MaxCancels = 2
INVARIANTS
  CancelledNeverBegins
  InOrder
PROPERTIES
  EveryCallSettles
CHECK_DEADLOCK FALSE
