SPECIFICATION PrefetchSpec
CONSTANTS
  Pieces = {1, 2}
  Targets = {1, 2}
  WindowPieces = 1
  MaxAttempts = 2
  MaxCommands = 4
INVARIANTS
  NoOrphanSelection
PROPERTIES
  CompleteIsReal
  TargetsStay
  WaitEnds
CHECK_DEADLOCK FALSE
