SPECIFICATION Spec
CONSTANTS
  MaxWrites = 3
  MaxStates = 2
  MaxRevision = 5
INVARIANTS
  CancelledPreserves
CHECK_DEADLOCK FALSE
