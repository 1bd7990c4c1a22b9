SPECIFICATION Spec
CONSTANTS
  MaxWrites = 3
  MaxStates = 2
  MaxRevision = 6
INVARIANTS
  MachineMatchesDisk
  CapturedTogether
  NoCandidateLeft
PROPERTIES
  OperationEnds
CHECK_DEADLOCK FALSE
