SPECIFICATION Spec
CONSTANTS
  NONE = NONE
  Clock = {0, 2}
  MaxSeq = 2
  Publishers = {p1, p2}
  Nodes = {n1}
  Contents = {c1, c2}
  Timeouts = FALSE
  MaxCommands = 1
  MaxRestarts = 0
CHECK_DEADLOCK FALSE
PROPERTY ConcurrentCommitBlocks
