SPECIFICATION FairSpec
CONSTANTS
  NONE = NONE
  Clock = {0, 3}
  MaxSeq = 3
  Publishers = {p1}
  Nodes = {n1}
  Contents = {c1, c2}
  Timeouts = TRUE
  MaxCommands = 2
  MaxRestarts = 1
CHECK_DEADLOCK FALSE
INVARIANTS
  NeverEquivocates
  PublicIsCopied
  PublicWasPublished
PROPERTY NodesFollow
