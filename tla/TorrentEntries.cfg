SPECIFICATION Spec
CONSTANTS
  Callers = {c1, c2, c3}
  Startup = {c1, c2}
  Recovery = Recovery
  Torrents = {t1, t2, t3}
  None = None
CHECK_DEADLOCK FALSE
INVARIANTS
  OneTorrent
  NoInnocentCancelled
PROPERTIES
  ClearedIsEmpty
  EveryRequestEnds
