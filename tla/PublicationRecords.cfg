SPECIFICATION Spec
CONSTANTS
  Tabs = {t1, t2}
  Apis = {a1, a2}
  Values = {x, y}
  MaxSeq = 2
  Failures = TRUE
CHECK_DEADLOCK FALSE
SYMMETRY Alike
INVARIANTS
  NoRollback
  FinalHintsWin
PROPERTIES
  HighWater
