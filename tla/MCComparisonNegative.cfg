SPECIFICATION Spec
CONSTANTS
  NULL = NULL
  SymbolCount = 2
  Times <- ThreeTimes
  Closes <- Negative
  MinCompare = 2
INVARIANTS
  LeaderGained
CHECK_DEADLOCK FALSE
