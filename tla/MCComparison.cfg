SPECIFICATION Spec
CONSTANTS
  NULL = NULL
  SymbolCount = 3
  Times <- TwoTimes
  Closes <- Prices
  MinCompare = 2
INVARIANTS
  TypeOK
  NoHeadStart
  UselessSeriesIgnored
  RatioAgrees
CHECK_DEADLOCK FALSE
