SPECIFICATION FairSpec
CONSTANTS
  daily = daily
  backfill = backfill
  day = day
  NULL = NULL
  Jobs = {daily}
  Intervals = {day}
  Interval <- SoleInterval
  Lookback <- SoleLookback
  SymbolCount = 2
  MaxTs = 1
  MaxRev = 2
  MaxPasses = 2
  MaxAmbiguous = 1
  BatchSize = 1
  MaxAttempts = 2
INVARIANTS
  StuckRowsExplained
  FailuresReported
PROPERTIES
  NoStaleOverwrite
  FinalStatus
  PassShrinks
  PassesEnd
CHECK_DEADLOCK FALSE
