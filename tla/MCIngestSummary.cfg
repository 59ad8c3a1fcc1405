SPECIFICATION FairSpec
CONSTANTS
  daily = daily
  backfill = backfill
  day = day
  NULL = NULL
  Jobs = {daily}
  Intervals = {day}
  Interval <- SoleInterval
  Lookback <- SoleLookback
  SymbolCount = 1
  MaxTs = 2
  MaxRev = 1
  MaxPasses = 1
  MaxAmbiguous = 0
  BatchSize = 2
  MaxAttempts = 2
INVARIANT
  SummaryCountsOnce
CHECK_DEADLOCK FALSE
