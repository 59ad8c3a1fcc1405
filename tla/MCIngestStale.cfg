SPECIFICATION FairSpec
CONSTANTS
  daily = daily
  backfill = backfill
  day = day
  NULL = NULL
  Jobs = {daily, backfill}
  Intervals = {day}
  Interval <- SharedInterval
  Lookback <- SharedLookback
  SymbolCount = 1
  MaxTs = 2
  MaxRev = 2
  MaxPasses = 1
  MaxAmbiguous = 0
  BatchSize = 2
  MaxAttempts = 2
PROPERTY
  NoStaleOverwrite
CHECK_DEADLOCK FALSE
