SPECIFICATION HSpec
CONSTANTS
  daily = daily
  backfill = backfill
  day = day
  NULL = NULL
  Jobs = {daily, backfill}
  Intervals = {day}
  Interval <- SharedInterval
  Lookback <- SharedLookback
  SymbolCount = 1
  MaxTs = 3
  MaxRev = 2
  MaxPasses = 1
  MaxAmbiguous = 1
  BatchSize = 2
  MaxAttempts = 2
INVARIANTS
  TypeOK
  SuccessImpliesStored
  RowsUpserted
  GapsHeal
PROPERTY
  ImplementsRawLayer
CHECK_DEADLOCK FALSE
