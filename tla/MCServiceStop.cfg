SPECIFICATION FairSpec
CONSTANTS
  heartbeat = heartbeat
  intraday = intraday
  daily = daily
  backfill = backfill
  gld = gld
  gldBlank = gldBlank
  slv = slv
  space = space
  BLANK = BLANK
  NULL = NULL
  Jobs = {heartbeat, intraday, daily, backfill}
  Heartbeat = heartbeat
  Daily = daily
  OneShot = {backfill}
  Parts = {gld, gldBlank, slv, space}
  Strip <- MCStrip
  Environments <- MCEnvironments
  Workers = {t1, t2, t3, t4}
  MaxAttempts = 2
  MaxFaults = 1
INVARIANT
  StopIsNotAKill
CHECK_DEADLOCK FALSE
