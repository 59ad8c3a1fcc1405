SPECIFICATION Spec
CONSTANTS
  intraday = intraday
  daily = daily
  backfill = backfill
  heartbeat = heartbeat
  NULL = NULL
  Jobs = {intraday, daily, backfill, heartbeat}
  Heartbeat = heartbeat
  Every <- MCEvery
  Cron <- MCCron
  Grace <- MCGrace
  StaleAfter = 3
  MaxTime = 8
  MaxSuspend = 7
  MaxFailed = 1
INVARIANTS
  TypeOK
  NoOverlap
  CaughtUp
  WakesInTime
  HeartbeatFresh
CHECK_DEADLOCK FALSE
