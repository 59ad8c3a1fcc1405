---------------------------- MODULE MCScheduler ----------------------------
(* A small instance of the schedule.  A unit is half a heartbeat interval.   *)
EXTENDS Scheduler, TLC

CONSTANTS intraday, daily, backfill, heartbeat

\* The default settings with the long periods shortened: ingestion jobs have no grace,
\* and that of the heartbeat is short enough to be missed within a short stall.
MCEvery == intraday :> 5 @@ heartbeat :> 2
MCCron  == [j \in Jobs |-> IF j = daily THEN {3, 7} ELSE {}]
MCGrace == [j \in Jobs |-> IF j = heartbeat THEN 1 ELSE NULL]
=============================================================================
