------------------------------ MODULE MCIngest ------------------------------
(* Small instances of the ingestion jobs. *)
EXTENDS IngestProperties, TLC

CONSTANTS daily, backfill,   \* jobs
          day                \* the interval of both

\* The daily job and the backfill share the daily bars.
SharedInterval == daily :> day @@ backfill :> day
SharedLookback == daily :> 2 @@ backfill :> 3

\* One job alone.
SoleInterval == daily :> day
SoleLookback == daily :> 3
=============================================================================
