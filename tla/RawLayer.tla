------------------------------ MODULE RawLayer ------------------------------
(***************************************************************************)
(* What the raw schema promises whoever reads it (the dashboard, dbt, a    *)
(* psql session) while the ingestor writes it, one database transaction at *)
(* a time.  No ingestor state appears here: this is the contract that      *)
(* Ingest is shown to implement, and the environment of a reader.          *)
(*                                                                         *)
(*   - a transaction opens one audit row, or closes one, or writes at most *)
(*     BatchSize bars of one series; never two of these at once            *)
(*   - a bar is written only under the cover of an open (running) row of   *)
(*     its series, and is never deleted                                    *)
(*   - a row is closed as a success only once as many bars as it claims to *)
(*     have received are stored in its series                              *)
(*   - a closed row may change once more: from success or empty to failed  *)
(***************************************************************************)
EXTENDS Naturals, FiniteSets

CONSTANTS
  Runs,       \* the ids an ingestion_runs row can have
  Series,     \* the (symbol, bar_interval) pairs of market_prices
  RunSeries,  \* [Runs -> Series], the series a run is about
  Ts,         \* bar timestamps
  BatchSize,  \* rows of one INSERT statement
  MaxRev,     \* revisions of a bar's values; 0 stands for no row
  NULL        \* SQL's NULL

VARIABLES
  prices,     \* market_prices: the revision stored for each series and ts
  runs        \* ingestion_runs: the columns of each row that change

rawVars == <<prices, runs>>

Absent == [status |-> "absent", received |-> NULL, upserted |-> NULL]

Stored(s) == {t \in Ts : prices[s][t] > 0}

RawInit ==
  /\ prices = [s \in Series |-> [t \in Ts |-> 0]]
  /\ runs = [r \in Runs |-> Absent]

Open(r) ==
  /\ runs[r].status = "absent"
  /\ runs' = [runs EXCEPT ![r].status = "running"]
  /\ UNCHANGED prices

Write(s) ==
  /\ \E r \in Runs : RunSeries[r] = s /\ runs[r].status = "running"
  /\ \E new \in [Ts -> 0..MaxRev] :
       /\ prices' = [prices EXCEPT ![s] = new]
       /\ \A t \in Ts : new[t] = 0 => prices[s][t] = 0
       /\ Cardinality({t \in Ts : new[t] # prices[s][t]}) \in 1..BatchSize
  /\ UNCHANGED runs

\* Received and upserted counts are set by the statement that sets the status.
Close(r) ==
  /\ runs[r].status = "running"
  /\ \/ \E n \in 1..Cardinality(Stored(RunSeries[r])), u \in 0..Cardinality(Ts) :
          runs' = [runs EXCEPT ![r] = [status |-> "success", received |-> n, upserted |-> u]]
     \/ runs' = [runs EXCEPT ![r] = [status |-> "empty", received |-> 0, upserted |-> 0]]
     \/ runs' = [runs EXCEPT ![r] = [status |-> "failed", received |-> NULL, upserted |-> NULL]]
  /\ UNCHANGED prices

Reclose(r) ==
  /\ runs[r].status \in {"success", "empty"}
  /\ runs' = [runs EXCEPT ![r] = [status |-> "failed", received |-> NULL, upserted |-> NULL]]
  /\ UNCHANGED prices

RawNext ==
  \/ \E r \in Runs : Open(r) \/ Close(r) \/ Reclose(r)
  \/ \E s \in Series : Write(s)

RawSpec == RawInit /\ [][RawNext]_rawVars
=============================================================================
