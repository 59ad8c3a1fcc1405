-------------------------- MODULE IngestProperties --------------------------
(* What the ingestion jobs guarantee, and what they are documented to but do *)
(* not.  Every property is about Ingest's variables only.                    *)
EXTENDS Ingest

\* A row of ingestion_runs, by the columns that change.
Row == [status   : Final \cup {"absent", "running"},
        received : Nat \cup {NULL},
        upserted : Nat \cup {NULL}]

DataOK ==
  /\ view \in [Series -> [Ts -> 0..MaxRev]]
  /\ prices \in [Series -> [Ts -> 0..MaxRev]]
  /\ runs \in [RunIds -> Row]

ThreadOK ==
  /\ pc \in [Jobs -> {"idle", "start", "fetch", "upsert", "finish", "record"}]
  /\ idx \in [Jobs -> Symbols]
  /\ attempt \in [Jobs -> 1..MaxAttempts]
  /\ bars \in [Jobs -> [Ts -> 0..MaxRev]]
  /\ todo \in [Jobs -> SUBSET Ts]
  /\ written \in [Jobs -> Nat]
  /\ summary \in [Jobs -> [succeeded : Nat, empty : Nat, failed : Nat, rows : Nat]]

PassOK ==
  /\ pass \in [Jobs -> 0..MaxPasses]
  /\ \A j \in Jobs : pc[j] # "idle" => pass[j] > 0

HistoryOK ==
  /\ died \subseteq Jobs \X (1..MaxPasses)
  /\ ambiguous \subseteq {"start", "upsert", "finish", "record"} \X RunIds
  /\ unrecorded \subseteq RunIds
  /\ changed \in [RunIds -> Nat]

\* Type correctness.  The retryer makes at most retry_max_attempts attempts, and a
\* thread that does something belongs to a pass that has begun.
TypeOK == DataOK /\ ThreadOK /\ PassOK /\ HistoryOK

InFlight(r) == pc[r[1]] # "idle" /\ r = Id(r[1])

\* The latest pass of the job ran to its end.
Returned(j) == pc[j] = "idle" /\ pass[j] > 0 /\ <<j, pass[j]>> \notin died

Rows(j, statuses) == {i \in Symbols : runs[<<j, pass[j], i>>].status \in statuses}
-----------------------------------------------------------------------------
\* A row says success only when at least as many bars as it received are stored
\* in its series: whatever was retried, lost or written by another job between
\* the fetch and the UPDATE, no batch of upsert_bars was left out.
SuccessImpliesStored ==
  \A r \in RunIds : runs[r].status = "success" =>
    /\ runs[r].received \in 1..Cardinality(Stored(SeriesOf(r)))
    /\ runs[r].upserted <= runs[r].received

\* rows_upserted is the number of bars the run inserted or changed, as long as
\* no upsert of the run committed without its acknowledgement.
RowsUpserted ==
  \A r \in RunIds : runs[r].status \in {"success", "empty"} =>
    \/ runs[r].upserted = changed[r]
    \/ <<"upsert", r>> \in ambiguous /\ runs[r].upserted < changed[r]

\* A row that is running while no thread works on it has one of three causes:
\* the process died in its pass, the INSERT committed but start_run raised, or
\* the failure could not be recorded.
StuckRowsExplained ==
  \A r \in RunIds : runs[r].status = "running" =>
    \/ InFlight(r)
    \/ <<r[1], r[2]>> \in died
    \/ <<"start", r>> \in ambiguous
    \/ r \in unrecorded

\* The summary of a pass that returned hides no failure: every symbol without a
\* row closed as success or empty is counted as failed (so the pass is logged as
\* a warning), and no symbol is left out because an earlier one failed.
FailuresReported ==
  \A j \in Jobs : Returned(j) =>
    /\ summary[j].failed >= Cardinality(Symbols \ Rows(j, {"success", "empty"}))
    /\ summary[j].succeeded >= Cardinality(Rows(j, {"success"}))
    /\ summary[j].empty >= Cardinality(Rows(j, {"empty"}))
    /\ summary[j].succeeded + summary[j].empty <= SymbolCount
    /\ summary[j].succeeded + summary[j].empty + summary[j].failed >= SymbolCount

\* A row that is closed stays as it is, unless finish_run committed without its
\* acknowledgement: nothing of a later pass, another job or another symbol, and
\* no failure of the same symbol, reaches it.
FinalStatus ==
  [][\A r \in RunIds :
       runs[r].status \in Final /\ <<"finish", r>> \notin ambiguous
         => runs'[r] = runs[r]]_vars

\* No step puts an older revision of a bar over a newer one.
NoStaleOverwrite ==
  [][\A s \in Series, t \in Ts : prices'[s][t] >= prices[s][t]]_vars

\* How many calls a thread has before it at most: for its symbol, with a batch for
\* each bar, and in its pass, each with all the attempts it has left.
CallsHere(j) ==
  CASE pc[j] = "start"  -> Lookback[j] + 4
    [] pc[j] = "fetch"  -> Lookback[j] + 3
    [] pc[j] = "upsert" -> Cardinality(todo[j]) + 2
    [] pc[j] = "finish" -> 2
    [] pc[j] = "record" -> 1

Left(j) ==
  IF pc[j] = "idle" THEN 0
  ELSE MaxAttempts * ((SymbolCount - idx[j]) * (Lookback[j] + 4) + CallsHere(j)) - (attempt[j] - 1)

\* Every step of a thread, retries and failures included, brings its pass nearer to
\* its end, and nothing that happens beside it, no other job's write and nothing the
\* source publishes, takes it back.
PassShrinks ==
  [][\A j \in Jobs : /\ Step(j) => Left(j)' < Left(j)
                     /\ pc[j] # "idle" => Left(j)' <= Left(j)]_vars

\* A pass ends, whatever fails: retries are bounded and no failure stops the loop.
PassesEnd == \A j \in Jobs : pc[j] # "idle" ~> pc[j] = "idle"

Raw == INSTANCE RawLayer WITH
         Runs <- RunIds, RunSeries <- [r \in RunIds |-> SeriesOf(r)]

\* The jobs implement the contract of the raw schema: every transaction of
\* start_run, upsert_bars and finish_run, retried or not, is one of RawLayer's steps.
ImplementsRawLayer == Raw!RawSpec
-----------------------------------------------------------------------------
(* The inductive invariants behind them. *)

\* Every bar of the current fetch is stored or still to be written, the count
\* never runs ahead of the batches, and finish is reached with nothing to write.
LocalOK(j) ==
  /\ todo[j] \subseteq Delivered(j)
  /\ Delivered(j) \ todo[j] \subseteq Stored(Ser(j))
  /\ written[j] + Cardinality(todo[j]) <= Cardinality(Delivered(j))
  /\ pc[j] = "finish" => todo[j] = {}
  /\ pc[j] \in {"idle", "start", "fetch"} => bars[j] = NoBars /\ written[j] = 0

FetchedIsStored == \A j \in Jobs : LocalOK(j)

\* A thread works on the newest row of its job, and that row is in the state the
\* thread takes it to be in, but for transactions that were not acknowledged.
Failed == [status |-> "failed", received |-> NULL, upserted |-> NULL]

ThreadRow(j) ==
  /\ pc[j] = "start" =>
       \/ runs[Id(j)].status = "absent"
       \/ runs[Id(j)].status = "running" /\ <<"start", Id(j)>> \in ambiguous
  /\ pc[j] \in {"fetch", "upsert"} => runs[Id(j)].status = "running"
  /\ pc[j] = "finish" =>
       runs[Id(j)].status = "running" \/ <<"finish", Id(j)>> \in ambiguous
  /\ pc[j] = "record" =>
       \/ runs[Id(j)].status = "running"
       \/ <<"finish", Id(j)>> \in ambiguous
       \/ runs[Id(j)] = Failed

NewestRow ==
  \A r \in RunIds : runs[r].status # "absent" =>
    \/ r[2] < pass[r[1]]
    \/ r[2] = pass[r[1]] /\ r[3] <= idx[r[1]]

RowsFollowThreads ==
  /\ NewestRow
  /\ \A j \in Jobs : ThreadRow(j)

\* Nothing is stored or about to be written that the source has not served.
ServedRevisions ==
  /\ \A s \in Series, t \in Ts : prices[s][t] <= view[s][t]
  /\ \A j \in Jobs, t \in Ts : bars[j][t] <= view[Ser(j)][t]

\* What is about to be written is at least as new as what it replaces.
NewerBars == \A j \in Jobs : \A t \in todo[j] : prices[Ser(j)][t] <= bars[j][t]
-----------------------------------------------------------------------------
(* Statements of the documentation, a docstring or a test that the code does *)
(* not keep.                                                                 *)

\* docs: a row left in running means that the process died in its pass.
StuckMeansDied ==
  \A r \in RunIds : runs[r].status = "running" =>
    InFlight(r) \/ <<r[1], r[2]>> \in died

\* A summary says what one pass achieved: each symbol counts once.
SummaryCountsOnce ==
  \A j \in Jobs : Returned(j) =>
    summary[j].succeeded + summary[j].empty + summary[j].failed = SymbolCount
=============================================================================
