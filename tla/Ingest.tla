------------------------------- MODULE Ingest -------------------------------
(***************************************************************************)
(* The ingestion jobs: jobs.ingest and the database operations it is built *)
(* from (db.start_run, db.upsert_bars, db.finish_run), one action for each *)
(* database transaction and source call.                                   *)
(*                                                                         *)
(* A job runs on a thread of the scheduler's pool: different jobs run at   *)
(* the same time, one job never runs twice at the same time (max_instances *)
(* is 1).  A pass visits the symbols in order, and for each of them        *)
(*     start   INSERTs an ingestion_runs row as running                    *)
(*     fetch   asks the source for the bars of the lookback window         *)
(*     upsert  writes them, BatchSize rows per transaction                 *)
(*     finish  UPDATEs the row to success or empty                         *)
(*     record  UPDATEs it to failed, after one of the last three raised    *)
(* A transaction may commit, may fail without committing, and may commit   *)
(* while the client is told that it failed (the connection is lost before  *)
(* the acknowledgement).  The last two are both an OperationalError, which *)
(* the retryer retries.                                                    *)
(*                                                                         *)
(* A bar's values are abstracted to a revision number: 0 is no bar, and    *)
(* the source's revisions of a bar are numbered in the order it makes them.*)
(*                                                                         *)
(* Definitions named Bug... are not part of the model: each is a mistake   *)
(* the code could have made, to be put in place of the definition after it *)
(* so that a property can be seen to fail.                                 *)
(***************************************************************************)
EXTENDS Naturals, FiniteSets

CONSTANTS
  Jobs,          \* job ids of the scheduler: intraday, daily, backfill
  Intervals,     \* bar intervals
  Interval,      \* [Jobs -> Intervals]
  Lookback,      \* [Jobs -> Nat]: how many of the latest bars a job asks for
  SymbolCount,   \* settings.symbols has no duplicates: a symbol is its position
  MaxTs,         \* BOUND: timestamps of bars
  MaxRev,        \* BOUND: revisions the source makes of a bar
  MaxPasses,     \* BOUND: passes of one job
  MaxAmbiguous,  \* BOUND: transactions that commit unacknowledged
  BatchSize,     \* UPSERT_BATCH_SIZE
  MaxAttempts,   \* settings.retry_max_attempts
  NULL

ASSUME IngestAssumption ==
  /\ Interval \in [Jobs -> Intervals]
  /\ Lookback \in [Jobs -> Nat \ {0}]
  /\ SymbolCount \in Nat \ {0}
  /\ MaxTs \in Nat \ {0}
  /\ MaxRev \in Nat \ {0}
  /\ MaxPasses \in Nat \ {0}
  /\ MaxAmbiguous \in Nat
  /\ BatchSize \in Nat \ {0}
  /\ MaxAttempts \in Nat \ {0}
  /\ NULL \notin Nat

Ts      == 1..MaxTs
Symbols == 1..SymbolCount
Series  == Symbols \X Intervals
RunIds  == Jobs \X (1..MaxPasses) \X Symbols

VARIABLES
  view,        \* the source: the current revision of each bar
  prices,      \* market_prices: the stored revision of each bar
  runs,        \* ingestion_runs: the columns of each row that change
  pc,          \* what each job's thread is doing
  pass,        \* how many passes each job has begun
  idx,         \* the symbol of the loop
  attempt,     \* which attempt of the current call this is
  bars,        \* what fetch returned
  todo,        \* the timestamps of bars that are not written yet
  written,     \* the count upsert_bars has reached
  summary,     \* the JobSummary of the latest pass
  died,        \* history: the passes the process died in
  ambiguous,   \* history: the transactions that committed unacknowledged
  unrecorded,  \* history: the rows of the "could not record" log lines
  changed      \* history: bars each run really inserted or changed

control == <<pc, idx, attempt>>
local   == <<bars, todo, written>>
history == <<died, ambiguous, unrecorded, changed>>
vars    == <<view, prices, runs, control, pass, local, summary, history>>
-----------------------------------------------------------------------------
NoBars       == [t \in Ts |-> 0]
EmptySummary == [succeeded |-> 0, empty |-> 0, failed |-> 0, rows |-> 0]
Absent       == [status |-> "absent", received |-> NULL, upserted |-> NULL]
Final        == {"success", "empty", "failed"}

Id(j)        == <<j, pass[j], idx[j]>>
Ser(j)       == <<idx[j], Interval[j]>>
SeriesOf(r)  == <<r[3], Interval[r[1]]>>

Published(s) == {t \in Ts : view[s][t] > 0}
Stored(s)    == {t \in Ts : prices[s][t] > 0}
Delivered(j) == {t \in Ts : bars[j][t] > 0}

\* The bars of the requested period: the latest ones of the series.  The mistake is
\* a period that ends before the bar that is still forming, and has one bar less.
BugWindow(j) == {t \in Published(Ser(j)) :
                   Cardinality({u \in Published(Ser(j)) : u > t}) + 1 < Lookback[j]}
Window(j) == {t \in Published(Ser(j)) :
                Cardinality({u \in Published(Ser(j)) : u > t}) < Lookback[j]}

\* What the source answers.  The mistake is a cache between it and the job that
\* answers a later pass with first revisions.
BugServed(j) == [t \in Ts |-> IF t \notin Window(j) THEN 0
                              ELSE IF pass[j] = 1 THEN view[Ser(j)][t] ELSE 1]
Served(j)    == [t \in Ts |-> IF t \in Window(j) THEN view[Ser(j)][t] ELSE 0]

\* The next slice of the bars, which come in the order of their timestamps.
Batch(j) == {t \in todo[j] : Cardinality({u \in todo[j] : u < t}) < BatchSize}

\* The bars after it.  The mistakes: a stride one longer than the slice, and one that
\* is one shorter.
BugRemaining(j) == {t \in todo[j] : Cardinality({u \in todo[j] : u < t}) > BatchSize}
BugShort(j) == {t \in todo[j] : Cardinality({u \in todo[j] : u < t}) >= BatchSize - 1}
Remaining(j)    == todo[j] \ Batch(j)

\* What RETURNING counts.  The mistake is an upsert without its WHERE guard.
BugAffected(j) == Cardinality(Batch(j))
Affected(j)    == Cardinality({t \in Batch(j) : prices[Ser(j)][t] # bars[j][t]})

Init ==
  /\ view = [s \in Series |-> NoBars]
  /\ prices = [s \in Series |-> NoBars]
  /\ runs = [r \in RunIds |-> Absent]
  /\ pc = [j \in Jobs |-> "idle"]
  /\ pass = [j \in Jobs |-> 0]
  /\ idx = [j \in Jobs |-> 1]
  /\ attempt = [j \in Jobs |-> 1]
  /\ bars = [j \in Jobs |-> NoBars]
  /\ todo = [j \in Jobs |-> {}]
  /\ written = [j \in Jobs |-> 0]
  /\ summary = [j \in Jobs |-> EmptySummary]
  /\ died = {}
  /\ ambiguous = {}
  /\ unrecorded = {}
  /\ changed = [r \in RunIds |-> 0]
-----------------------------------------------------------------------------
(* How a step of a thread ends. *)

\* On to the next call for the same symbol.
Goto(j, label) ==
  /\ pc' = [pc EXCEPT ![j] = label]
  /\ attempt' = [attempt EXCEPT ![j] = 1]
  /\ UNCHANGED idx

\* The end of the loop's body.  The locals are dead from here on.
NextSymbol(j) ==
  /\ \/ /\ idx[j] < SymbolCount
        /\ pc' = [pc EXCEPT ![j] = "start"]
        /\ idx' = [idx EXCEPT ![j] = @ + 1]
     \/ /\ idx[j] = SymbolCount
        /\ pc' = [pc EXCEPT ![j] = "idle"]
        /\ UNCHANGED idx
  /\ attempt' = [attempt EXCEPT ![j] = 1]
  /\ bars' = [bars EXCEPT ![j] = NoBars]
  /\ todo' = [todo EXCEPT ![j] = {}]
  /\ written' = [written EXCEPT ![j] = 0]

\* The call raises to the job boundary.  In start_run run_id is still None, and
\* there is no row to record the failure in.
BugRaise(j) ==
  /\ summary' = [summary EXCEPT ![j].failed = @ + 1]
  /\ NextSymbol(j)
BugUncounted(j) ==
  /\ UNCHANGED summary
  /\ \/ pc[j] = "start" /\ NextSymbol(j)
     \/ pc[j] # "start" /\ Goto(j, "record") /\ UNCHANGED local
Raise(j) ==
  /\ summary' = [summary EXCEPT ![j].failed = @ + 1]
  /\ \/ pc[j] = "start" /\ NextSymbol(j)
     \/ pc[j] # "start" /\ Goto(j, "record") /\ UNCHANGED local

\* The retryer sleeps and calls again.  The mistakes: its count starts over, and it
\* stops one attempt late.
BugForever(j) ==
  /\ attempt' = [attempt EXCEPT ![j] = IF @ = MaxAttempts THEN 1 ELSE @ + 1]
  /\ UNCHANGED <<pc, idx, local>>
BugLate(j) ==
  /\ attempt[j] <= MaxAttempts
  /\ attempt' = [attempt EXCEPT ![j] = @ + 1]
  /\ UNCHANGED <<pc, idx, local>>
Again(j) ==
  /\ attempt[j] < MaxAttempts
  /\ attempt' = [attempt EXCEPT ![j] = @ + 1]
  /\ UNCHANGED <<pc, idx, local>>

\* The transaction is durable, and the client gets an OperationalError.
LoseAck(j) ==
  /\ <<pc[j], Id(j)>> \in ambiguous \/ Cardinality(ambiguous) < MaxAmbiguous
  /\ ambiguous' = ambiguous \cup {<<pc[j], Id(j)>>}

Retried(j) ==
  \/ Again(j) /\ UNCHANGED summary
  \/ attempt[j] = MaxAttempts /\ Raise(j)
-----------------------------------------------------------------------------
(* The source publishes the bars of a series in order and revises any of them. *)

Publish(s, t) ==
  /\ view[s][t] < MaxRev
  /\ \A u \in Ts : u < t => view[s][u] > 0
  /\ view' = [view EXCEPT ![s][t] = @ + 1]
  /\ UNCHANGED <<prices, runs, control, pass, local, summary, history>>

(* The scheduler submits the job to the pool. *)

Trigger(j) ==
  /\ pc[j] = "idle"
  /\ pass[j] < MaxPasses
  /\ pass' = [pass EXCEPT ![j] = @ + 1]
  /\ pc' = [pc EXCEPT ![j] = "start"]
  /\ idx' = [idx EXCEPT ![j] = 1]
  /\ summary' = [summary EXCEPT ![j] = EmptySummary]
  /\ UNCHANGED <<view, prices, runs, attempt, local, history>>

(* The process dies, and every thread with it; whatever had committed stays. *)

Crash ==
  /\ \E j \in Jobs : pc[j] # "idle"
  /\ died' = died \cup {<<j, pass[j]>> : j \in {k \in Jobs : pc[k] # "idle"}}
  /\ pc' = [j \in Jobs |-> "idle"]
  /\ attempt' = [j \in Jobs |-> 1]
  /\ bars' = [j \in Jobs |-> NoBars]
  /\ todo' = [j \in Jobs |-> {}]
  /\ written' = [j \in Jobs |-> 0]
  /\ UNCHANGED <<view, prices, runs, idx, pass, summary, ambiguous, unrecorded, changed>>
-----------------------------------------------------------------------------
\* start_run inserts the row.  The mistake leaves the transaction open.
BugInserted(j) == UNCHANGED runs
Inserted(j)    == runs' = [runs EXCEPT ![Id(j)].status = "running"]

\* The id is chosen before the retries: once the insert has committed, a retry
\* of it violates the primary key, which CallFails raises.
StartRun(j) ==
  /\ pc[j] = "start"
  /\ runs[Id(j)].status = "absent"
  /\ Inserted(j)
  /\ \/ Goto(j, "fetch") /\ UNCHANGED <<local, summary, ambiguous>>
     \/ LoseAck(j) /\ Retried(j)
  /\ UNCHANGED <<view, prices, pass, died, unrecorded, changed>>

\* source.fetch
Fetch(j) ==
  /\ pc[j] = "fetch"
  /\ Window(j) # {}
  /\ bars' = [bars EXCEPT ![j] = Served(j)]
  /\ todo' = [todo EXCEPT ![j] = Window(j)]
  /\ Goto(j, "upsert")
  /\ UNCHANGED <<view, prices, runs, pass, written, summary, history>>

\* No bars is an answer, not an error, and upsert_bars then returns 0 at once.
FetchNothing(j) ==
  /\ pc[j] = "fetch"
  /\ summary' = [summary EXCEPT ![j].empty = @ + 1]
  /\ Goto(j, "finish")
  /\ UNCHANGED <<view, prices, runs, pass, local, history>>

\* upsert_bars: one batch, in a transaction of its own.
Upsert(j) ==
  /\ pc[j] = "upsert"
  /\ prices' = [prices EXCEPT ![Ser(j)] =
                  [t \in Ts |-> IF t \in Batch(j) THEN bars[j][t] ELSE @[t]]]
  /\ changed' = [changed EXCEPT ![Id(j)] =
                   @ + Cardinality({t \in Ts : prices'[Ser(j)][t] # prices[Ser(j)][t]})]
  /\ \/ /\ todo' = [todo EXCEPT ![j] = Remaining(j)]
        /\ written' = [written EXCEPT ![j] = @ + Affected(j)]
        /\ \/ Remaining(j) # {} /\ Goto(j, "upsert") /\ UNCHANGED summary
           \/ /\ Remaining(j) = {}
              /\ Goto(j, "finish")
              /\ summary' = [summary EXCEPT ![j].succeeded = @ + 1,
                                            ![j].rows = @ + (written[j] + Affected(j))]
        /\ UNCHANGED <<bars, ambiguous>>
     \/ LoseAck(j) /\ Retried(j)
  /\ UNCHANGED <<view, runs, pass, died, unrecorded>>

\* finish_run updates the row by its id.  The mistake is to look it up by symbol.
Close(r, s, n, u) ==
  runs' = [runs EXCEPT ![r] = [status |-> s, received |-> n, upserted |-> u]]
BugClosed(j, s, n, u) ==
  runs' = [r \in RunIds |-> IF r[1] = j /\ r[3] = idx[j] /\ runs[r].status # "absent"
                            THEN [status |-> s, received |-> n, upserted |-> u]
                            ELSE runs[r]]
Closed(j, s, n, u) == Close(Id(j), s, n, u)

FinishRun(j) ==
  /\ pc[j] = "finish"
  /\ Closed(j, IF Delivered(j) = {} THEN "empty" ELSE "success",
               Cardinality(Delivered(j)), written[j])
  /\ \/ NextSymbol(j) /\ UNCHANGED <<summary, ambiguous>>
     \/ LoseAck(j) /\ Retried(j)
  /\ UNCHANGED <<view, prices, pass, died, unrecorded, changed>>

\* A call that changes nothing: it is retried, or it raises, because it was the
\* last attempt or because its error is not one the retryer retries.
CallFails(j) ==
  /\ pc[j] \in {"start", "fetch", "upsert", "finish"}
  /\ \/ Again(j) /\ UNCHANGED summary
     \/ Raise(j)
  /\ UNCHANGED <<view, prices, runs, pass, history>>

\* _record_failure only logs its own failure.
GiveUp(j) ==
  /\ unrecorded' = unrecorded \cup {Id(j)}
  /\ NextSymbol(j)

RecordFailure(j) ==
  /\ pc[j] = "record"
  /\ Closed(j, "failed", NULL, NULL)
  /\ \/ NextSymbol(j) /\ UNCHANGED <<ambiguous, unrecorded>>
     \/ LoseAck(j) /\ Again(j) /\ UNCHANGED unrecorded
     \/ LoseAck(j) /\ attempt[j] = MaxAttempts /\ GiveUp(j)
  /\ UNCHANGED <<view, prices, pass, summary, died, changed>>

RecordFails(j) ==
  /\ pc[j] = "record"
  /\ \/ Again(j) /\ UNCHANGED unrecorded
     \/ GiveUp(j)
  /\ UNCHANGED <<view, prices, runs, pass, summary, died, ambiguous, changed>>
-----------------------------------------------------------------------------
\* One step of a job's thread.
Step(j) ==
  \/ StartRun(j) \/ Fetch(j) \/ FetchNothing(j) \/ Upsert(j) \/ FinishRun(j)
  \/ CallFails(j) \/ RecordFailure(j) \/ RecordFails(j)

Next ==
  \/ \E s \in Series, t \in Ts : Publish(s, t)
  \/ \E j \in Jobs : Trigger(j) \/ Step(j)
  \/ Crash

Spec == Init /\ [][Next]_vars

\* A running thread is scheduled, and each of its calls returns or raises.
FairSpec == Spec /\ \A j \in Jobs : WF_vars(Step(j))
=============================================================================
