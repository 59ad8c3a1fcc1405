# FinStream in TLA+

FinStream collects price bars from Yahoo Finance into PostgreSQL and shows them on a
dashboard. This directory specifies the parts of it that are hard to test: concurrent
ingestion jobs over a database whose connection can fail, a scheduler on a host that is
suspended, a process that is started, stopped and killed, the classification of what a
source does, a page made of cached answers, and the arithmetic of its charts. TLC checks
small instances of every module; TLAPS proves all their invariants and action properties,
and that the ingestion jobs implement the contract the dashboard relies on, for all values
of the constants.

Paths below are relative to `src/services/ingestor/src/finstream_ingestor/` and, for the
dashboard, `src/services/dashboard/src/finstream_dashboard/`.

## The system

| Component | State | Operations | Interacts with |
|---|---|---|---|
| Ingestion jobs (`jobs.py`) | the loop's locals and a `JobSummary` per pass | `ingest`: for each symbol start, fetch, upsert, finish; `_record_failure` | called on a pool thread by the scheduler; calls the source and the database; several jobs at once |
| Database operations (`db.py`) | none of its own | `start_run`, `upsert_bars`, `finish_run`, `wait_for_db`, `init_schema`, the retryer | one transaction per call or batch |
| Raw schema (`schema.py`) | `market_prices`, `ingestion_runs` | inserts, upserts, updates by key | written by the jobs, read by the dashboard |
| Scheduler (`scheduler.py`, APScheduler) | next run times, instances in the pool, all in memory | submit due jobs, coalesce, misfire, heartbeat | the clock, the host, the pool, the heartbeat file |
| Healthcheck (`healthcheck.py`) | none | `is_healthy` | another process that reads the heartbeat file |
| Yahoo source (`sources/`) | none; a retryer | `fetch`, `_download`, `_normalise` | yfinance |
| Entry point (`main.py`) | the process | `run`, the signal handlers | all of the above |
| Settings (`config.py` of both services) | frozen | validation | |
| Dashboard page (`app.py`) | result caches with a time to live | four tabs | queries, comparison, charts |
| Comparison (`comparison.py`) | none | `compare`, `ratio_series`, `leader` | the page |
| Queries, charts, instruments | none | SELECTs, chart domains, ordering of symbols | the page |

What is hard about it:

- **Lost acknowledgements.** Every database call is retried on `OperationalError`, which
  is also what the client gets when a transaction committed and the connection was lost.
- **Partial failure.** A pass consists of many transactions; the bars and the audit row
  that describes them are never in the same one; recording a failure can fail.
- **Concurrency.** Jobs run on threads of their own, and the daily job and the backfill
  work on the same series.
- **Crash, restart, suspension.** The schedule is in memory, fire times become late, and
  the misfire check happens on the pool thread, after the decision to run.
- **Classification.** A closed market is an exception that is a subclass of the one for a
  wrong symbol; hidden exceptions look like a closed market.
- **Boundaries.** Batches, retry limits, zero and negative baselines, missing prices.

What makes each part correct:

- *jobs*: no failure is lost from the summary and none stops the loop; what a row of
  `ingestion_runs` claims is true of `market_prices`.
- *database operations*: repeating any call is harmless; nothing older replaces anything
  newer; every transaction leaves a state a reader may see; gaps heal.
- *entry point*: nothing runs before it can; what was begun is finished before an orderly
  end; whatever happened before, the service comes up again.
- *settings*: each configured symbol is ingested, once; a mistake is found before it acts.
- *scheduler*: a job never overlaps itself, no start and no stall goes without a run.
- *healthcheck*: a scheduler that keeps its schedule is healthy; a stalled one is not.
- *source*: empty means no data, an error means a failure, only the transient is retried.
- *comparison*: one baseline for all, and two panels that do not contradict each other
  where their series have the same instants (they can where the last bars differ).
- *dashboard, queries*: a page may be old by one time to live and no more, leaves nothing
  out without saying so, and counts every failure of the last day.
- *charts, instruments*: every point is inside its axis, every symbol can be picked.

## Modules

| Module | Models | Note |
|---|---|---|
| `RawLayer` | what the raw schema promises its readers | abstract specification |
| `Ingest` | `jobs.py` with the operations of `db.py` | one action per transaction or source call |
| `IngestProperties` | | its properties, inductive invariants, and the refinement of `RawLayer` |
| `IngestHealing` | | `Ingest` with a history of the gaps that must be filled |
| `Scheduler` | `scheduler.py`, `healthcheck.py`, APScheduler, the host | time in whole units |
| `Service` | `main.py`, `config.py`, `wait_for_db` and `init_schema`, the pool, Docker | one process after the other |
| `YahooSource` | `sources/yahoo.py` | one call of `fetch` |
| `Comparison` | `comparison.py` and `render_compare` | pure operators and the page that uses them |
| `Dashboard` | `app.py`, `queries.py` | over `RawLayer` as its environment |
| `Charts`, `Instruments` | `charts.py`, `instruments.py` | pure operators, used by `Dashboard` |
| `...Proofs`, `FiniteLemmas` | | theorems and lemmas |
| `MC...` | | values of constants for TLC |

How they fit: `Ingest` implements `RawLayer`, and `Dashboard` instantiates `RawLayer` for
what happens to the tables between two pages, so that the page is checked against every
ingestor the contract allows. `Ingest` takes for granted that a job has at most one thread,
which `Service` (`OneThreadPerJob`) and `Scheduler` (`NoOverlap`) show of the pool.
`Service` leaves to `Scheduler` when a job is due, and to `Ingest` what it does.

Definitions called `Bug...` are not part of a model. Each is a mistake that the code
could plausibly have made; put in place of the definition after it, it must make a
property fail, which shows that the property depends on the code being right there.

### `Ingest`

A thread of job `j` is at `pc[j]`: `idle`, or before one of the calls `start`
(`start_run`), `fetch`, `upsert` (one batch of `upsert_bars`), `finish` (`finish_run`)
and `record` (`finish_run` called by `_record_failure`). `idx`, `bars`, `todo`,
`written` and `summary` are the locals of `ingest` and `upsert_bars`, `attempt` is the
retryer's counter. `prices` and `runs` are the tables, `view` is what the source would
answer. The values of a bar are a revision number, 0 for none: the properties only
compare a bar with an earlier or later version of itself.

Every call has the same outcomes: it commits and returns; it commits and the client gets
an error (`LoseAck`); it fails without effect (`CallFails`). An error is retried while
attempts are left, or is raised to the job boundary (`Raise`): there it is counted, and
recorded unless it came from `start_run`, where `run_id` is still unbound. A retry of an
INSERT that had committed violates the primary key, since the id is chosen before the
retries, so `StartRun` has the row absent as its guard. `CallFails` may raise before the
last attempt, because not every error is an `OperationalError`. `Crash` ends all threads
between any two steps. `Publish` is the source's own progress and can happen between the
fetch and the write.

`died`, `ambiguous`, `unrecorded` and `changed` are history variables: they are never
read by a guard, except that `ambiguous` bounds how often an acknowledgement is lost.

### `Scheduler`

The main thread sleeps for `wait` and then takes every due job at once (`ProcessJobs`):
the fire times since `next[j]` are coalesced into the last one, the instance is submitted
unless the job has one in the pool already, and the next fire time follows from the
trigger. A pool thread decides whether the instance is misfired (`Miss`) or calls the job
(`Begin`); `End` is its return. A heartbeat takes no time and touches its file or, at most
`MaxFailed` times in a row, raises, which the listener only logs (`TouchFails`). An
ingestion run takes any time, including for ever. `Suspend` lets the wall clock jump; whether the main thread's sleep
counts that time depends on the clock the platform waits on, so both happen. `Crash`,
`Down` and `Boot` are the process and Compose's restart policy.

`since[j]` records what runs of `j` have done since its last fire time was processed or
the process started. `slept`, `missed` and `failed` count from the last touch of the
file: the time the process was down or suspended, the heartbeats that were too late for
their grace, and the ones that raised.

### `Service`

`phase` is where the main thread is, from `settings` to `exit`; `env` is the environment
of the container, with one mistake of each kind the validators and APScheduler tell apart;
`db` and `schema` are the database; `queued`, `worker` and `hung` are the pool. A job is
due at any time and takes any time.

The startup is one action per step of `run`, each of which may raise: then the process
ends and Compose starts it again (`Boot`). A signal before the handlers are installed ends
the process where it is; one in `start` makes `shutdown` raise; one in `serve` makes
`start()` return, or raise when the main loop was just taking the due jobs; one in `exit`
changes the exit code or breaks off the interpreter's wait for the pool. That wait
(`Join`) is not in the code: `concurrent.futures` registers it, so a process whose
`shutdown(wait=False)` has returned still finishes what was submitted, and is still there
when `docker stop` loses patience. `Kill` requires a pass in the middle of which that
happens: the grace period is long against anything else the process does then, the touch
of the heartbeat file included. `cut` records what was cut off when a process
ended.

### `Dashboard`, `Charts` and `Instruments`

The ingestor commits at most one transaction per unit of time, a cache entry lives for
`TTL` units, and the state of an entry is its age: `log` holds the tables as they were up
to `TTL + 1` units ago, so an entry of age `a` is the query on `log[a + 1]`. One page uses
the ages of several entries. `RenderPrices`, `RenderCompare` and `RenderHealth` load what
is not cached, compute the window and the warning, and leave on `page` what the user sees;
`RenderChart` draws a frame. No page reads both tables, so a behaviour is about one of
them (`subject`), which keeps the instance small without losing a page. A snapshot also
has for each run how long ago it was opened (`ago`, up to where no cached count can tell),
because `run_status_counts` only counts those of the last 24 hours (`Hours`, in units of
time). `RenderCompare` ends where `render_compare` returns early: with too few symbols
selected or, after naming the series that are empty, with too few that have bars; only
then comes the warning about the row limit.

A bar is its timestamp and has a day; `Charts` computes with integers, and a bound of an
axis is given times `Pad` so that the padding of one twentieth stays exact. In
`Instruments` a name is a number that sorts the same way.

### `YahooSource` and `Comparison`

`YahooSource` is one call of `fetch`. Each attempt has a cause, chosen by the environment;
`Class` is the table of the except clauses, `Retried` and `LastAttempt` are the retryer,
and `Normalise` the rest. A row is the set of fields with a value.

`Comparison` computes on series as functions from timestamps to integers or NULL (NaN).
Percentages are exact fractions with a positive divisor, so that the checks are free of
rounding. The actions are the three ways `render_compare` ends once frames are loaded.

## Runs

| Run | Instance | Shows |
|---|---|---|
| `ingest_shared` | daily and backfill on one series, lookbacks 2 and 3, 3 bars, 2 revisions, batches of 2, 2 attempts, 1 lost acknowledgement | `SuccessImpliesStored`, `RowsUpserted`, `GapsHeal`, and that every step is a step of `RawLayer` |
| `ingest_sole` | one job, 2 symbols, 2 passes, 1 bar each in 2 revisions, 1 lost acknowledgement, fair | `StuckRowsExplained`, `FinalStatus`, `FailuresReported`, `NoStaleOverwrite`, `PassShrinks`, `PassesEnd` |
| `scheduler` | 4 jobs, 8 units, heartbeat every 2, its grace 1, stale after 3 intervals, suspensions up to 7, 1 touch that fails | `NoOverlap`, `CaughtUp`, `WakesInTime`, `HeartbeatFresh` |
| `service` | 4 jobs on 4 threads, 6 environments, 2 attempts, 4 faults (crashes, signals, hangs, lost acknowledgements of DDL), fair | `ReadyToWork`, `OneThreadPerJob`, `StopFinishesPasses`, `SymbolsOnce`, `Recovers`, `HangContained`, `StopEnds` |
| `yahoo_source` | 3 attempts, 3 timestamps, 2 fields | the three statements about what `fetch` returns, raises and repeats |
| `comparison` | 3 series over 2 instants, closes 0 to 3 or NaN | `NoHeadStart`, `UselessSeriesIgnored`, `RatioAgrees` |
| `dashboard` | 2 symbols (one unknown) in 2 intervals, 3 bars on 2 days, 2 runs, TTL 1, counts over 3 units, 2 rows, all columns of 2 values from -2, 0, 1, NaN | `ShowsWhatIsOld`, `ListedIsShown`, `WholeRangeOrWarned`, `PickerComplete`, `FailuresShown`, `ChartsFrame` |

All of them but `ingest_sole` also check the `TypeOK` of their module.

The bounds are the smallest that let the interesting cases happen. Three bars in batches
of two give a full and a short batch and a crash between them, and one bar more than the
shorter lookback. Two revisions are enough
for one to be older; two attempts for a retry that succeeds and one that gives up; two
passes for a row of an earlier pass to be touched by a later one; two jobs for any
interleaving that needs a second writer. A heartbeat every 2 units with a grace of 1 is
missed after a suspension of 2 already, several times if there are several; a suspension of
7 exceeds the stale limit (6), and one failing touch can be added to it. Four faults are a crash, a hang and two signals in one
behaviour. With a time to live of one unit, a snapshot can be current, cached, or too
old; two rows against three bars give pages below, at and above the row limit, and two
runs against a list of one push a failure off it, and a window of three units lets a run
leave the counts while a cached count still has it. Two
instants are enough for a series to start late, and for a last bar that one series has
and another has not.

Deadlock is not checked, since each instance stops: passes, time and the number of pages
drawn are bounded, and one call of `fetch` ends.

**Fairness.** `PassesEnd`, in `ingest_sole`, and the three liveness properties of `service`
need it. `FairSpec` of `Ingest` is weakly fair to the steps of each
job's thread: the pool has a thread for every job, and every call returns or raises. The
code justifies the second only as far as the driver's and the HTTP client's own timeouts
go: `ingest` sets none. Nothing is assumed of the environment: the source need not
publish, the scheduler need not trigger, the process may die. What happens without that
assumption is the question of `service`: there a call may hang, and `FairSpec` of
`Service` says only that the main thread and the interpreter's wait go on, that a job that
stays due is submitted, that a pool thread takes what is queued, and that a call that did
not hang returns. Nothing is assumed of Docker: it need not kill, so `StopEnds` holds by
the process's own doing, and only if no thread hangs.

### Where the code and its documentation differ

Each of these is a run that TLC must find violated, with a line of the repository that
says otherwise (quoted in `PROJECT.json`).

| Run | Statement | What happens |
|---|---|---|
| `ingest_summary` | a summary counts each symbol once | counted as success, then again as failed when `finish_run` raises |
| `ingest_stuck` | a row left in `running` means a death | a lost acknowledgement of the INSERT, or a failure that cannot be recorded, leaves one too |
| `ingest_stale` | the table reflects the source's current view | backfill and daily job overlap, and the older answer is written last |
| `service_stop` | a stop is not a kill | the interpreter waits for the pool, and Docker does not wait as long |
| `comparison_negative` | the leader gained most | below zero a fall divides to a gain |

For all but the last the project also states and checks what does hold: `FailuresReported`
for the summary (nothing is hidden, though it may be counted twice), `StuckRowsExplained`,
`NoStaleOverwrite` with one job per interval, and `StopFinishesPasses` with `StopEnds`: a
stop that is left to itself finishes its passes and ends.

More differences show as exceptions in properties that hold:

- `docs/data-model.md:83` says that `rows_upserted` is the number of bars inserted or
  changed, but a retry after an unacknowledged commit finds nothing to change:
  `RowsUpserted` is exact only if no acknowledgement was lost.
- `docs/data-model.md:93` describes one update of a row, to its final status, but an
  unacknowledged close is followed by a second one, to `failed`, which `FinalStatus` allows.
- `docs/architecture.md:144` says that missed runs execute immediately on wake. Not if a
  run of the job is in flight: the coalesced one is dropped, and what `CaughtUp` promises
  is a run made or in progress.
- The heartbeat inherits coalescing and a grace longer than its interval, so it does catch
  up after a suspension, which the comment in
  `services/ingestor/tests/unit/test_scheduler.py:161` denies.
- `docs/architecture.md:146` has the heartbeat go stale when the service hangs. A hung
  ingestion thread leaves it fresh: `HangContained`, which is good for the other jobs, is
  also why the healthcheck does not notice.
- `main.py:3` says that a typo in the settings fails immediately. A cron expression with a
  field out of range fails only in `build_scheduler`, after the database was waited for
  and the schema was created: `ReadyToWork` still holds.
- `scheduler.py:5` says that a restart heals any gap; `GapsHeal` says one that is not
  longer than the lookback.
- `comparison.py:89` and `app.py:317` say that the baseline is a bar all series have in
  common. It is the latest of their first bars, and the others may have none then, in
  which case their own next bar is their baseline: `NoHeadStart`.
- The docstring at `charts.py:41` has an unknown range fall back to the last 90 days up to
  today; the code and its test open on today alone.

## Proofs

Each theorem holds for all values of the constants that satisfy the module's named
assumptions (the constants have the right types, counts that must be positive are), and
the bounds, with any value, are part of the model.

| Module | Theorem | Statement |
|---|---|---|
| `IngestProofs` | `TypeCorrect` | `Spec => []TypeOK` |
| | `SuccessIsStored` | `Spec => []SuccessImpliesStored` |
| | `NewestRevisionStays` | `Spec => NoStaleOverwrite`, if no two jobs have the same interval |
| | `GapsAreHealed` | `HSpec => []GapsHeal` |
| `IngestAuditProofs` | `StuckRowsAreExplained` | `Spec => []StuckRowsExplained` |
| | `ClosedRowsStay` | `Spec => FinalStatus` |
| | `JobsImplementRawLayer` | `Spec => ImplementsRawLayer`, a refinement |
| | `CountsAreTrue` | `Spec => []RowsUpserted` |
| | `EveryFailureCounts` | `Spec => []FailuresReported` |
| | `PassesShrink` | `Spec => PassShrinks` |
| `SchedulerProofs` | `TypeCorrect`, `OneInstance`, `NothingIsMissed`, `WakesOften`, `HealthIsFair` | all five invariants of `Scheduler` |
| `ServiceProofs` | `TypeCorrect`, `StartupOrder`, `OneThread`, `StopIsClean`, `SymbolsAsListed` | all five invariants of `Service` |
| `YahooSourceProofs` | `TypeCorrect`, `EmptyAnswers`, `Errors`, `Retries` | all four invariants of `YahooSource` |
| `ComparisonProofs` | `TypeCorrect`, `FairStart`, `UselessIsIgnored`, `RatiosAgree` | all four invariants of `Comparison` |
| `DashboardProofs` | `TypeCorrect`, `OldBarsAreShown`, `WindowIsNotEmpty`, `RowsOrWarning`, `PickerHasAll`, `FailuresAreShown`, `PointsAreInside` | all seven invariants of `Dashboard` |

The arguments:

- *Type correctness* of `Ingest` is inductive as it stands, with the bound on `attempt`
  coming from the guard of `Again`.
- *A success is stored.* The row only says how many bars were received, so the invariant
  has to connect the row to the thread: `FetchedIsStored` says that each fetched bar is
  stored or still in `todo`, that `finish` is reached with `todo` empty, and that the
  count does not run ahead. It survives other jobs' writes because nothing deletes a bar
  (`StoredGrows`), and after the row is closed for the same reason.
- *No stale overwrite.* `NewerBars` says that what a thread is about to write is at least
  as new as what it replaces. It holds at the fetch because nothing newer than the
  source's view is stored (`ServedRevisions`), and is kept because no other job writes
  the series: this is where the assumption on the intervals is needed, and `ingest_stale`
  shows that it cannot be dropped.
- *The audit rows.* `RowsFollowThreads` says that no row is ahead of its job's thread
  (`NewestRow`) and that the row a thread works on is in the state the thread takes it to
  be in, up to transactions that were not acknowledged (`ThreadRow`). A row that is left
  behind was left by one of the exits of the loop, which gives the causes of
  `StuckRowsExplained`; a closed row is out of reach because ids are not reused, which
  gives `FinalStatus`.
- *The refinement.* Every transaction of a thread is mapped to a step of `RawLayer` on the
  same tables. The cases that need an invariant are the repeated ones: `Settled` says that
  a row which a retry of `finish_run` finds closed was closed by the same statement, and
  `FetchedIsStored` that its counts are those of stored bars.
- *The counts.* `written` lags behind `changed` only after an upsert that committed
  without its acknowledgement; a row that no thread works on does not change.
- *The summary.* `Tallied` compares the summary so far with the rows of the symbols the
  pass has left behind. A symbol is counted as a success or as empty before its row says
  so, and as failed before the failure is recorded: `Pending` is that lead, and each step
  either moves a unit from the summary into the lead or from the lead into the rows.
- *The end of a pass.* `Left` is a natural number: the calls a thread has before it at most,
  one for each bar of a window among them, each with the attempts it has left. A step goes
  on to fewer calls, which outweighs the fresh attempts of the next one (`FewerCalls`), or
  uses up an attempt. A window is no longer than the lookback (`WindowSmall`), and a batch
  is not empty because a thread that writes has something to write (`BarsToWrite`). This is
  the part of `PassesEnd` that is not fairness: that the thread makes these steps at all.
- *Healing.* What a thread delivers is a full window (`WindowFull`): if it leaves out an
  older published bar, it has as many newer ones as the lookback asks for. A gap no longer
  than the lookback therefore lies inside the window, and `FetchedIsStored` has it stored.
- *The schedule.* Coalescing takes the greatest of the due times, which with a period is
  less than a period ago; its successor is later than now. So the next heartbeat is at
  most one interval away, which bounds the sleep (`Awake`), and a job that has not run
  since it was last due is in the pool or about to be (`Owed`). `HeartbeatFresh` must not
  relate the settings, since each of interval and grace can be anything from 1 up: a
  heartbeat may well be missed, and may fail to touch its file. Its invariant measures the
  age of the file with one interval more for each of these and without the time slept
  (`Allowed`), and looks ahead: the file will still be young enough when the main thread
  wakes and when the next heartbeat is due, and one interval more is owed while a heartbeat
  is in the pool, where it may still fail (`Young`). Heartbeats are not missed for nothing:
  what makes the queued one late, or will make the next one late (`Behind`), has been paid
  for by a stall, each unit of which counts for these two at most, but for the part of an
  interval that coalescing leaves (`Late`). `FirstBeat` is the file that does not exist
  yet: a heartbeat is on its way, or one was missed or failed.
- *The service.* `Prepared` says what each phase has established for the ones after it,
  `NoPoolYet` that there is no pool outside `serve` and `exit`, and `ExitIsSignalled` that
  only a signal leads to `exit`: so a process that ended in an orderly way after one
  signal passed through `Join`.
- *The source.* `Attempts` and `Outcome` tie each phase of `fetch` to the causes of the
  attempts that led to it.

- *The symbols.* `Symbols` is a fold over the parts of the setting. `Lists` says of the
  list after `n` parts that it has the names of these parts, in the order of their first
  mention; a part adds its name at the end or nothing (`AddLists`).
- *The comparison.* The invariant says of a page that it is `Compare` of the frames that
  were loaded, so each property is one of the operators. A percentage is a pair of
  integers and the order of percentages is by cross products: it is total and transitive
  because the divisor is made positive and a baseline of zero is none, and so a leader
  exists.
  `RatiosAgree` is an inequality of products of closes, which it reduces step by step to
  that of the changes.
- *The dashboard.* `LogOK` says that each snapshot of the log extends the older ones: no
  bar is deleted, no row disappears, what has failed has failed, and a run gets older by no
  more than the time between them. A page says which
  snapshots its parts come from (`PricesPage` and its like), and none is older than one
  time to live (`AgesOK`). So what was stored that long ago is in every snapshot a page is
  made of, whatever the ages of the others; a window is never empty for a series in the
  coverage it was built from, because its last day is that of a bar; and the limit of a
  query leaves out a row only when it has returned as many as the warning asks for.
- *The picker.* The picker's list is a fold over the classes. After `n` classes it has the
  symbols of these, once each and class by class (`Picker`); each symbol has one place
  because the classes are different and the last one takes what is unknown. That the
  members of a class can be sorted at all is an induction over their number.
- *The charts.* The padding is positive whatever the values are, flat, zero or negative,
  so the least and the greatest point are off the edge, and with them all others.

Induction is what most of this needs: for the existence of a least or greatest element
that a `CHOOSE` picks, and for what a fold computes. The library's induction theorems take
an operator as a parameter and cannot be used. `FiniteLemmas` gets what is needed from the
well-foundedness of strict inclusion on finite sets: "the least counterexample" of a set of
numbers, a top element under any total order, induction up to a number over a *set* of
numbers (`CountUp`), and the existence of the function that `FoldLeft` is defined by
(`FoldExists`). With the last two, what a particular fold returns is proved for every input:
first the list of its intermediate results (`SymbolsFold`, `GroupsFold`), then an
invariant of that list. The sorting and filtering operators of the library are declared in a
way the provers do not see through, so `Instruments` takes a sorted list of a class as the
choice it is, and filters with a fold.

The assumptions on the constants of `Comparison`, `Dashboard` and `Instruments` are what
the code's types give: a table and a frame have finitely many rows, prices are numbers or
missing, names can be compared, and the classes of `ASSET_CLASS_ORDER` are different and
contain those of all known instruments (the last is `test_instruments.py:51`).

Only model-checked: liveness (`PassesEnd`, `Recovers`, `HangContained`, `StopEnds`), which
is out of the prover's reach, with `PassShrinks` the step from one state to the next that
`PassesEnd` rests on. Every invariant and every action property that a run checks
is proved.

## Not modelled

- Logging, the hypertable and the indexes, CI: configuration or wording, with no behaviour
  over time. Of the settings, which interval, period or time zone is valid: string
  patterns and library tables.
- Of the dashboard, what shows a query result as it is (the Coverage tab, the recent bars,
  the metric tiles, the volume and ratio charts), and a selection on the Compare tab other
  than the one it opens on, with the limit on its length.
- A signal handler that interrupts the main loop's Event while its lock is held, which
  could block for ever: below the grain of `Service`.
- The numbers inside a bar (prices, volumes) in `Ingest`, and conversions of types and
  time zones in `YahooSource`: no property depends on them.
- Waiting times of the retryers: only the number of attempts.
- Database isolation beyond one transaction per step: each statement of the ingestor
  writes under row locks and reads nothing it does not write.

## What could follow

`Dashboard` with a selection made by the user, and the cache's own limit of entries. For
`Service`, a measure like `Left` for what the main thread has before it when it stops.
