------------------------------ MODULE Service ------------------------------
(***************************************************************************)
(* The ingestor as a process: main.run, from the settings to the           *)
(* scheduler, its signal handlers, the threads of APScheduler's pool, and  *)
(* the container around it (Docker's stop, Compose's restart policy).      *)
(*                                                                         *)
(*   settings  Settings() validates the environment                        *)
(*   probe     wait_for_db                                                 *)
(*   schema    init_schema, in one transaction                             *)
(*   build     build_scheduler; then the handlers are installed            *)
(*   start     scheduler.start(), until it is in the state running         *)
(*   serve     the main loop                                               *)
(*   exit      run has returned, the interpreter waits for the pool        *)
(*                                                                         *)
(* What a job does is left to Ingest, and when it is due to Scheduler: here *)
(* a job is due at any time, and a call of it ends, hangs or is cut off.   *)
(* Definitions named Bug... are mistakes to be put in place of the         *)
(* definition after them; they are not part of the model.                  *)
(***************************************************************************)
EXTENDS Naturals, Sequences, SequencesExt, FiniteSets

CONSTANTS
  Jobs,         \* job ids of the scheduler
  Heartbeat,    \* the job that is always enabled
  Daily,        \* the job whose trigger is built from DAILY_CRON
  OneShot,      \* jobs with a DateTrigger: the backfill
  Parts,        \* texts between the commas of YAHOO_SYMBOLS
  Strip,        \* [Parts -> symbols and BLANK]: str.strip
  BLANK,        \* the empty string
  Environments, \* environments an operator may give the container
  Workers,      \* threads of the pool
  MaxAttempts,  \* settings.retry_max_attempts
  MaxFaults,    \* BOUND: crashes, signals, hangs and lost acknowledgements
  NULL

ASSUME ServiceAssumption ==
  /\ Heartbeat \in Jobs /\ Daily \in Jobs \ {Heartbeat}
  /\ OneShot \subseteq Jobs \ {Heartbeat, Daily}
  /\ Parts \subseteq DOMAIN Strip
  /\ \A e \in Environments :
       /\ e.symbols \in Seq(Parts) \ {<<>>}          \* "".split(",") is [""]
       /\ e.cron \in {"valid", "malformed", "impossible"}
       /\ e.others \in {"valid", "invalid"}
       /\ e.enabled \subseteq Jobs \ {Heartbeat}
  /\ MaxAttempts \in Nat \ {0}
  /\ MaxFaults \in Nat
  /\ NULL \notin Jobs

\* APScheduler's default pool has 10 threads, and there are 4 jobs.
ASSUME PoolAssumption ==
  IsFiniteSet(Workers) /\ IsFiniteSet(Jobs) /\ Cardinality(Workers) >= Cardinality(Jobs)

VARIABLES
  env,      \* the environment of the container
  stopped,  \* `docker stop` was asked for: the restart policy is suspended
  db,       \* the database answers
  schema,   \* the schema and its tables exist
  phase,    \* where the main thread is; "down" while there is no process
  attempt,  \* of wait_for_db
  jobs,     \* jobs in the job store
  queued,   \* jobs submitted to the pool that no thread has taken
  worker,   \* the job each thread of the pool is in
  hung,     \* the threads that never return
  signals,  \* signals this process got
  exit,     \* how the latest process ended, or is about to
  cut,      \* history: the jobs that were queued or running when it ended
  faults    \* history: how many faults there were

container == <<env, stopped>>
database  == <<db, schema>>
pool      == <<queued, worker, hung>>
ending    == <<signals, exit, cut>>
vars == <<container, database, phase, attempt, jobs, pool, ending, faults>>

Idle    == [w \in Workers |-> NULL]
Busy(j) == {w \in Workers : worker[w] = j}
Unfinished == queued \cup {j \in Jobs : Busy(j) # {}}

\* Settings.symbols: in order, without duplicates or blanks.  The mistake is to
\* drop duplicates before the blanks around them.
BugSymbols(parts) ==
  FoldLeft(LAMBDA seen, part : IF Strip[part] = BLANK THEN seen ELSE Append(seen, Strip[part]),
           <<>>, FoldLeft(LAMBDA seen, part : IF \E i \in 1..Len(seen) : seen[i] = part THEN seen
                                              ELSE Append(seen, part), <<>>, parts))
Symbols(parts) ==
  FoldLeft(LAMBDA seen, part : IF Strip[part] = BLANK \/ (\E i \in 1..Len(seen) : seen[i] = Strip[part])
                               THEN seen ELSE Append(seen, Strip[part]),
           <<>>, parts)

\* The validators.  A cron expression is only checked for its five fields and for
\* digits in the last; what an hour may be is left to APScheduler.
Valid(e) ==
  /\ \E i \in 1..Len(e.symbols) : Strip[e.symbols[i]] # BLANK
  /\ e.cron # "malformed"
  /\ e.others = "valid"

\* CronTrigger.from_crontab, which is only called for a job that is enabled.
Buildable(e) == e.cron = "valid" \/ Daily \notin e.enabled

Registered(e) == e.enabled \cup {Heartbeat}

Init ==
  /\ env \in Environments
  /\ stopped = FALSE
  /\ db \in BOOLEAN
  /\ schema = FALSE
  /\ phase = "down"
  /\ attempt = 1
  /\ jobs = {}
  /\ queued = {} /\ worker = Idle /\ hung = {}
  /\ signals = 0 /\ exit = "none" /\ cut = {}
  /\ faults = 0
-----------------------------------------------------------------------------
(* The process ends, and with it every thread and the job store. *)
End(how) ==
  /\ phase' = "down"
  /\ exit' = how
  /\ cut' = Unfinished
  /\ attempt' = 1
  /\ jobs' = {} /\ queued' = {} /\ worker' = Idle /\ hung' = {}

(* An exception leaves run before there is a pool. *)
Fail == End("error") /\ UNCHANGED <<container, database, signals, faults>>

Fault == faults < MaxFaults /\ faults' = faults + 1

(* Compose starts the container, and starts it again whenever it has ended. *)
Boot ==
  /\ phase = "down" /\ ~stopped
  /\ phase' = "settings"
  /\ signals' = 0 /\ exit' = "none" /\ cut' = {}
  /\ UNCHANGED <<container, database, attempt, jobs, pool, faults>>

LoadSettings ==
  /\ phase = "settings"
  /\ IF Valid(env) THEN /\ phase' = "probe"
                        /\ UNCHANGED <<container, database, attempt, jobs, pool, ending, faults>>
                   ELSE Fail

\* What comes after wait_for_db.  The mistake: the schema is left to somebody else.
BugAfterDb == "build"
AfterDb    == "schema"

\* The mistake: one attempt too many.
BugTriesLeft == attempt <= MaxAttempts
TriesLeft    == attempt < MaxAttempts

WaitForDb ==
  /\ phase = "probe"
  /\ \/ /\ db
        /\ phase' = AfterDb /\ attempt' = 1
        /\ UNCHANGED <<container, database, jobs, pool, ending, faults>>
     \/ /\ ~db /\ TriesLeft
        /\ attempt' = attempt + 1
        /\ UNCHANGED <<container, database, phase, jobs, pool, ending, faults>>
     \/ ~db /\ ~TriesLeft /\ Fail

\* All DDL says IF NOT EXISTS.  The mistake: a CREATE that does not.
BugCreatable == ~schema
Creatable    == TRUE

\* init_schema is not retried: an error of any kind ends the process, also one that
\* came after the transaction had committed.
InitSchema ==
  /\ phase = "schema"
  /\ db /\ Creatable
  /\ schema' = TRUE
  /\ phase' = "build"
  /\ UNCHANGED <<container, db, attempt, jobs, pool, ending, faults>>

InitSchemaFails ==
  /\ phase = "schema"
  /\ \/ ~(db /\ Creatable) /\ Fail
     \/ /\ db /\ Creatable /\ Fault
        /\ schema' \in {schema, TRUE}
        /\ End("error")
        /\ UNCHANGED <<container, db, signals>>

Build ==
  /\ phase = "build"
  /\ IF Buildable(env) THEN /\ phase' = "start"
                            /\ jobs' = Registered(env)
                            /\ UNCHANGED <<container, database, attempt, pool, ending, faults>>
                       ELSE Fail

Start ==
  /\ phase = "start"
  /\ phase' = "serve"
  /\ UNCHANGED <<container, database, attempt, jobs, pool, ending, faults>>
-----------------------------------------------------------------------------
\* job_defaults: max_instances.  The mistake is not to set it.
BugMayRun(j) == j \notin queued
MayRun(j)    == j \notin queued /\ Busy(j) = {}

\* The main loop finds the job due.
Fire(j) ==
  /\ phase = "serve" /\ j \in jobs
  /\ MayRun(j)
  /\ queued' = queued \cup {j}
  /\ jobs' = IF j \in OneShot THEN jobs \ {j} ELSE jobs
  /\ UNCHANGED <<container, database, phase, attempt, worker, hung, ending, faults>>

\* Pool threads take what is queued, also after the pool was shut down.
Begin(j) ==
  /\ j \in queued
  /\ queued' = queued \ {j}
  /\ \E w \in Workers : worker[w] = NULL /\ worker' = [worker EXCEPT ![w] = j]
  /\ UNCHANGED <<container, database, phase, attempt, jobs, hung, ending, faults>>

Return(w) ==
  /\ worker[w] # NULL /\ w \notin hung
  /\ worker' = [worker EXCEPT ![w] = NULL]
  /\ UNCHANGED <<container, database, phase, attempt, jobs, queued, hung, ending, faults>>

\* A call without a timeout (a statement waiting for a lock, a connection that is
\* half open) does not return.
Hang(w) ==
  /\ Fault
  /\ worker[w] \notin {NULL, Heartbeat} /\ w \notin hung
  /\ hung' = hung \cup {w}
  /\ UNCHANGED <<container, database, phase, attempt, jobs, queued, worker, ending>>
-----------------------------------------------------------------------------
\* The handler: scheduler.shutdown(wait=False), and start() returns, or raises if it
\* was just taking the jobs that are due.  The mistake: a handler that only logs.
BugShutdown == UNCHANGED <<phase, exit, jobs>>
Shutdown    == phase' = "exit" /\ exit' \in {"zero", "error"} /\ jobs' = {}

\* A signal before the handlers are installed: SIGTERM ends the process where it
\* is, SIGINT raises KeyboardInterrupt, which run catches and main does not.  A
\* statement that was sent may still commit.
Unhandled ==
  /\ phase \in {"settings", "probe", "schema", "build"}
  /\ \/ End("signal")
     \/ End(IF phase = "settings" THEN "error" ELSE "zero")
  /\ schema' \in {schema, schema \/ (phase = "schema" /\ db /\ Creatable)}

\* After it: shutdown raises SchedulerNotRunningError unless the scheduler runs.
\* In the exit phase that only changes the exit code, or breaks off the
\* interpreter's wait for the pool.
Handled ==
  /\ \/ phase = "start" /\ End("error")
     \/ phase = "serve" /\ Shutdown /\ UNCHANGED <<attempt, pool, cut>>
     \/ /\ phase = "exit"
        /\ \/ exit' = "error" /\ UNCHANGED <<phase, attempt, jobs, pool, cut>>
           \/ End("error")
  /\ UNCHANGED schema

\* A signal comes from `docker stop` or from elsewhere.
Signal ==
  /\ phase # "down" /\ Fault
  /\ signals' = signals + 1
  /\ stopped' \in {stopped, TRUE}
  /\ Unhandled \/ Handled
  /\ UNCHANGED <<env, db>>

\* The interpreter ends once every thread of the pool has.  The mistake: it does
\* not wait, as with daemon threads.
BugJoinable == TRUE
Joinable    == Unfinished = {}

Join ==
  /\ phase = "exit" /\ Joinable
  /\ End(exit)
  /\ UNCHANGED <<container, database, signals, faults>>

\* The grace period of `docker stop` is over in the middle of a pass.  The main thread
\* needs none of it, nor does a heartbeat.
Kill ==
  /\ phase = "exit" /\ stopped
  /\ \E j \in Jobs \ {Heartbeat} : Busy(j) # {}
  /\ End("killed")
  /\ UNCHANGED <<container, database, signals, faults>>

Crash ==
  /\ phase # "down" /\ Fault
  /\ End("crashed")
  /\ schema' \in {schema, schema \/ (phase = "schema" /\ db /\ Creatable)}
  /\ UNCHANGED <<container, db, signals>>
-----------------------------------------------------------------------------
\* `docker stop` of a container that has ended, and `docker compose up`, perhaps
\* with another environment.
Compose ==
  /\ phase = "down"
  /\ stopped' \in BOOLEAN
  /\ env' \in {env} \cup IF stopped' THEN {} ELSE Environments
  /\ UNCHANGED <<database, phase, attempt, jobs, pool, ending, faults>>

DbFlips ==
  /\ db' = ~db
  /\ UNCHANGED <<container, schema, phase, attempt, jobs, pool, ending, faults>>

Startup  == Boot \/ LoadSettings \/ WaitForDb \/ InitSchema \/ InitSchemaFails \/ Build \/ Start
PoolStep == (\E j \in Jobs : Begin(j)) \/ (\E w \in Workers : Return(w) \/ Hang(w))

Next ==
  \/ Startup \/ PoolStep \/ Signal \/ Join \/ Kill \/ Crash \/ Compose \/ DbFlips
  \/ \E j \in Jobs : Fire(j)

Spec == Init /\ [][Next]_vars

\* The main thread goes on, each job stays due, the pool's threads are scheduled,
\* and a call that does not hang ends.  Nothing is assumed of Docker's Kill.
FairSpec ==
  /\ Spec
  /\ WF_vars(Startup) /\ WF_vars(Join)
  /\ \A j \in Jobs : WF_vars(Fire(j)) /\ WF_vars(Begin(j))
  /\ \A w \in Workers : WF_vars(Return(w))
-----------------------------------------------------------------------------
TypeOK ==
  /\ env \in Environments
  /\ stopped \in BOOLEAN /\ db \in BOOLEAN /\ schema \in BOOLEAN
  /\ phase \in {"down", "settings", "probe", "schema", "build", "start", "serve", "exit"}
  /\ attempt \in 1..MaxAttempts
  /\ jobs \subseteq Jobs /\ queued \subseteq Jobs
  /\ worker \in [Workers -> Jobs \cup {NULL}] /\ hung \subseteq Workers
  /\ signals \in Nat /\ faults \in 0..MaxFaults
  /\ exit \in {"none", "zero", "error", "signal", "killed", "crashed"}
  /\ cut \subseteq Jobs

\* What services/ingestor/tests/unit/test_main.py asserts of the order of startup: no job is called,
\* not even in a process that is on its way out, unless the schema exists and every
\* setting was accepted, whatever earlier processes did to the database.
ReadyToWork ==
  Unfinished # {} => schema /\ Valid(env) /\ Buildable(env) /\ Unfinished \subseteq Registered(env)

\* At most one thread is in a job, and none of a job that waits for a thread: what
\* Ingest takes for granted of its threads.
OneThreadPerJob ==
  \A j \in Jobs : \A v, w \in Busy(j) : v = w /\ j \notin queued

\* A process that one signal was enough to end finished every pass that had been
\* begun or submitted, although shutdown(wait=False) does not wait for them.
StopFinishesPasses ==
  phase = "down" /\ exit \in {"zero", "error"} /\ signals <= 1 => cut = {}

\* The symbols the jobs get are the ones configured, each once, as first mentioned.
SymbolsOnce ==
  LET parts == env.symbols
      s     == Symbols(parts)
      names == {Strip[parts[i]] : i \in 1..Len(parts)} \ {BLANK}
      At(x) == CHOOSE i \in 1..Len(parts) :
                 Strip[parts[i]] = x /\ \A k \in 1..(i - 1) : Strip[parts[k]] # x
  IN  /\ {s[i] : i \in 1..Len(s)} = names
      /\ \A i, k \in 1..Len(s) : i < k => At(s[i]) < At(s[k])

\* Whatever was interrupted before, the service comes up for good once the database
\* answers, the settings are right and nobody stops it, unless it was told to end
\* with a thread that does not return.
Recovers ==
  <>[](/\ db /\ Valid(env) /\ Buildable(env) /\ ~stopped
       /\ ~(phase = "exit" /\ hung # {})) => <>[](phase = "serve")

\* A call that hangs costs its own job and no other: every other job is called again
\* and again, the heartbeat among them.
HangContained ==
  \A j \in Jobs :
    <>[](phase = "serve" /\ j \in jobs /\ Busy(j) \cap hung = {}) => []<>(Busy(j) # {})

\* A stop ends the process without Docker's help, unless a thread hangs.
StopEnds == stopped ~> (phase = "down" \/ ~stopped \/ hung # {})
-----------------------------------------------------------------------------
(* A statement of a docstring that the code does not keep. *)

\* main.py: a stop with the handlers installed is not a kill.
StopIsNotAKill == exit # "killed"
=============================================================================
