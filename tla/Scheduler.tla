----------------------------- MODULE Scheduler -----------------------------
(***************************************************************************)
(* The schedule of the ingestor: build_scheduler registers the jobs, and   *)
(* APScheduler 3.11 (a BlockingScheduler on the main thread and a thread   *)
(* pool) runs them while the host may suspend and the process may die.     *)
(*                                                                         *)
(* Time is the wall clock in whole units.  The main thread sleeps until    *)
(* the next fire time is due and then processes every job that is due: the *)
(* fire times a job missed are coalesced into the last of them, which is   *)
(* submitted to the pool unless the job has max_instances instances there. *)
(* A pool thread looks at the misfire grace time only when it begins.      *)
(* Whether the sleep counts the time the host is suspended depends on the  *)
(* clock the platform waits on, so both are possible.                      *)
(***************************************************************************)
EXTENDS Integers

CONSTANTS
  Jobs,          \* the registered jobs
  Heartbeat,     \* the heartbeat job
  Every,         \* the period of each job with an IntervalTrigger
  Cron,          \* [Jobs -> SUBSET Nat]: fire times of each other job's trigger
  Grace,         \* [Jobs -> Nat \cup {NULL}]: misfire_grace_time; NULL is no limit
  StaleAfter,    \* STALE_AFTER_INTERVALS
  MaxTime,       \* BOUND: the wall clock
  MaxSuspend,    \* BOUND: the length of one suspension
  MaxFailed,     \* BOUND: touches that fail in a row
  NULL

ASSUME SchedulerAssumption ==
  /\ Heartbeat \in DOMAIN Every
  /\ DOMAIN Every \subseteq Jobs
  /\ Every \in [DOMAIN Every -> Nat \ {0}]
  /\ Cron \in [Jobs -> SUBSET Nat]
  /\ Grace \in [Jobs -> Nat \cup {NULL}]
  /\ Grace[Heartbeat] # NULL              \* it has the default of job_defaults
  /\ StaleAfter \in Nat \ {0}
  /\ {MaxTime, MaxSuspend, MaxFailed} \subseteq Nat
  /\ NULL \notin Int

VARIABLES
  now,        \* the wall clock
  up,         \* the process runs
  wait,       \* how much longer the main thread sleeps
  next,       \* next_run_time of each job; NULL once the job is removed
  pool,       \* instances in the thread pool
  beat,       \* the modification time of the heartbeat file; NULL while there is none
  since,      \* history: what runs of each job did since its last fire, or the start
  slept,      \* history: time suspended or down since the file was touched
  missed,     \* history: heartbeats that came too late to run since then
  failed      \* history: heartbeats that could not touch it since then

clock   == <<now, wait>>
history == <<since, slept, missed, failed>>
vars    == <<clock, up, next, pool, beat, history>>

Time == 0..MaxTime

Queued(j)  == {i \in pool : i.job = j /\ ~i.running}
Running(j) == {i \in pool : i.job = j /\ i.running}

\* job_defaults: max_instances.  The mistake is to count running instances only.
BugMayRun(j) == Running(j) = {}
MayRun(j)    == Running(j) \cup Queued(j) = {}

\* The fire times of a job that are due, from its next run time on.
Due(j) == {t \in 0..now : /\ next[j] # NULL /\ next[j] <= t
                          /\ \/ t = next[j]
                             \/ j \in DOMAIN Every /\ \E n \in 0..now : t = next[j] + n * Every[j]
                             \/ j \notin DOMAIN Every /\ t \in Cron[j]}

\* job_defaults: coalesce.  The mistake is to take the first of them.
BugCoalesced(j) == CHOOSE t \in Due(j) : \A u \in Due(j) : t <= u
Coalesced(j)    == CHOOSE t \in Due(j) : \A u \in Due(j) : u <= t

\* The fire time of the trigger after t, if any.
After(j, t) ==
  LET later == IF j \in DOMAIN Every THEN {t + Every[j]} ELSE {f \in Cron[j] : f > t}
  IN  IF later = {} THEN NULL ELSE CHOOSE f \in later : \A g \in later : f <= g

\* The mistake: misfire_grace_time of ingestion jobs left at the default.
BugMisfired(i) == now - i.fire > IF Grace[i.job] = NULL THEN Grace[Heartbeat] ELSE Grace[i.job]
Misfired(i)    == Grace[i.job] # NULL /\ now - i.fire > Grace[i.job]

\* is_healthy
Healthy == beat # NULL /\ now - beat <= Every[Heartbeat] * StaleAfter

Init ==
  /\ now = 0 /\ wait = 0
  /\ up = FALSE
  /\ next = [j \in Jobs |-> NULL]
  /\ pool = {}
  /\ beat \in {NULL, 0}    \* a new container, or one that ran before
  /\ since = [j \in Jobs |-> "ended"]
  /\ slept = 0 /\ missed = 0 /\ failed = 0
-----------------------------------------------------------------------------
\* build_scheduler: every job is registered to run now, the backfill by its trigger
\* and the others by next_run_time.  The mistake: the heartbeat is not registered.
BugUnbeaten == [j \in Jobs |-> IF j = Heartbeat THEN NULL ELSE now]
Registered  == [j \in Jobs |-> now]

\* main.run, once the database answers.
Boot ==
  /\ ~up
  /\ up' = TRUE
  /\ next' = Registered
  /\ wait' = 0
  /\ since' = [j \in Jobs |-> "nothing"]
  /\ UNCHANGED <<now, pool, beat, slept, missed, failed>>

\* _process_jobs: the main thread wakes, takes every job that is due, and sleeps
\* until the earliest next run time.
Sleep(until) == LET times == {until[j] : j \in Jobs} \ {NULL}
                IN  (CHOOSE t \in times : \A u \in times : t <= u) - now

ProcessJobs ==
  /\ up /\ wait = 0
  /\ LET due == {j \in Jobs : Due(j) # {}}
     IN  /\ pool' = pool \cup {[job |-> j, fire |-> Coalesced(j),
                                running |-> FALSE] : j \in {k \in due : MayRun(k)}}
         /\ next' = [j \in Jobs |-> IF j \in due THEN After(j, Coalesced(j)) ELSE next[j]]
         /\ since' = [j \in Jobs |-> IF j \in due THEN "nothing" ELSE since[j]]
         /\ wait' = Sleep(next')
  /\ UNCHANGED <<now, up, beat, slept, missed, failed>>

\* A pool thread takes an instance: too late, and it is only reported as missed.
Miss(i) ==
  /\ ~i.running /\ Misfired(i)
  /\ pool' = pool \ {i}
  /\ missed' = IF i.job = Heartbeat THEN missed + 1 ELSE missed
  /\ UNCHANGED <<clock, up, next, beat, since, slept, failed>>

\* ... or in time, and the job is called.
Begin(i) ==
  /\ ~i.running /\ ~Misfired(i)
  /\ pool' = (pool \ {i}) \cup {[i EXCEPT !.running = TRUE]}
  /\ since' = [since EXCEPT ![i.job] = "begun"]
  /\ UNCHANGED <<clock, up, next, beat, slept, missed, failed>>

\* touch_heartbeat.  The mistake: a file that is created but not touched.
BugTouched == UNCHANGED beat /\ slept' = 0 /\ missed' = 0 /\ failed' = 0
Touched    == beat' = now /\ slept' = 0 /\ missed' = 0 /\ failed' = 0

\* It raises, and on_job_problem only logs that.
TouchFails ==
  /\ failed < MaxFailed
  /\ failed' = failed + 1
  /\ UNCHANGED <<beat, slept, missed>>

\* The job returns: ingest after as long as it takes, and never with an exception.
End(i) ==
  /\ i.running
  /\ pool' = pool \ {i}
  /\ since' = [since EXCEPT ![i.job] = "ended"]
  /\ \/ i.job = Heartbeat /\ (Touched \/ TouchFails)
     \/ i.job # Heartbeat /\ UNCHANGED <<beat, slept, missed, failed>>
  /\ UNCHANGED <<clock, up, next>>

\* The pool has room for every job and a heartbeat takes no time: time passes when
\* the main thread sleeps and only ingest is running.
Tick ==
  /\ up /\ wait > 0 /\ now < MaxTime
  /\ \A i \in pool : i.running /\ i.job # Heartbeat
  /\ now' = now + 1 /\ wait' = wait - 1
  /\ UNCHANGED <<up, next, pool, beat, history>>

\* The host is suspended, or the process stalls, with everything in it.
Suspend ==
  /\ up
  /\ \E d \in 1..MaxSuspend :
       /\ now + d <= MaxTime
       /\ now' = now + d /\ slept' = slept + d
       /\ wait' \in {wait, IF wait < d THEN 0 ELSE wait - d}
  /\ UNCHANGED <<up, next, pool, beat, since, missed, failed>>

\* The process dies.  Compose restarts it some time later.
Crash ==
  /\ up
  /\ up' = FALSE
  /\ pool' = {}
  /\ next' = [j \in Jobs |-> NULL]
  /\ wait' = 0
  /\ UNCHANGED <<now, beat, history>>

Down ==
  /\ ~up /\ now < MaxTime
  /\ now' = now + 1 /\ slept' = slept + 1
  /\ UNCHANGED <<up, wait, next, pool, beat, since, missed, failed>>

PoolStep == \E i \in pool : Miss(i) \/ Begin(i) \/ End(i)

Next == Boot \/ ProcessJobs \/ PoolStep \/ Tick \/ Suspend \/ Crash \/ Down

Spec == Init /\ [][Next]_vars
-----------------------------------------------------------------------------
TypeOK ==
  /\ now \in Time /\ wait \in Nat /\ up \in BOOLEAN
  /\ next \in [Jobs -> Nat \cup {NULL}]
  /\ pool \subseteq [job : Jobs, fire : Time, running : BOOLEAN]
  /\ beat \in Time \cup {NULL} /\ slept \in Time
  /\ missed \in Nat /\ failed \in 0..MaxFailed
  /\ since \in [Jobs -> {"nothing", "begun", "ended"}]

\* A job never overlaps itself, and a backlog never queues behind a slow run.
NoOverlap == \A i, k \in pool : i.job = k.job => i = k

\* The main thread is asleep and every pool thread has begun.
Settled == up /\ wait > 0 /\ \A i \in pool : i.running

\* Catching up: once the scheduler has started, or has processed the fires of a
\* stall, a job without a misfire grace has a run in progress, or one that ended
\* after that: no start is without a run, and no suspension however long loses one.
CaughtUp ==
  Settled => \A j \in Jobs : Grace[j] = NULL =>
    Running(j) # {} \/ since[j] = "ended"

\* The main thread never sleeps past a heartbeat interval, so that is how long
\* after a wake a missed run can be overlooked.
WakesInTime == wait <= Every[Heartbeat]

\* The age of the heartbeat file has its causes: one interval, one more for each
\* heartbeat that was missed or failed, and the time the process was down or
\* suspended.  What is missed takes a stall: each unit of one makes the heartbeat
\* that is queued and the next one late, and coalescing adds less than an interval.
\* So the healthcheck never finds a scheduler stale that keeps its schedule.
HeartbeatFresh ==
  LET every == Every[Heartbeat]
  IN  /\ beat # NULL => now - beat <= every * (1 + missed + failed) + slept
      /\ missed * (Grace[Heartbeat] + 1) < every + 2 * slept
      /\ /\ Settled /\ Running(Heartbeat) = {}
         /\ every * (missed + failed) + slept <= every * (StaleAfter - 1)
         => Healthy \/ (beat = NULL /\ missed + failed > 0)
=============================================================================
