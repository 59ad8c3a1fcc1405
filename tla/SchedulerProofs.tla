-------------------------- MODULE SchedulerProofs --------------------------
(***************************************************************************)
(* What Scheduler promises, for every set of jobs, period, cron table and  *)
(* grace: no job overlaps itself, no start and no suspension is left       *)
(* without a run, the main thread never oversleeps a heartbeat, and the    *)
(* healthcheck never condemns a scheduler that keeps its schedule.         *)
(*                                                                         *)
(* The last one is the hard one.  Its invariant looks ahead: with no       *)
(* heartbeat in the pool, the file will still be young enough when the     *)
(* main thread wakes and when the next heartbeat is due; and what makes a  *)
(* queued heartbeat, or the next one, late has been paid for by a stall.   *)
(***************************************************************************)
EXTENDS Scheduler, FiniteLemmas, TLAPS

E == Every[Heartbeat]
G == Grace[Heartbeat] + 1

InPool(j) == \E i \in pool : i.job = j

\* The main thread has work, and knows when it has the next.
Awake ==
  /\ up => next[Heartbeat] # NULL /\ next[Heartbeat] <= now + E
  /\ wait <= E
  /\ ~up => pool = {}

\* No more time was slept than has passed.
SleptInTime == slept <= now

\* A job without a grace has run since it was last due, is in the pool, or is about to be.
Owed ==
  up => \A j \in Jobs : Grace[j] = NULL /\ since[j] # "ended" =>
          InPool(j) \/ (wait = 0 /\ Due(j) # {})

\* What the age of the file may come to, and what it takes to miss heartbeats.
Intervals(k) == E * (1 + k)
Allowed      == Intervals(missed + failed) + slept
Lost(k)      == k * G
Spare        == 2 * slept + (E - 1)

\* The age of the heartbeat file, now and as far ahead as the schedule can see: a
\* heartbeat in the pool may still fail.
Young ==
  beat # NULL =>
    /\ now - beat <= Allowed
    /\ up => /\ now + wait - beat <= Allowed + IF InPool(Heartbeat) THEN E ELSE 0
             /\ next[Heartbeat] - beat <= Allowed + IF InPool(Heartbeat) THEN E ELSE 0

\* How late the main thread will wake for the next heartbeat, if more than nothing.
Behind == now + wait - next[Heartbeat]

\* There was a stall for each heartbeat missed, and there is one for a heartbeat that
\* is late in the pool or will be late.
Late ==
  /\ Lost(missed) <= Spare
  /\ up /\ missed # 0 => Lost(missed) + Behind <= Spare
  /\ \A i \in pool : i.job = Heartbeat /\ ~i.running =>
       /\ i.fire <= now
       /\ Lost(missed) + (now - i.fire) <= Spare
       /\ Lost(missed) + (now - i.fire) + Behind <= Spare

\* The first heartbeat is on its way, unless it was missed or failed.
FirstBeat ==
  up /\ beat = NULL /\ missed + failed = 0 =>
    InPool(Heartbeat) \/ (wait = 0 /\ next[Heartbeat] <= now)

IInv == TypeOK /\ SleptInTime /\ NoOverlap /\ Awake /\ Owed /\ Young /\ Late /\ FirstBeat
-----------------------------------------------------------------------------
LEMMA Limits ==
  E \in Nat \ {0} /\ G \in Nat \ {0} /\ Heartbeat \in Jobs
  BY SchedulerAssumption DEF E, G

LEMMA OneMore ==
  ASSUME NEW k \in Nat
  PROVE  /\ Intervals(k) \in Nat /\ Intervals(k + 1) = Intervals(k) + E /\ E <= Intervals(k)
         /\ Lost(k) \in Nat /\ Lost(k + 1) = Lost(k) + G
  <1>1. /\ E * k \in Nat /\ E * (1 + k) = E * k + E /\ E * (1 + (k + 1)) = E * k + E + E
        /\ k * G \in Nat /\ (k + 1) * G = k * G + G
    BY Limits
  <1> QED
    BY <1>1, Limits DEF Intervals, Lost

LEMMA NoneYet == Intervals(0) = E /\ Lost(0) = 0
  BY Limits DEF Intervals, Lost

\* A next run time that has come is due, and what is due is between it and now.
LEMMA DueRange ==
  ASSUME NEW j \in Jobs, now \in Nat, next[j] \in Nat \cup {NULL}
  PROVE  /\ Due(j) \subseteq 0..now
         /\ \A t \in Due(j) : next[j] # NULL /\ next[j] <= t
         /\ Due(j) = {} => next[j] = NULL \/ next[j] > now
  <1>1. Due(j) \subseteq 0..now /\ \A t \in Due(j) : next[j] # NULL /\ next[j] <= t
    BY DEF Due
  <1>2. ASSUME next[j] # NULL, ~(next[j] > now) PROVE next[j] \in Due(j)
    BY <1>2 DEF Due
  <1> QED
    BY <1>1, <1>2

\* Coalescing takes the last fire time that is due ...
LEMMA CoalescedIsLast ==
  ASSUME NEW j \in Jobs, now \in Nat, next[j] \in Nat \cup {NULL}, Due(j) # {}
  PROVE  Coalesced(j) \in Due(j) /\ \A u \in Due(j) : u <= Coalesced(j)
  <1> DEFINE D == Due(j)
  <1>1. D \in SUBSET Nat /\ D # {} /\ \A t \in D : t <= now
    BY DueRange
  <1> HIDE DEF D
  <1>2. PICK m \in D : \A t \in D : t <= m
    BY <1>1, GreatestExists
  <1>3. \A t \in D : t <= (CHOOSE x \in D : \A u \in D : u <= x)
    BY <1>2
  <1>4. (CHOOSE x \in D : \A u \in D : u <= x) \in D
    BY <1>2
  <1> QED
    BY <1>3, <1>4 DEF D, Coalesced

\* ... which with a period is less than a period ago ...
LEMMA CoalescedIsRecent ==
  ASSUME NEW j \in DOMAIN Every, now \in Nat, next[j] \in Nat \cup {NULL}, Due(j) # {}
  PROVE  now - Coalesced(j) < Every[j]
  <1> DEFINE c == Coalesced(j)
             p == Every[j]
  <1>1. j \in Jobs /\ p \in Nat \ {0}
    BY SchedulerAssumption
  <1>2. c \in Due(j) /\ \A u \in Due(j) : u <= c
    BY <1>1, CoalescedIsLast
  <1>3. c \in 0..now /\ next[j] \in Nat /\ next[j] <= c
    BY <1>1, <1>2, DueRange
  <1>4. PICK n \in Nat : c = next[j] + n * p
    <2>1. CASE c = next[j]
      <3>1. c = next[j] + 0 * p
        BY <2>1, <1>1, <1>3
      <3> QED
        BY <3>1
    <2>2. CASE c # next[j]
      BY <1>2, <1>3, <2>2 DEF Due
    <2> QED
      BY <2>1, <2>2
  <1>5. SUFFICES ASSUME p <= now - c PROVE FALSE
    BY <1>1, <1>3
  <1>6. c + p = next[j] + (n + 1) * p
    BY <1>1, <1>3, <1>4
  <1>7. n + 1 <= (n + 1) * p
    <2>1. PICK q \in Nat : p = q + 1
      <3>1. p - 1 \in Nat /\ p = (p - 1) + 1
        BY <1>1
      <3> QED
        BY <3>1
    <2>2. (n + 1) * (q + 1) = (n + 1) * q + (n + 1) /\ (n + 1) * q \in Nat
      OBVIOUS
    <2> QED
      BY <2>1, <2>2
  <1>8. c + p \in 0..now /\ next[j] <= c + p /\ n + 1 \in 0..now
    <2>1. (n + 1) * p \in Int
      BY <1>1
    <2> HIDE DEF c, p
    <2> QED
      BY <2>1, <1>1, <1>3, <1>4, <1>5, <1>6, <1>7
  <1>9. c + p \in Due(j)
    <2> HIDE DEF c, p
    <2>1. \E k \in 0..now : c + p = next[j] + k * p
      BY <1>6, <1>8
    <2>2. next[j] # NULL
      BY <1>3, SchedulerAssumption
    <2> QED
      BY <1>8, <2>1, <2>2 DEF Due, p
  <1> QED
    BY <1>1, <1>2, <1>3, <1>9

\* ... and after it the job is not due again before its time.
LEMMA AfterIsLater ==
  ASSUME NEW j \in Jobs, now \in Nat, next[j] \in Nat \cup {NULL}, Due(j) # {}
  PROVE  LET a == After(j, Coalesced(j))
         IN  /\ a \in Nat \cup {NULL} /\ (a # NULL => a > now)
             /\ j \in DOMAIN Every => a = Coalesced(j) + Every[j]
  <1> DEFINE c == Coalesced(j)
             Later == IF j \in DOMAIN Every THEN {c + Every[j]} ELSE {f \in Cron[j] : f > c}
             a == After(j, c)
  <1>1. c \in Due(j) /\ (\A u \in Due(j) : u <= c) /\ c \in 0..now /\ next[j] # NULL /\ next[j] <= c
    BY CoalescedIsLast, DueRange
  <1>2. a = IF Later = {} THEN NULL ELSE CHOOSE f \in Later : \A g \in Later : f <= g
    BY DEF After
  <1>3. CASE j \in DOMAIN Every
    <2>1. Every[j] \in Nat \ {0} /\ Later = {c + Every[j]} /\ c + Every[j] \in Nat
      BY <1>1, <1>3, SchedulerAssumption
    <2>2. a = c + Every[j]
      <3> HIDE DEF c, a
      <3> QED
        BY <1>2, <2>1
    <2>3. a > now
      BY <1>1, <1>3, <2>1, <2>2, CoalescedIsRecent
    <2> QED
      BY <2>1, <2>2, <2>3
  <1>4. CASE j \notin DOMAIN Every /\ Later # {}
    <2>1. Later \in SUBSET Nat /\ \A f \in Later : f \in Cron[j] /\ f > c
      BY <1>4, SchedulerAssumption
    <2> HIDE DEF Later, a
    <2>2. PICK m \in Later : \A g \in Later : m <= g
      BY <1>4, <2>1, LeastExists
    <2>3. a \in Later
      BY <1>2, <1>4, <2>2
    <2>4. ASSUME a <= now PROVE a \in Due(j)
      <3>1. a \in 0..now /\ a \in Cron[j] /\ next[j] <= a
        BY <1>1, <2>1, <2>3, <2>4
      <3> QED
        BY <1>1, <1>4, <3>1 DEF Due
    <2>5. a \in Nat /\ a > c /\ c \in Nat
      BY <1>1, <2>1, <2>3
    <2>6. a > now
      <3> HIDE DEF c
      <3>1. a \in Due(j) => a <= c
        BY <1>1
      <3> QED
        BY <2>4, <2>5, <3>1
    <2> QED
      BY <1>4, <2>5, <2>6 DEF a, c
  <1>5. CASE j \notin DOMAIN Every /\ Later = {}
    BY <1>2, <1>5
  <1> QED
    BY <1>3, <1>4, <1>5
-----------------------------------------------------------------------------
LEMMA Types ==
  ASSUME TypeOK
  PROVE  /\ now \in Nat /\ wait \in Nat /\ slept \in Nat /\ up \in BOOLEAN
         /\ missed \in Nat /\ failed \in Nat
         /\ \A j \in Jobs : next[j] \in Nat \cup {NULL}
         /\ \A i \in pool : i.job \in Jobs /\ i.fire \in Nat /\ i.running \in BOOLEAN
         /\ beat # NULL => beat \in Nat
  BY SchedulerAssumption DEF TypeOK, Time

\* What is allowed, as numbers.
LEMMA Allowance ==
  ASSUME TypeOK
  PROVE  /\ Allowed \in Nat /\ E <= Allowed /\ Intervals(missed + failed) \in Nat
         /\ Lost(missed) \in Nat /\ Spare \in Nat /\ Allowed = Intervals(missed + failed) + slept
  <1>1. missed + failed \in Nat /\ slept \in Nat
    BY Types
  <1> QED
    BY <1>1, Types, OneMore, Limits DEF Allowed, Spare

\* The main thread goes back to sleep until a time to come, a heartbeat at the latest.
LEMMA ProcessJobsSchedules ==
  ASSUME TypeOK, Awake, ProcessJobs
  PROVE  /\ next' \in [Jobs -> Nat \cup {NULL}]
         /\ \A j \in Jobs : next'[j] # NULL => next'[j] > now
         /\ next'[Heartbeat] # NULL /\ next'[Heartbeat] <= now + E
         /\ wait' \in Nat /\ wait' <= next'[Heartbeat] - now
  <1>1. \A j \in Jobs : next'[j] = IF Due(j) # {} THEN After(j, Coalesced(j)) ELSE next[j]
    BY DEF ProcessJobs
  <1>2. \A j \in Jobs : next'[j] \in Nat \cup {NULL} /\ (next'[j] # NULL => next'[j] > now)
    <2> SUFFICES ASSUME NEW j \in Jobs
                 PROVE  next'[j] \in Nat \cup {NULL} /\ (next'[j] # NULL => next'[j] > now)
      OBVIOUS
    <2>1. CASE Due(j) # {}
      BY <1>1, <2>1, Types, AfterIsLater
    <2>2. CASE Due(j) = {}
      BY <1>1, <2>2, Types, DueRange
    <2> QED
      BY <2>1, <2>2
  <1>3. next' \in [Jobs -> Nat \cup {NULL}]
    <2>1. next' = [j \in Jobs |-> next'[j]]
      BY DEF ProcessJobs
    <2> QED
      BY <1>2, <2>1
  <1>4. next'[Heartbeat] # NULL /\ next'[Heartbeat] <= now + E
    <2>1. next[Heartbeat] # NULL /\ next[Heartbeat] <= now + E
      BY DEF ProcessJobs, Awake
    <2>2. CASE Due(Heartbeat) # {}
      <3>1. Coalesced(Heartbeat) \in Nat /\ Coalesced(Heartbeat) <= now
        BY <2>2, Types, Limits, CoalescedIsLast, DueRange
      <3>2. next'[Heartbeat] = Coalesced(Heartbeat) + E
        BY <1>1, <2>2, Types, Limits, AfterIsLater, SchedulerAssumption DEF E
      <3> QED
        BY <3>1, <3>2, Types, Limits, SchedulerAssumption
    <2>3. CASE Due(Heartbeat) = {}
      BY <1>1, <2>1, <2>3, Limits
    <2> QED
      BY <2>2, <2>3
  <1>5. wait' \in Nat /\ wait' <= next'[Heartbeat] - now
    <2> DEFINE times == {next'[j] : j \in Jobs} \ {NULL}
               first == CHOOSE t \in times : \A u \in times : t <= u
    <2>1. wait' = first - now
      BY DEF ProcessJobs, Sleep
    <2>2. times \in SUBSET Nat /\ next'[Heartbeat] \in times /\ \A t \in times : t > now
      BY <1>2, <1>4, Limits
    <2> HIDE DEF times
    <2>3. PICK m \in times : \A u \in times : m <= u
      BY <2>2, LeastExists
    <2>4. first \in times /\ \A u \in times : first <= u
      BY <2>3
    <2> HIDE DEF first
    <2>5. now \in Nat /\ first \in Nat /\ first > now /\ first <= next'[Heartbeat]
      BY <2>2, <2>4, Types
    <2>6. next'[Heartbeat] \in Nat
      BY <2>2
    <2> QED
      BY <2>1, <2>5, <2>6
  <1> QED
    BY <1>2, <1>3, <1>4, <1>5

\* What is due is then in the pool, submitted for the last of its fire times.
LEMMA ProcessJobsSubmits ==
  ASSUME TypeOK, ProcessJobs
  PROVE  /\ pool \subseteq pool'
         /\ \A i \in pool' \ pool :
              /\ i.job \in Jobs /\ ~i.running /\ i.fire \in 0..now
              /\ Due(i.job) # {} /\ i.fire = Coalesced(i.job)
              /\ \A k \in pool : k.job # i.job
              /\ \A k \in pool' : k.job = i.job => k = i
         /\ \A j \in Jobs : Due(j) # {} => \E i \in pool' : i.job = j
         /\ pool' \subseteq [job : Jobs, fire : Time, running : BOOLEAN]
  <1> DEFINE New == {[job |-> j, fire |-> Coalesced(j), running |-> FALSE] :
                       j \in {k \in Jobs : Due(k) # {} /\ MayRun(k)}}
  <1>1. pool' = pool \cup New
    BY DEF ProcessJobs
  <1>2. \A j \in Jobs : MayRun(j) <=> \A k \in pool : k.job # j
    BY Types DEF MayRun, Running, Queued
  <1>3. ASSUME NEW i \in New
        PROVE  /\ i.job \in Jobs /\ i.running = FALSE
               /\ Due(i.job) # {} /\ i.fire = Coalesced(i.job) /\ MayRun(i.job)
               /\ i = [job |-> i.job, fire |-> Coalesced(i.job), running |-> FALSE]
    <2>1. PICK j \in Jobs : /\ Due(j) # {} /\ MayRun(j)
                           /\ i = [job |-> j, fire |-> Coalesced(j), running |-> FALSE]
      OBVIOUS
    <2> QED
      BY <2>1
  <1>4. \A j \in Jobs : Due(j) # {} => Coalesced(j) \in 0..now /\ Coalesced(j) \in Time
    <2> SUFFICES ASSUME NEW j \in Jobs, Due(j) # {}
                 PROVE  Coalesced(j) \in 0..now /\ Coalesced(j) \in Time
      OBVIOUS
    <2>1. now \in 0..MaxTime
      BY DEF TypeOK, Time
    <2>2. Coalesced(j) \in 0..now
      BY Types, CoalescedIsLast, DueRange
    <2> QED
      BY <2>1, <2>2, SchedulerAssumption DEF Time
  <1>5. \A j \in Jobs : Due(j) # {} /\ MayRun(j) => \E i \in New : i.job = j
    <2> SUFFICES ASSUME NEW j \in Jobs, Due(j) # {}, MayRun(j) PROVE \E i \in New : i.job = j
      OBVIOUS
    <2>1. [job |-> j, fire |-> Coalesced(j), running |-> FALSE] \in New
      OBVIOUS
    <2> QED
      BY <2>1
  <1>6. \A i, k \in New : i.job = k.job => i = k
    BY <1>3
  <1>7. ASSUME NEW i \in New PROVE i \in [job : Jobs, fire : Time, running : BOOLEAN]
    <2>1. PICK j \in Jobs : /\ Coalesced(j) \in Time
                           /\ i = [job |-> j, fire |-> Coalesced(j), running |-> FALSE]
      BY <1>3, <1>4
    <2> QED
      BY <2>1
  <1> HIDE DEF New
  <1>8. pool' \subseteq [job : Jobs, fire : Time, running : BOOLEAN]
    BY <1>1, <1>7 DEF TypeOK
  <1>9. \A j \in Jobs : Due(j) # {} => \E i \in pool' : i.job = j
    BY <1>1, <1>2, <1>5
  <1>10. ASSUME NEW i \in pool' \ pool
         PROVE  /\ i.job \in Jobs /\ ~i.running /\ i.fire \in 0..now
                /\ Due(i.job) # {} /\ i.fire = Coalesced(i.job)
                /\ \A k \in pool : k.job # i.job
                /\ \A k \in pool' : k.job = i.job => k = i
    <2>1. i \in New
      BY <1>1
    <2>2. i.job \in Jobs /\ ~i.running /\ Due(i.job) # {} /\ i.fire = Coalesced(i.job)
      BY <1>3, <2>1
    <2>3. \A k \in pool : k.job # i.job
      BY <1>2, <1>3, <2>1
    <2>4. i.fire \in 0..now
      BY <1>4, <2>2
    <2>5. \A k \in pool' : k.job = i.job => k = i
      BY <1>1, <1>6, <2>1, <2>3
    <2> QED
      BY <2>2, <2>3, <2>4, <2>5
  <1> QED
    BY <1>1, <1>8, <1>9, <1>10
-----------------------------------------------------------------------------
LEMMA InitInv == Init => IInv
  <1> SUFFICES ASSUME Init PROVE IInv
    OBVIOUS
  <1>1. TypeOK /\ SleptInTime
    <2>1. 0 \in Time /\ 0 \in Nat /\ 0 \in 0..MaxFailed
      BY SchedulerAssumption DEF Time
    <2>2. up \in BOOLEAN
      BY Zenon DEF Init
    <2> QED
      BY <2>1, <2>2 DEF Init, TypeOK, SleptInTime
  <1>2. NoOverlap /\ Awake /\ Owed /\ Late /\ FirstBeat
    BY Limits, NoneYet DEF Init, NoOverlap, Awake, Owed, Late, FirstBeat, Spare
  <1>3. Young
    BY Limits, <1>1, Allowance DEF Init, Young
  <1> QED
    BY <1>1, <1>2, <1>3 DEF IInv

LEMMA StutterInv == IInv /\ UNCHANGED vars => IInv'
  <1> SUFFICES ASSUME IInv, UNCHANGED vars PROVE IInv'
    OBVIOUS
  <1> USE DEF IInv, vars, clock, history
  <1>1. TypeOK' /\ SleptInTime' /\ NoOverlap'
    BY DEF TypeOK, SleptInTime, NoOverlap
  <1>2. Awake' /\ Young' /\ Late' /\ FirstBeat'
    BY DEF Awake, Young, Late, FirstBeat, Allowed, Spare, Behind, InPool
  <1>3. Owed'
    BY DEF Owed, InPool, Due
  <1> QED
    BY <1>1, <1>2, <1>3

\* Each action, and who takes it.
LEMMA NextCases ==
  ASSUME Next
  PROVE  \/ Boot \/ ProcessJobs \/ Tick \/ Suspend \/ Crash \/ Down
         \/ \E i \in pool : Miss(i)
         \/ \E i \in pool : Begin(i)
         \/ \E i \in pool : End(i)
  BY DEF Next, PoolStep

LEMMA TypeStep == ASSUME IInv, Next PROVE TypeOK' /\ SleptInTime'
  <1> USE DEF IInv
  <1> USE DEF clock, history
  <1>1. CASE Boot
    <2>1. next' \in [Jobs -> Nat \cup {NULL}] /\ wait' \in Nat /\ up' \in BOOLEAN
      BY <1>1, Types DEF Boot, Registered
    <2>2. since' \in [Jobs -> {"nothing", "begun", "ended"}]
      BY <1>1 DEF Boot
    <2> QED
      BY <1>1, <2>1, <2>2 DEF Boot, TypeOK, SleptInTime
  <1>2. CASE ProcessJobs
    <2>1. since' \in [Jobs -> {"nothing", "begun", "ended"}]
      BY <1>2 DEF ProcessJobs, TypeOK
    <2>2. UNCHANGED <<now, up, beat, slept, missed, failed>>
      BY <1>2 DEF ProcessJobs
    <2> QED
      BY <1>2, <2>1, <2>2, ProcessJobsSchedules, ProcessJobsSubmits DEF TypeOK, SleptInTime
  <1>3. CASE Tick
    <2>1. now' \in Time /\ slept' \in Time /\ slept' <= now' /\ wait' \in Nat
      BY <1>3, SchedulerAssumption DEF Tick, TypeOK, Time, SleptInTime
    <2> QED
      BY <1>3, <2>1 DEF Tick, TypeOK, SleptInTime
  <1>4. CASE Suspend
    <2>1. PICK d \in 1..MaxSuspend : /\ now + d <= MaxTime
                                     /\ now' = now + d /\ slept' = slept + d
                                     /\ wait' \in {wait, IF wait < d THEN 0 ELSE wait - d}
      BY <1>4 DEF Suspend
    <2>2. now' \in Time /\ slept' \in Time /\ slept' <= now' /\ wait' \in Nat
      BY <2>1, SchedulerAssumption DEF TypeOK, Time, SleptInTime
    <2> QED
      BY <1>4, <2>2 DEF Suspend, TypeOK, Time, SleptInTime
  <1>5. CASE Crash
    BY <1>5 DEF Crash, TypeOK, SleptInTime
  <1>6. CASE Down
    <2>1. now' \in Time /\ slept' \in Time /\ slept' <= now' /\ wait' \in Nat
      BY <1>6, SchedulerAssumption DEF Down, TypeOK, Time, SleptInTime
    <2> QED
      BY <1>6, <2>1 DEF Down, TypeOK, SleptInTime
  <1>7. ASSUME NEW i \in pool, Miss(i) PROVE TypeOK' /\ SleptInTime'
    <2>1. missed' \in Nat
      BY <1>7, Types DEF Miss
    <2> QED
      BY <1>7, <2>1 DEF Miss, TypeOK, SleptInTime
  <1>8. ASSUME NEW i \in pool, Begin(i) PROVE TypeOK' /\ SleptInTime'
    <2>1. [i EXCEPT !.running = TRUE] \in [job : Jobs, fire : Time, running : BOOLEAN]
      BY DEF TypeOK
    <2> QED
      BY <1>8, <2>1 DEF Begin, TypeOK, SleptInTime
  <1>9. ASSUME NEW i \in pool, End(i) PROVE TypeOK' /\ SleptInTime'
    <2>1. beat' \in Time \cup {NULL} /\ slept' \in Time /\ slept' <= now
      BY <1>9, SchedulerAssumption DEF End, Touched, TouchFails, TypeOK, Time, SleptInTime
    <2>2. missed' \in Nat /\ failed' \in 0..MaxFailed
      BY <1>9, SchedulerAssumption DEF End, Touched, TouchFails, TypeOK
    <2> QED
      BY <1>9, <2>1, <2>2 DEF End, TypeOK, SleptInTime
  <1> QED
    BY <1>1, <1>2, <1>3, <1>4, <1>5, <1>6, <1>7, <1>8, <1>9, NextCases

\* An instance enters the pool only when its job has none, and Begin keeps its job.
LEMMA OverlapStep == ASSUME IInv, Next PROVE NoOverlap'
  <1> USE DEF IInv, NoOverlap
  <1>1. CASE Boot \/ Tick \/ Suspend \/ Crash \/ Down
    BY <1>1 DEF Boot, Tick, Suspend, Crash, Down
  <1>2. CASE ProcessJobs
    BY <1>2, ProcessJobsSubmits
  <1>3. ASSUME NEW i \in pool, Miss(i) \/ End(i) PROVE NoOverlap'
    BY <1>3 DEF Miss, End
  <1>4. ASSUME NEW i \in pool, Begin(i) PROVE NoOverlap'
    <2>1. [i EXCEPT !.running = TRUE].job = i.job
      BY DEF TypeOK
    <2> QED
      BY <1>4, <2>1 DEF Begin
  <1> QED
    BY <1>1, <1>2, <1>3, <1>4, NextCases

\* The next heartbeat is at most an interval away, so the sleep is no longer.
LEMMA AwakeStep == ASSUME IInv, Next PROVE Awake'
  <1> USE DEF IInv
  <1>1. CASE Boot
    <2>1. next'[Heartbeat] = now /\ now' = now /\ wait' = 0 /\ up'
      BY <1>1, Limits DEF Boot, Registered
    <2> QED
      BY <2>1, Limits, Types, SchedulerAssumption DEF Awake
  <1>2. CASE ProcessJobs
    <2>1. now' = now /\ up' = up /\ up
      BY <1>2 DEF ProcessJobs
    <2>2. wait' <= E
      BY <1>2, ProcessJobsSchedules, Types, Limits, SchedulerAssumption
    <2> QED
      BY <1>2, <2>1, <2>2, ProcessJobsSchedules DEF Awake
  <1>3. CASE Tick
    BY <1>3, Types, Limits DEF Tick, Awake
  <1>4. CASE Suspend
    BY <1>4, Types, Limits DEF Suspend, Awake
  <1>5. CASE Crash \/ Down
    BY <1>5, Limits DEF Crash, Down, Awake
  <1>6. ASSUME NEW i \in pool, Miss(i) \/ Begin(i) \/ End(i) PROVE Awake'
    BY <1>6 DEF Miss, Begin, End, Awake, clock
  <1> QED
    BY <1>1, <1>2, <1>3, <1>4, <1>5, <1>6, NextCases

\* What was due stays due while it waits for the main thread.
LEMMA DueGrows ==
  ASSUME TypeOK, next' = next, now' \in Nat, now <= now'
  PROVE  \A j \in Jobs : Due(j) \subseteq Due(j)'
  <1> SUFFICES ASSUME NEW j \in Jobs, NEW t \in Due(j) PROVE t \in Due(j)'
    OBVIOUS
  <1>1. now \in Nat /\ 0..now \subseteq 0..now'
    BY Types
  <1> QED
    BY <1>1 DEF Due

\* A fire is lost only to a grace, and a job without one has none.
LEMMA OwedStep == ASSUME IInv, Next PROVE Owed'
  <1> USE DEF IInv, Owed, InPool
  <1>1. CASE Boot
    <2> SUFFICES ASSUME NEW j \in Jobs PROVE wait' = 0 /\ Due(j)' # {}
      BY <1>1
    <2>1. next'[j] = now /\ now' = now /\ wait' = 0
      BY <1>1 DEF Boot, Registered
    <2>2. now \in Due(j)'
      BY <2>1, Types, SchedulerAssumption DEF Due
    <2> QED
      BY <2>1, <2>2
  <1>2. CASE ProcessJobs
    <2> SUFFICES ASSUME NEW j \in Jobs, Grace[j] = NULL, since'[j] # "ended"
                 PROVE  \E i \in pool' : i.job = j
      OBVIOUS
    <2>1. CASE Due(j) # {}
      BY <1>2, <2>1, ProcessJobsSubmits
    <2>2. CASE Due(j) = {}
      <3>1. up /\ since'[j] = since[j]
        BY <1>2, <2>2 DEF ProcessJobs
      <3> QED
        BY <1>2, <2>2, <3>1, ProcessJobsSubmits
    <2> QED
      BY <2>1, <2>2
  <1>3. CASE Tick
    BY <1>3, Types DEF Tick, history
  <1>4. CASE Suspend
    <2>1. PICK d \in 1..MaxSuspend : /\ now' = now + d
                                     /\ wait' \in {wait, IF wait < d THEN 0 ELSE wait - d}
      BY <1>4 DEF Suspend
    <2>2. now' \in Nat /\ now <= now' /\ (wait = 0 => wait' = 0)
      BY <2>1, Types, SchedulerAssumption
    <2>3. next' = next /\ since' = since /\ pool' = pool /\ up' = up
      BY <1>4 DEF Suspend
    <2> QED
      BY <2>2, <2>3, DueGrows
  <1>5. CASE Crash \/ Down
    BY <1>5 DEF Crash, Down
  <1>6. ASSUME NEW i \in pool, Miss(i) PROVE Owed'
    <2>1. Grace[i.job] # NULL /\ pool' = pool \ {i} /\ \A j \in Jobs : Due(j)' = Due(j)
            /\ UNCHANGED <<wait, up, since>>
      BY <1>6 DEF Miss, Misfired, clock, Due
    <2> SUFFICES ASSUME up, NEW j \in Jobs, Grace[j] = NULL, since[j] # "ended"
                 PROVE  (\E k \in pool' : k.job = j) \/ (wait = 0 /\ Due(j) # {})
      BY <2>1
    <2>2. InPool(j) \/ (wait = 0 /\ Due(j) # {})
      BY DEF InPool
    <2>3. \A k \in pool : k.job = j => k \in pool'
      BY <2>1
    <2> QED
      BY <2>2, <2>3 DEF InPool
  <1>7. ASSUME NEW i \in pool, Begin(i) PROVE Owed'
    <2> DEFINE k == [i EXCEPT !.running = TRUE]
    <2>1. k.job = i.job /\ i.job \in Jobs
      BY DEF TypeOK
    <2>2. /\ pool' = (pool \ {i}) \cup {k}
          /\ since' = [since EXCEPT ![i.job] = "begun"]
          /\ UNCHANGED <<wait, up>> /\ \A j \in Jobs : Due(j)' = Due(j)
      BY <1>7 DEF Begin, clock, Due
    <2> HIDE DEF k
    <2>3. \A j \in Jobs : (\E m \in pool : m.job = j) => \E m \in pool' : m.job = j
      BY <2>1, <2>2
    <2>4. \A j \in Jobs : j # i.job => since'[j] = since[j]
      BY <2>2 DEF TypeOK
    <2>5. \E m \in pool' : m.job = i.job
      BY <2>1, <2>2
    <2> QED
      BY <2>2, <2>3, <2>4, <2>5
  <1>8. ASSUME NEW i \in pool, End(i) PROVE Owed'
    BY <1>8, Types DEF End, clock, Due, TypeOK
  <1> QED
    BY <1>1, <1>2, <1>3, <1>4, <1>5, <1>6, <1>7, <1>8, NextCases
-----------------------------------------------------------------------------
\* An instance that leaves the pool, or begins, leaves the others there.
LEMMA PoolKeeps ==
  ASSUME TypeOK, NEW i \in pool, Miss(i) \/ Begin(i) \/ End(i)
  PROVE  /\ UNCHANGED <<now, wait, up, next>>
         /\ \A k \in pool' : ~k.running => k \in pool
         /\ i.job # Heartbeat \/ Begin(i) => (InPool(Heartbeat)' <=> InPool(Heartbeat))
  <1>1. [i EXCEPT !.running = TRUE].job = i.job /\ [i EXCEPT !.running = TRUE].running
    BY DEF TypeOK
  <1>2. CASE Begin(i)
    BY <1>1, <1>2 DEF Begin, InPool, clock
  <1>3. CASE Miss(i) \/ End(i)
    <2>1. pool' = pool \ {i}
      BY <1>3 DEF Miss, End
    <2>2. i.job # Heartbeat => (InPool(Heartbeat)' <=> InPool(Heartbeat))
      BY <2>1 DEF InPool
    <2>3. Begin(i) => (InPool(Heartbeat)' <=> InPool(Heartbeat))
      BY <1>2, <1>1 DEF Begin, InPool
    <2> QED
      BY <1>3, <2>1, <2>2, <2>3 DEF Miss, End, clock
  <1> QED
    BY <1>2, <1>3

\* What a step of an instance does to the history.
LEMMA PoolCounts ==
  ASSUME TypeOK, NEW i \in pool, Miss(i) \/ Begin(i) \/ End(i)
  PROVE  \/ UNCHANGED <<beat, slept, missed, failed>> /\ (i.job # Heartbeat \/ Begin(i))
         \/ /\ i.job = Heartbeat /\ Miss(i)
            /\ missed' = missed + 1 /\ UNCHANGED <<beat, slept, failed>>
         \/ /\ i.job = Heartbeat /\ End(i)
            /\ beat' = now /\ slept' = 0 /\ missed' = 0 /\ failed' = 0
         \/ /\ i.job = Heartbeat /\ End(i)
            /\ failed' = failed + 1 /\ UNCHANGED <<beat, slept, missed>>
  BY DEF Miss, Begin, End, Touched, TouchFails

LEMMA YoungStep == ASSUME IInv, Next PROVE Young'
  <1> USE DEF IInv
  <1> USE Types, Limits, SchedulerAssumption
  <1>0. TypeOK' /\ Allowed \in Nat /\ E <= Allowed
    BY TypeStep, Allowance
  <1>1. CASE Boot
    <2>1. /\ UNCHANGED <<now, beat, slept, missed, failed>>
          /\ wait' = 0 /\ next'[Heartbeat] = now
      BY <1>1 DEF Boot, Registered
    <2>2. Allowed' = Allowed
      BY <2>1 DEF Allowed
    <2> QED
      BY <1>0, <2>1, <2>2 DEF Young
  <1>2. CASE ProcessJobs
    <2>1. UNCHANGED <<now, beat, slept, missed, failed>> /\ up /\ wait = 0
      BY <1>2 DEF ProcessJobs
    <2>2. Allowed' = Allowed
      BY <2>1 DEF Allowed
    <2>3. wait' \in Nat /\ wait' <= next'[Heartbeat] - now /\ next'[Heartbeat] \in Nat
            /\ next'[Heartbeat] <= now + E
      BY <1>2, ProcessJobsSchedules
    <2>4. ASSUME ~InPool(Heartbeat)'
          PROVE  ~InPool(Heartbeat) /\ next'[Heartbeat] = next[Heartbeat]
      <3>1. ~InPool(Heartbeat) /\ Due(Heartbeat) = {}
        BY <1>2, <2>4, ProcessJobsSubmits DEF InPool
      <3>2. next'[Heartbeat] = next[Heartbeat]
        BY <1>2, <3>1 DEF ProcessJobs
      <3> QED
        BY <3>1, <3>2
    <2> QED
      BY <1>0, <2>1, <2>2, <2>3, <2>4 DEF Young
  <1>3. CASE Tick
    <2>1. up /\ ~InPool(Heartbeat) /\ (InPool(Heartbeat)' <=> InPool(Heartbeat))
      BY <1>3 DEF Tick, InPool
    <2>2. next[Heartbeat] \in Nat /\ wait > 0
      BY <1>3, <2>1 DEF Awake, Tick
    <2>3. Allowed' = Allowed
      BY <1>3 DEF Tick, history, Allowed
    <2> QED
      BY <1>0, <1>3, <2>1, <2>2, <2>3 DEF Tick, Young, history
  <1>4. CASE Suspend
    <2>1. PICK d \in 1..MaxSuspend : /\ now' = now + d /\ slept' = slept + d
                                     /\ wait' \in {wait, IF wait < d THEN 0 ELSE wait - d}
      BY <1>4 DEF Suspend
    <2>2. up /\ UNCHANGED <<up, next, beat, missed, failed>>
            /\ (InPool(Heartbeat)' <=> InPool(Heartbeat))
      BY <1>4 DEF Suspend, InPool
    <2>3. wait' \in Nat /\ wait' <= wait /\ next[Heartbeat] \in Nat
      BY <2>1, <2>2 DEF Awake
    <2>4. Allowed' = Allowed + d
      BY <2>1, <2>2, Allowance DEF Allowed
    <2> QED
      BY <1>0, <2>1, <2>2, <2>3, <2>4 DEF Young
  <1>5. CASE Crash
    <2>1. UNCHANGED <<now, beat, slept, missed, failed>> /\ ~up'
      BY <1>5 DEF Crash, history
    <2>2. Allowed' = Allowed
      BY <2>1 DEF Allowed
    <2> QED
      BY <2>1, <2>2 DEF Young
  <1>6. CASE Down
    <2>1. UNCHANGED <<beat, missed, failed>> /\ ~up' /\ now' = now + 1 /\ slept' = slept + 1
      BY <1>6 DEF Down
    <2>2. Allowed' = Allowed + 1
      BY <2>1, Allowance DEF Allowed
    <2> QED
      BY <1>0, <2>1, <2>2 DEF Young
  <1>7. ASSUME NEW i \in pool, Miss(i) \/ Begin(i) \/ End(i) PROVE Young'
    <2>1. UNCHANGED <<now, wait, up, next>>
      BY <1>7, PoolKeeps
    <2>2. up /\ next[Heartbeat] \in Nat /\ wait <= E /\ next[Heartbeat] <= now + E
      BY DEF Awake
    <2>3. CASE UNCHANGED <<beat, slept, missed, failed>> /\ (i.job # Heartbeat \/ Begin(i))
      <3>1. Allowed' = Allowed /\ (InPool(Heartbeat)' <=> InPool(Heartbeat))
        BY <1>7, <2>3, PoolKeeps DEF Allowed
      <3> QED
        BY <2>1, <2>3, <3>1 DEF Young
    <2>4. CASE /\ i.job = Heartbeat /\ UNCHANGED <<beat, slept>>
               /\ missed' + failed' = (missed + failed) + 1
      <3>1. Allowed' = Allowed + E
        BY <2>4, OneMore DEF Allowed
      <3>2. InPool(Heartbeat)
        BY <2>4 DEF InPool
      <3> QED
        BY <1>0, <2>1, <2>2, <2>4, <3>1, <3>2 DEF Young
    <2>5. CASE beat' = now /\ slept' = 0 /\ missed' + failed' = 0
      <3>1. Allowed' = E
        BY <2>5, NoneYet DEF Allowed
      <3> QED
        BY <2>1, <2>2, <2>5, <3>1 DEF Young
    <2> QED
      BY <1>7, <2>3, <2>4, <2>5, PoolCounts
  <1> QED
    BY <1>1, <1>2, <1>3, <1>4, <1>5, <1>6, <1>7, NextCases

LEMMA LateStep == ASSUME IInv, Next PROVE Late'
  <1> USE DEF IInv
  <1> USE Types, Limits, SchedulerAssumption
  <1>0. Lost(missed) \in Nat /\ Spare \in Nat
    BY Allowance
  <1>1. CASE Boot \/ Crash
    <2>1. pool' = {} /\ missed' = missed /\ Spare' = Spare
      BY <1>1 DEF Boot, Crash, Awake, history, Spare
    <2>2. up' => Behind' = 0
      BY <1>1 DEF Boot, Crash, Registered, Behind
    <2> QED
      BY <1>0, <2>1, <2>2 DEF Late
  <1>2. CASE ProcessJobs
    <2>1. UNCHANGED <<now, slept, missed>> /\ up /\ wait = 0 /\ Spare' = Spare
      BY <1>2 DEF ProcessJobs, Spare
    <2>2. Behind' \in Int /\ Behind' <= 0
      BY <1>2, <2>1, ProcessJobsSchedules DEF Behind
    <2>3. ASSUME NEW i \in pool' \ pool, i.job = Heartbeat
          PROVE  i.fire <= now /\ Lost(missed) + (now - i.fire) <= Spare
      <3>1. i.fire \in 0..now /\ Due(Heartbeat) # {} /\ i.fire = Coalesced(Heartbeat)
        BY <1>2, <2>3, ProcessJobsSubmits
      <3>2. now - i.fire < E
        BY <3>1, CoalescedIsRecent DEF E
      <3>3. CASE missed = 0
        BY <3>1, <3>2, <3>3, NoneYet DEF Spare
      <3>4. CASE missed # 0
        <4>1. next[Heartbeat] \in Nat /\ next[Heartbeat] <= i.fire
          BY <3>1, DueRange, CoalescedIsLast
        <4>2. now - i.fire <= Behind
          BY <2>1, <3>1, <4>1 DEF Behind
        <4>3. Behind \in Int
          BY <2>1, <4>1 DEF Behind
        <4> QED
          BY <1>0, <2>1, <3>1, <3>4, <4>2, <4>3 DEF Late
      <3> QED
        BY <3>3, <3>4
    <2>4. ASSUME NEW i \in pool', i.job = Heartbeat, ~i.running
          PROVE  i.fire \in Nat /\ i.fire <= now /\ Lost(missed) + (now - i.fire) <= Spare
      <3>1. TypeOK'
        BY TypeStep
      <3>2. i.fire \in Nat
        BY <3>1 DEF TypeOK, Time
      <3> QED
        BY <2>3, <2>4, <3>2 DEF Late
    <2> QED
      BY <1>0, <2>1, <2>2, <2>4 DEF Late
  <1>3. CASE Tick
    <2>1. up /\ UNCHANGED <<slept, missed, up, next>> /\ Spare' = Spare
      BY <1>3 DEF Tick, history, Spare
    <2>2. next[Heartbeat] \in Nat /\ Behind' = Behind
      BY <1>3, <2>1 DEF Awake, Tick, Behind
    <2>3. \A i \in pool' : i.running
      BY <1>3 DEF Tick
    <2> QED
      BY <2>1, <2>2, <2>3 DEF Late
  <1>4. CASE Suspend
    <2>1. PICK d \in 1..MaxSuspend : /\ now' = now + d /\ slept' = slept + d
                                     /\ wait' \in {wait, IF wait < d THEN 0 ELSE wait - d}
      BY <1>4 DEF Suspend
    <2>2. up /\ UNCHANGED <<up, next, pool, missed>>
      BY <1>4 DEF Suspend
    <2>3. Spare' = Spare + 2 * d
      BY <2>1 DEF Spare
    <2>4. Behind \in Int /\ Behind' \in Int /\ Behind' <= Behind + d
      BY <2>1, <2>2 DEF Awake, Behind
    <2>5. ASSUME NEW i \in pool, i.job = Heartbeat, ~i.running
          PROVE  /\ i.fire <= now'
                 /\ Lost(missed) + (now' - i.fire) <= Spare'
                 /\ Lost(missed) + (now' - i.fire) + Behind' <= Spare'
      <3>1. /\ i.fire <= now /\ Lost(missed) + (now - i.fire) <= Spare
            /\ Lost(missed) + (now - i.fire) + Behind <= Spare
        BY <2>5 DEF Late
      <3> QED
        BY <1>0, <2>1, <2>3, <2>4, <3>1
    <2> QED
      BY <1>0, <2>1, <2>2, <2>3, <2>4, <2>5 DEF Late
  <1>5. CASE Down
    <2>1. pool' = {} /\ ~up' /\ missed' = missed /\ Spare' = Spare + 2
      BY <1>5 DEF Down, Awake, Spare
    <2> QED
      BY <1>0, <2>1 DEF Late
  <1>6. ASSUME NEW i \in pool, Miss(i) \/ Begin(i) \/ End(i) PROVE Late'
    <2>1. UNCHANGED <<now, wait, up, next>> /\ Behind' = Behind
      BY <1>6, PoolKeeps DEF Behind
    <2>2. \A k \in pool' : ~k.running => k \in pool
      BY <1>6, PoolKeeps
    <2>3. up /\ Behind \in Int
      BY DEF Awake, Behind
    <2>4. CASE UNCHANGED <<slept, missed>> /\ (i.job # Heartbeat \/ Begin(i) \/ End(i))
      <3>1. Spare' = Spare
        BY <2>4 DEF Spare
      <3> QED
        BY <2>1, <2>2, <2>4, <3>1 DEF Late
    <2>5. CASE i.job = Heartbeat /\ (Miss(i) \/ End(i))
      <3>1. pool' = pool \ {i}
        BY <2>5 DEF Miss, End
      <3>2. \A k \in pool' : k.job # Heartbeat
        BY <2>5, <3>1 DEF NoOverlap
      <3>3. CASE Miss(i) /\ missed' = missed + 1 /\ slept' = slept
        <4>1. Lost(missed') = Lost(missed) + G /\ Spare' = Spare
          BY <3>3, OneMore DEF Spare
        <4>2. G <= now - i.fire
          BY <2>5, <3>3 DEF Miss, Misfired, G
        <4>3. /\ Lost(missed) + (now - i.fire) <= Spare
              /\ Lost(missed) + (now - i.fire) + Behind <= Spare
          BY <2>5, <3>3 DEF Miss, Late
        <4> QED
          BY <1>0, <2>1, <2>3, <3>2, <4>1, <4>2, <4>3 DEF Late
      <3>4. CASE missed' = 0 /\ slept' = 0
        <4>1. Lost(missed') = 0 /\ Spare' \in Nat
          BY <3>4, NoneYet DEF Spare
        <4> QED
          BY <3>2, <3>4, <4>1 DEF Late
      <3>5. CASE UNCHANGED <<slept, missed>>
        <4>1. Spare' = Spare
          BY <3>5 DEF Spare
        <4> QED
          BY <2>1, <2>2, <3>5, <4>1 DEF Late
      <3> QED
        BY <1>6, <3>3, <3>4, <3>5, PoolCounts
    <2> QED
      BY <1>6, <2>4, <2>5, PoolCounts
  <1> QED
    BY <1>1, <1>2, <1>3, <1>4, <1>5, <1>6, NextCases

LEMMA FirstBeatStep == ASSUME IInv, Next PROVE FirstBeat'
  <1> USE DEF IInv
  <1> USE Types, Limits, SchedulerAssumption
  <1>1. CASE Boot
    BY <1>1 DEF Boot, Registered, FirstBeat
  <1>2. CASE ProcessJobs
    <2>1. up /\ UNCHANGED <<now, beat, missed, failed>> /\ pool \subseteq pool'
      BY <1>2, ProcessJobsSubmits DEF ProcessJobs
    <2>2. ASSUME next[Heartbeat] <= now PROVE InPool(Heartbeat)'
      <3>1. Due(Heartbeat) # {}
        BY <2>1, <2>2, DueRange DEF Awake
      <3> QED
        BY <1>2, <3>1, ProcessJobsSubmits DEF InPool
    <2> QED
      BY <2>1, <2>2 DEF FirstBeat, InPool
  <1>3. CASE Tick
    BY <1>3 DEF Tick, FirstBeat, InPool, history
  <1>4. CASE Suspend
    <2>1. PICK d \in 1..MaxSuspend : /\ now' = now + d
                                     /\ wait' \in {wait, IF wait < d THEN 0 ELSE wait - d}
      BY <1>4 DEF Suspend
    <2>2. next[Heartbeat] \in Nat /\ UNCHANGED <<up, next, pool, beat, missed, failed>>
      BY <1>4 DEF Suspend, Awake
    <2> QED
      BY <2>1, <2>2 DEF FirstBeat, InPool
  <1>5. CASE Crash \/ Down
    BY <1>5 DEF Crash, Down, FirstBeat
  <1>6. ASSUME NEW i \in pool, Miss(i) \/ Begin(i) \/ End(i) PROVE FirstBeat'
    <2>1. UNCHANGED <<now, wait, up, next>>
      BY <1>6, PoolKeeps
    <2>2. CASE UNCHANGED <<beat, slept, missed, failed>> /\ (i.job # Heartbeat \/ Begin(i))
      BY <1>6, <2>1, <2>2, PoolKeeps DEF FirstBeat
    <2>3. CASE beat' = now \/ missed' + failed' = missed + failed + 1
      BY <2>3 DEF FirstBeat
    <2> QED
      BY <1>6, <2>2, <2>3, PoolCounts
  <1> QED
    BY <1>1, <1>2, <1>3, <1>4, <1>5, <1>6, NextCases
-----------------------------------------------------------------------------
THEOREM Invariant == Spec => []IInv
  <1>1. IInv /\ [Next]_vars => IInv'
    <2> SUFFICES ASSUME IInv, [Next]_vars PROVE IInv'
      OBVIOUS
    <2>1. CASE Next
      BY <2>1, TypeStep, OverlapStep, AwakeStep, OwedStep, YoungStep, LateStep, FirstBeatStep
         DEF IInv
    <2>2. CASE UNCHANGED vars
      BY <2>2, StutterInv
    <2> QED
      BY <2>1, <2>2
  <1> QED
    BY <1>1, InitInv, PTL DEF Spec

\* Every variable stays in its type: next fire times are known while there is a job to wake for.
THEOREM TypeCorrect == Spec => []TypeOK
  <1>1. IInv => TypeOK
    BY DEF IInv
  <1> QED
    BY <1>1, Invariant, PTL

\* max_instances and coalesce: a job never overlaps itself, and no backlog queues behind it.
THEOREM OneInstance == Spec => []NoOverlap
  <1>1. IInv => NoOverlap
    BY DEF IInv
  <1> QED
    BY <1>1, Invariant, PTL

\* No start, and no suspension however long, leaves a job without a grace without a run.
THEOREM NothingIsMissed == Spec => []CaughtUp
  <1>1. IInv => CaughtUp
    BY DEF IInv, Owed, CaughtUp, Settled, InPool, Running, TypeOK
  <1> QED
    BY <1>1, Invariant, PTL

\* The main thread looks at the clock at least once in every heartbeat interval.
THEOREM WakesOften == Spec => []WakesInTime
  <1>1. IInv => WakesInTime
    BY DEF IInv, Awake, WakesInTime, E
  <1> QED
    BY <1>1, Invariant, PTL

\* The heartbeat file is as old as heartbeats were missed or failed and time was lost, no
\* heartbeat is missed without a stall, and the healthcheck condemns no other scheduler:
\* whatever the interval, the grace and the stale limit are.
THEOREM HealthIsFair == Spec => []HeartbeatFresh
  <1> DEFINE k == missed + failed
  <1>1. ASSUME IInv
        PROVE  /\ k \in Nat /\ (beat # NULL => now - beat <= Every[Heartbeat] * (1 + k) + slept)
               /\ missed * (Grace[Heartbeat] + 1) < Every[Heartbeat] + 2 * slept
    <2>1. TypeOK
      BY <1>1 DEF IInv
    <2>2. beat # NULL => now - beat <= Every[Heartbeat] * (1 + k) + slept
      BY <1>1 DEF IInv, Young, Allowed, Intervals, E
    <2>3. Lost(missed) <= 2 * slept + (E - 1) /\ Lost(missed) \in Nat /\ slept \in Nat
      BY <1>1, <2>1, Types, Allowance DEF IInv, Late, Spare
    <2>4. Lost(missed) < E + 2 * slept
      BY <2>3, Limits
    <2> QED
      BY <2>1, <2>2, <2>4, Types DEF Lost, E, G
  <1>2. ASSUME IInv, Settled, Running(Heartbeat) = {},
               Every[Heartbeat] * k + slept <= Every[Heartbeat] * (StaleAfter - 1)
        PROVE  Healthy \/ (beat = NULL /\ k > 0)
    <2>1. ~InPool(Heartbeat) /\ up /\ wait > 0 /\ TypeOK
      BY <1>2 DEF Settled, Running, InPool, IInv
    <2>2. CASE beat = NULL
      BY <1>1, <1>2, <2>1, <2>2, Types DEF IInv, FirstBeat
    <2>3. CASE beat # NULL
      <3>1. k \in Nat /\ now - beat <= E * (1 + k) + slept /\ slept \in Nat /\ now - beat \in Int
        BY <1>1, <1>2, <2>1, <2>3, Types DEF E
      <3>2. E * k + slept <= E * (StaleAfter - 1)
        BY <1>2 DEF E
      <3> HIDE DEF k
      <3>3. /\ E * (1 + k) = E * k + E /\ E * k \in Nat
            /\ E * StaleAfter = E * (StaleAfter - 1) + E /\ E * (StaleAfter - 1) \in Nat
        <4>1. E \in Nat /\ StaleAfter - 1 \in Nat /\ StaleAfter = (StaleAfter - 1) + 1
          BY Limits, SchedulerAssumption
        <4>2. \A e, n \in Nat : e * (n + 1) = e * n + e /\ e * (1 + n) = e * n + e /\ e * n \in Nat
          OBVIOUS
        <4> QED
          BY <3>1, <4>1, <4>2
      <3>4. now - beat <= E * StaleAfter
        BY <3>1, <3>2, <3>3, Limits
      <3> QED
        BY <2>3, <3>4 DEF Healthy, E
    <2> QED
      BY <2>2, <2>3
  <1>3. ASSUME IInv PROVE HeartbeatFresh
    <2>1. 1 + missed + failed = 1 + k
      BY <1>3, Types DEF IInv
    <2> QED
      BY <1>1, <1>2, <1>3, <2>1 DEF HeartbeatFresh
  <1> QED
    BY <1>3, Invariant, PTL
=============================================================================
