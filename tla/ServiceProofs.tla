--------------------------- MODULE ServiceProofs ---------------------------
(* What TLAPS proves of the service, for every set of jobs, pool and        *)
(* environment, and for any number of faults.                              *)
EXTENDS Service, FiniteLemmas

Early == {"down", "settings", "probe", "schema", "build"}

\* There is no pool before scheduler.start() and none after the process.
NoPoolYet ==
  /\ phase \in Early => jobs = {}
  /\ phase \in Early \cup {"start"} => queued = {} /\ worker = Idle /\ hung = {}

\* What each step of the startup leaves behind for the ones after it.
Prepared ==
  /\ phase \notin {"down", "settings"} => Valid(env)
  /\ phase \in {"build", "start", "serve", "exit"} => schema
  /\ phase \in {"start", "serve", "exit"} => Buildable(env)

\* Only what build_scheduler registered is ever due, submitted or called.
OnlyRegistered == jobs \cup Unfinished \subseteq Registered(env)

\* Only a signal takes the main thread to its wait for the pool.
ExitIsSignalled == phase = "exit" => signals >= 1

IInv ==
  TypeOK /\ NoPoolYet /\ Prepared /\ OnlyRegistered /\ OneThreadPerJob
         /\ ExitIsSignalled /\ StopFinishesPasses

LEMMA RegisteredType == ASSUME NEW e \in Environments PROVE Registered(e) \subseteq Jobs
  BY ServiceAssumption DEF Registered

\* An empty pool has nothing to finish.
LEMMA IdleIsDone ==
  ASSUME queued = {}, worker = Idle
  PROVE  Unfinished = {} /\ \A j \in Jobs : Busy(j) = {}
  BY ServiceAssumption DEF Unfinished, Busy, Idle

LEMMA EarlyIsDone ==
  ASSUME IInv, phase \in Early \cup {"start"}
  PROVE  Unfinished = {} /\ \A j \in Jobs : Busy(j) = {}
  BY IdleIsDone DEF IInv, NoPoolYet

LEMMA InitInv == Init => IInv
  <1> SUFFICES ASSUME Init PROVE IInv
    OBVIOUS
  <1>1. Unfinished = {} /\ \A j \in Jobs : Busy(j) = {}
    BY IdleIsDone DEF Init
  <1>2. TypeOK
    <2>1. stopped \in BOOLEAN /\ db \in BOOLEAN /\ schema \in BOOLEAN
      BY Zenon DEF Init
    <2>2. worker \in [Workers -> Jobs \cup {NULL}]
      BY DEF Init, Idle
    <2>3. attempt \in 1..MaxAttempts /\ faults \in 0..MaxFaults /\ signals \in Nat
      BY ServiceAssumption DEF Init
    <2> QED
      BY <2>1, <2>2, <2>3 DEF Init, TypeOK
  <1>3. NoPoolYet /\ Prepared /\ ExitIsSignalled /\ StopFinishesPasses
    BY DEF Init, NoPoolYet, Prepared, ExitIsSignalled, StopFinishesPasses, Early
  <1>4. OnlyRegistered /\ OneThreadPerJob
    BY <1>1 DEF Init, OnlyRegistered, OneThreadPerJob
  <1> QED
    BY <1>2, <1>3, <1>4 DEF IInv

\* A process may end at any time and in any way, as long as one signal alone
\* does not cut a pass off.
LEMMA EndInv ==
  ASSUME IInv,
         NEW how \in {"none", "zero", "error", "signal", "killed", "crashed"}, End(how),
         env' = env, stopped' \in BOOLEAN, db' \in BOOLEAN, schema' \in BOOLEAN,
         signals' \in Nat, faults' \in 0..MaxFaults,
         how \in {"zero", "error"} /\ signals' <= 1 => Unfinished = {}
  PROVE  IInv'
  <1> USE DEF End
  <1>1. Unfinished \subseteq Jobs
    BY DEF IInv, TypeOK, Unfinished
  <1>2. TypeOK'
    BY <1>1, ServiceAssumption DEF IInv, TypeOK, Idle
  <1>3. (Unfinished = {} /\ \A j \in Jobs : Busy(j) = {})'
    BY ServiceAssumption DEF Unfinished, Busy, Idle
  <1>4. NoPoolYet' /\ Prepared' /\ ExitIsSignalled'
    BY DEF NoPoolYet, Prepared, ExitIsSignalled, Idle
  <1>5. StopFinishesPasses'
    BY DEF StopFinishesPasses
  <1>6. OnlyRegistered' /\ OneThreadPerJob'
    BY <1>3 DEF OnlyRegistered, OneThreadPerJob
  <1> QED
    BY <1>2, <1>4, <1>5, <1>6 DEF IInv

\* Before the pool there is nothing to cut off, however the process ends.
LEMMA FailInv == ASSUME IInv, phase \in Early \cup {"start"}, Fail PROVE IInv'
  BY EarlyIsDone, EndInv DEF Fail, IInv, TypeOK, container, database

\* A step of the main thread before the pool exists.
LEMMA StartupInv == ASSUME IInv, Startup PROVE IInv'
  <1>1. ASSUME phase \in Early \cup {"start"}, UNCHANGED <<container, db, pool>>,
               schema' \in BOOLEAN, schema => schema',
               phase' \in {"settings", "probe", "schema", "build", "start", "serve"},
               attempt' \in 1..MaxAttempts, faults' = faults,
               jobs' \subseteq Registered(env), phase' \in Early => jobs' = {},
               signals' \in Nat, exit' \in {"none", exit}, cut' \subseteq Jobs,
               phase' # "settings" => Valid(env),
               phase' \in {"build", "start", "serve"} => schema',
               phase' \in {"start", "serve"} => Buildable(env),
               phase' # "serve" => phase' \in Early \cup {"start"}
        PROVE  IInv'
    <2>1. jobs' \subseteq Jobs
      BY <1>1, RegisteredType DEF IInv, TypeOK
    <2>2. Unfinished = {} /\ \A j \in Jobs : Busy(j) = {}
      BY <1>1, EarlyIsDone
    <2>3. (Unfinished = {} /\ \A j \in Jobs : Busy(j) = {})'
      BY <1>1, <2>2 DEF Unfinished, Busy, pool
    <2>4. TypeOK'
      BY <1>1, <2>1 DEF IInv, TypeOK, container, pool
    <2>5. NoPoolYet'
      BY <1>1 DEF IInv, NoPoolYet, pool, Idle
    <2>6. Prepared' /\ ExitIsSignalled' /\ StopFinishesPasses'
      BY <1>1 DEF Prepared, ExitIsSignalled, StopFinishesPasses, container
    <2>7. OnlyRegistered' /\ OneThreadPerJob'
      BY <1>1, <2>3 DEF OnlyRegistered, OneThreadPerJob, container
    <2> QED
      BY <2>4, <2>5, <2>6, <2>7 DEF IInv
  <1> USE DEF IInv, TypeOK, NoPoolYet, Prepared, Early, container, database, pool, ending
  <1>2. CASE Boot
    BY <1>1, <1>2 DEF Boot
  <1>3. CASE LoadSettings
    BY <1>1, <1>3, FailInv DEF LoadSettings
  <1>4. CASE WaitForDb
    <2>1. attempt < MaxAttempts => attempt + 1 \in 1..MaxAttempts
      BY ServiceAssumption
    <2>2. 1 \in 1..MaxAttempts
      BY ServiceAssumption
    <2> QED
      BY <1>1, <1>4, <2>1, <2>2, FailInv DEF WaitForDb, AfterDb, TriesLeft
  <1>5. CASE InitSchema
    BY <1>1, <1>5 DEF InitSchema
  <1>6. CASE InitSchemaFails
    <2>1. CASE Fail
      BY <1>6, <2>1, FailInv DEF InitSchemaFails
    <2>2. CASE Fault /\ schema' \in {schema, TRUE} /\ End("error")
               /\ UNCHANGED <<container, db, signals>>
      <3>1. faults' \in 0..MaxFaults
        BY <2>2, ServiceAssumption DEF Fault
      <3>2. Unfinished = {}
        BY <1>6, EarlyIsDone DEF InitSchemaFails
      <3> QED
        BY <2>2, <3>1, <3>2, EndInv
    <2> QED
      BY <1>6, <2>1, <2>2 DEF InitSchemaFails
  <1>7. CASE Build
    <2>1. CASE Buildable(env)
      <3>1. jobs' = Registered(env) /\ phase' = "start" /\ phase = "build"
            /\ UNCHANGED <<container, database, attempt, pool, ending, faults>>
        BY <1>7, <2>1 DEF Build
      <3> QED
        BY <1>1, <2>1, <3>1
    <2> QED
      BY <1>7, <2>1, FailInv DEF Build
  <1>8. CASE Start
    <2>1. jobs \subseteq Registered(env)
      BY DEF OnlyRegistered
    <2> QED
      BY <1>1, <1>8, <2>1 DEF Start
  <1> QED
    BY <1>2, <1>3, <1>4, <1>5, <1>6, <1>7, <1>8 DEF Startup

\* The scheduler submits a job of which no call is under way.
LEMMA FireInv == ASSUME IInv, NEW j \in Jobs, Fire(j) PROVE IInv'
  <1> USE DEF Fire, MayRun
  <1>1. phase = "serve" /\ j \in jobs /\ Busy(j) = {} /\ worker' = worker
        /\ env' = env /\ jobs' \subseteq jobs /\ queued' = queued \cup {j}
    BY DEF container
  <1>2. TypeOK'
    BY <1>1 DEF IInv, TypeOK, container, database, ending
  <1>3. NoPoolYet' /\ Prepared' /\ ExitIsSignalled' /\ StopFinishesPasses'
    BY DEF IInv, NoPoolYet, Prepared, ExitIsSignalled, StopFinishesPasses, Early,
           container, database, ending
  <1>4. \A k \in Jobs : Busy(k)' = Busy(k)
    BY <1>1 DEF Busy
  <1>5. OnlyRegistered'
    BY <1>1, <1>4 DEF IInv, OnlyRegistered, Unfinished, Registered
  <1>6. OneThreadPerJob'
    BY <1>1, <1>4 DEF IInv, OneThreadPerJob
  <1> QED
    BY <1>2, <1>3, <1>5, <1>6 DEF IInv

\* A thread takes a job from the queue, which no other thread is in.
LEMMA BeginInv == ASSUME IInv, NEW j \in Jobs, Begin(j) PROVE IInv'
  <1> USE DEF Begin
  <1>1. PICK w \in Workers : worker[w] = NULL /\ worker' = [worker EXCEPT ![w] = j]
    OBVIOUS
  <1>2. worker \in [Workers -> Jobs \cup {NULL}]
    BY DEF IInv, TypeOK
  <1>3. TypeOK'
    BY <1>1 DEF IInv, TypeOK, container, database, ending
  <1>4. NoPoolYet' /\ Prepared' /\ ExitIsSignalled' /\ StopFinishesPasses'
    BY DEF IInv, NoPoolYet, Prepared, ExitIsSignalled, StopFinishesPasses, Early,
           container, database, ending
  <1>5. \A k \in Jobs : Busy(k)' = IF k = j THEN Busy(j) \cup {w} ELSE Busy(k)
    BY <1>1, <1>2, ServiceAssumption DEF Busy
  <1>6. Busy(j) = {}
    BY DEF IInv, OneThreadPerJob, Busy
  <1>7. OnlyRegistered'
    BY <1>5 DEF IInv, OnlyRegistered, Unfinished, Registered, container
  <1>8. OneThreadPerJob'
    BY <1>5, <1>6 DEF IInv, OneThreadPerJob
  <1> QED
    BY <1>3, <1>4, <1>7, <1>8 DEF IInv

LEMMA ReturnInv == ASSUME IInv, NEW w \in Workers, Return(w) PROVE IInv'
  <1> USE DEF Return
  <1>1. worker \in [Workers -> Jobs \cup {NULL}]
    BY DEF IInv, TypeOK
  <1>2. TypeOK'
    BY DEF IInv, TypeOK, container, database, ending
  <1>3. NoPoolYet'
    BY <1>1, ServiceAssumption DEF IInv, NoPoolYet, Early, Idle
  <1>4. Prepared' /\ ExitIsSignalled' /\ StopFinishesPasses'
    BY DEF IInv, Prepared, ExitIsSignalled, StopFinishesPasses, container, database, ending
  <1>5. \A k \in Jobs : Busy(k)' \subseteq Busy(k)
    BY <1>1, ServiceAssumption DEF Busy
  <1>6. OnlyRegistered'
    BY <1>5 DEF IInv, OnlyRegistered, Unfinished, Registered, container
  <1>7. OneThreadPerJob'
    BY <1>5 DEF IInv, OneThreadPerJob
  <1> QED
    BY <1>2, <1>3, <1>4, <1>6, <1>7 DEF IInv

LEMMA HangInv == ASSUME IInv, NEW w \in Workers, Hang(w) PROVE IInv'
  <1> USE DEF Hang
  <1>1. faults' \in 0..MaxFaults
    BY ServiceAssumption DEF IInv, TypeOK, Fault
  <1>2. TypeOK'
    BY <1>1 DEF IInv, TypeOK, container, database, ending
  <1>3. NoPoolYet'
    BY DEF IInv, NoPoolYet, Early, Idle
  <1>4. Prepared' /\ ExitIsSignalled' /\ StopFinishesPasses'
    BY DEF IInv, Prepared, ExitIsSignalled, StopFinishesPasses, container, database, ending
  <1>5. \A k \in Jobs : Busy(k)' = Busy(k)
    BY DEF Busy
  <1>6. OnlyRegistered' /\ OneThreadPerJob'
    BY <1>5 DEF IInv, OnlyRegistered, OneThreadPerJob, Unfinished, Registered, container
  <1> QED
    BY <1>2, <1>3, <1>4, <1>6 DEF IInv

\* A signal, wherever it finds the process.
LEMMA SignalInv == ASSUME IInv, Signal PROVE IInv'
  <1> USE DEF Signal
  <1>1. /\ faults' \in 0..MaxFaults /\ signals' \in Nat /\ signals' >= 1
        /\ stopped' \in BOOLEAN /\ db' \in BOOLEAN /\ env' = env
    <2>1. faults' \in 0..MaxFaults /\ signals' \in Nat /\ signals' >= 1
      BY ServiceAssumption DEF IInv, TypeOK, Fault
    <2>2. stopped' \in BOOLEAN /\ db' \in BOOLEAN /\ env' = env
      BY Zenon DEF IInv, TypeOK
    <2> QED
      BY <2>1, <2>2
  <1>2. CASE Unhandled
    <2>1. Unfinished = {} /\ schema' \in BOOLEAN
      BY <1>2, EarlyIsDone DEF Unhandled, Early, IInv, TypeOK
    <2> QED
      BY <1>1, <1>2, <2>1, EndInv DEF Unhandled
  <1>3. CASE Handled
    <2>1. schema' = schema /\ schema \in BOOLEAN
      BY <1>3 DEF Handled, IInv, TypeOK
    <2>2. CASE phase = "start" /\ End("error")
      BY <1>1, <2>1, <2>2, EarlyIsDone, EndInv
    <2>3. CASE phase = "exit" /\ End("error")
      <3>1. signals' > 1
        BY <2>3 DEF IInv, ExitIsSignalled, TypeOK
      <3> QED
        BY <1>1, <2>1, <2>3, <3>1, EndInv
    <2>4. CASE /\ phase \in {"serve", "exit"} /\ phase' = "exit" /\ exit' \in {"zero", "error"}
               /\ jobs' \subseteq jobs /\ UNCHANGED <<attempt, pool, cut>>
      <3>1. TypeOK'
        BY <1>1, <2>1, <2>4 DEF IInv, TypeOK, pool
      <3>2. NoPoolYet' /\ StopFinishesPasses'
        BY <2>4 DEF NoPoolYet, StopFinishesPasses, Early
      <3>3. Prepared' /\ ExitIsSignalled'
        BY <1>1, <2>1, <2>4 DEF IInv, Prepared, ExitIsSignalled
      <3>4. OnlyRegistered' /\ OneThreadPerJob'
        BY <1>1, <2>4 DEF IInv, OnlyRegistered, OneThreadPerJob, Unfinished, Busy,
                          Registered, pool
      <3> QED
        BY <3>1, <3>2, <3>3, <3>4 DEF IInv
    <2> QED
      BY <1>3, <2>2, <2>3, <2>4 DEF Handled, Shutdown
  <1> QED
    BY <1>2, <1>3

\* The ways a process ends that are no signal to it.
LEMMA JoinInv == ASSUME IInv, Join PROVE IInv'
  BY EndInv DEF Join, Joinable, IInv, TypeOK, container, database

LEMMA KillInv == ASSUME IInv, Kill PROVE IInv'
  BY EndInv DEF Kill, IInv, TypeOK, container, database

LEMMA CrashInv == ASSUME IInv, Crash PROVE IInv'
  <1>1. faults' \in 0..MaxFaults
    BY ServiceAssumption DEF Crash, IInv, TypeOK, Fault
  <1> QED
    BY <1>1, EndInv DEF Crash, IInv, TypeOK, container

\* Outside the process: another environment only for a container that is down.
LEMMA ComposeInv == ASSUME IInv, Compose PROVE IInv'
  <1> USE DEF Compose
  <1>1. Unfinished = {} /\ \A j \in Jobs : Busy(j) = {}
    BY EarlyIsDone DEF Early
  <1>2. (Unfinished = {} /\ \A j \in Jobs : Busy(j) = {})'
    BY <1>1 DEF Unfinished, Busy, pool
  <1>3. TypeOK'
    BY DEF IInv, TypeOK, database, pool, ending
  <1>4. NoPoolYet' /\ Prepared' /\ ExitIsSignalled' /\ StopFinishesPasses'
    BY DEF IInv, NoPoolYet, Prepared, ExitIsSignalled, StopFinishesPasses, Early, Idle,
           database, pool, ending
  <1>5. OnlyRegistered' /\ OneThreadPerJob'
    BY <1>2, <1>4 DEF OnlyRegistered, OneThreadPerJob, NoPoolYet, Early
  <1> QED
    BY <1>3, <1>4, <1>5 DEF IInv

LEMMA QuietInv ==
  ASSUME IInv, db' \in BOOLEAN,
         UNCHANGED <<container, schema, phase, attempt, jobs, pool, ending, faults>>
  PROVE  IInv'
  BY DEF IInv, TypeOK, NoPoolYet, Prepared, OnlyRegistered, OneThreadPerJob, ExitIsSignalled,
         StopFinishesPasses, Unfinished, Busy, Registered, Idle, Early, container, pool, ending

\* The inductive invariant of the service.
THEOREM Invariant == Spec => []IInv
  <1>1. IInv /\ [Next]_vars => IInv'
    <2> SUFFICES ASSUME IInv, [Next]_vars PROVE IInv'
      OBVIOUS
    <2>1. CASE UNCHANGED vars
      BY <2>1, QuietInv DEF vars, container, database, IInv, TypeOK
    <2>2. CASE DbFlips
      BY <2>2, QuietInv DEF DbFlips, IInv, TypeOK
    <2> QED
      BY <2>1, <2>2, StartupInv, FireInv, BeginInv, ReturnInv, HangInv, SignalInv, JoinInv,
         KillInv, CrashInv, ComposeInv DEF Next, PoolStep
  <1> QED
    BY InitInv, <1>1, PTL DEF Spec

\* Type correctness: wait_for_db never asks more often than retry_max_attempts.
THEOREM TypeCorrect == Spec => []TypeOK
  <1>1. IInv => TypeOK
    BY DEF IInv
  <1> QED
    BY Invariant, <1>1, PTL

\* No job is called before the schema exists and the settings were accepted,
\* however often the container was started, stopped or killed before.
THEOREM StartupOrder == Spec => []ReadyToWork
  <1>1. IInv => ReadyToWork
    <2> SUFFICES ASSUME IInv, Unfinished # {}
                 PROVE  schema /\ Valid(env) /\ Buildable(env) /\ Unfinished \subseteq Registered(env)
      BY DEF ReadyToWork
    <2>1. phase \in {"serve", "exit"}
      BY EarlyIsDone DEF IInv, TypeOK, Early
    <2> QED
      BY <2>1 DEF IInv, Prepared, OnlyRegistered
  <1> QED
    BY Invariant, <1>1, PTL

\* Two calls of one job are never under way at once, also not during a stop.
THEOREM OneThread == Spec => []OneThreadPerJob
  <1>1. IInv => OneThreadPerJob
    BY DEF IInv
  <1> QED
    BY Invariant, <1>1, PTL

\* A process that ends by itself after one signal has finished every pass.
THEOREM StopIsClean == Spec => []StopFinishesPasses
  <1>1. IInv => StopFinishesPasses
    BY DEF IInv
  <1> QED
    BY Invariant, <1>1, PTL
-----------------------------------------------------------------------------
(* The list of symbols. *)

Names == {Strip[p] : p \in Parts}

\* What the fold does with one part.
Add(seen, part) ==
  IF Strip[part] = BLANK \/ (\E i \in 1..Len(seen) : seen[i] = Strip[part])
  THEN seen ELSE Append(seen, Strip[part])

\* The list after the first k parts.
LEMMA SymbolsFold ==
  ASSUME NEW parts \in Seq(Parts)
  PROVE  \E list : /\ list[0] = <<>> /\ list[Len(parts)] = Symbols(parts)
                   /\ \A k \in 1..Len(parts) : list[k] = Add(list[k - 1], parts[k])
  <1> DEFINE n == Len(parts)
             T == Seq(Names)
             step == [q \in T \X (1..n) |-> Add(q[1], parts[q[2]])]
             Eq(f) == f = [d \in SUBSET (DOMAIN parts) |->
                             IF d = {} THEN <<>>
                             ELSE LET x == Max(d) IN Add(f[d \ {x}], parts[x])]
             it == CHOOSE f : Eq(f)
             empty == <<>>
             list == [k \in 0..n |-> it[1..k]]
  <1>1. n \in Nat /\ DOMAIN parts = 1..n /\ \A k \in 1..n : parts[k] \in Parts
    OBVIOUS
  <1>2. step \in [T \X (1..n) -> T] /\ empty \in T
    <2>1. ASSUME NEW q \in T \X (1..n) PROVE Add(q[1], parts[q[2]]) \in T
      BY <1>1 DEF Add, Names
    <2> QED
      BY <2>1
  <1> HIDE DEF n, T, step, empty
  <1>3. PICK h \in [SUBSET (1..n) -> T] : Folds(h, empty, step, n)
    BY <1>1, <1>2, FoldExists
  <1>4. \A d : Max(d) = Top(d)
    BY DEF Max, Top
  <1>5. Eq(h)
    <2>1. ASSUME NEW d \in SUBSET (1..n), d # {}
          PROVE  h[d] = Add(h[d \ {Top(d)}], parts[Top(d)])
      <3>1. Top(d) \in d
        BY <1>1, <2>1, FiniteTop
      <3>2. <<h[d \ {Top(d)}], Top(d)>> \in T \X (1..n)
        BY <3>1
      <3>3. h[d] = step[<<h[d \ {Top(d)}], Top(d)>>]
        BY <1>3, <2>1 DEF Folds
      <3> QED
        BY <3>2, <3>3 DEF step
    <2> QED
      BY <1>1, <1>3, <1>4, <2>1 DEF empty, Folds
  <1>6. Eq(it)
    BY <1>5
  <1>7. Symbols(parts) = it[DOMAIN parts]
    BY DEF Symbols, FoldLeft, MapThenFoldSet, Add
  <1> HIDE DEF it
  <1>8. \A d \in SUBSET (1..n) : it[d] = IF d = {} THEN <<>> ELSE Add(it[d \ {Top(d)}], parts[Top(d)])
    BY <1>1, <1>4, <1>6
  <1>9. ASSUME NEW k \in 1..n PROVE list[k] = Add(list[k - 1], parts[k])
    <2>1. 1..k \in SUBSET (1..n) /\ k \in Nat \ {0} /\ k - 1 \in 0..n /\ k \in 0..n
      BY <1>1
    <2>2. 1..k # {} /\ Top(1..k) = k /\ (1..k) \ {k} = 1..(k - 1)
      BY <2>1, TopOfPrefix
    <2> QED
      BY <1>8, <2>1, <2>2
  <1>10. list[0] = <<>> /\ list[n] = Symbols(parts)
    <2>1. 1..0 = {} /\ 0 \in 0..n /\ n \in 0..n
      BY <1>1
    <2> QED
      BY <1>1, <1>7, <1>8, <2>1
  <1> HIDE DEF list
  <1> QED
    BY <1>9, <1>10 DEF n

\* x is mentioned in part p, and in no part before it.
First(parts, x, p) ==
  p \in 1..Len(parts) /\ Strip[parts[p]] = x /\ \A k \in 1..(p - 1) : Strip[parts[k]] # x

\* s is the list of the names in the first n parts, in the order of their mention.
Lists(s, parts, n) ==
  /\ s \in Seq(Names)
  /\ \A i \in 1..Len(s) : s[i] # BLANK /\ \E p \in 1..n : First(parts, s[i], p)
  /\ \A p \in 1..n : Strip[parts[p]] # BLANK => \E i \in 1..Len(s) : s[i] = Strip[parts[p]]
  /\ \A i, k \in 1..Len(s) : \A p, q \in 1..n :
       i < k /\ First(parts, s[i], p) /\ First(parts, s[k], q) => p < q

\* A part adds a name at the end of the list, or nothing.
LEMMA AddLists ==
  ASSUME NEW parts \in Seq(Parts), NEW n \in 1..Len(parts), NEW s, Lists(s, parts, n - 1)
  PROVE  Lists(Add(s, parts[n]), parts, n)
  <1> DEFINE x == Strip[parts[n]]
             t == Add(s, parts[n])
  <1>1. x \in Names /\ s \in Seq(Names) /\ Len(s) \in Nat /\ n \in Nat \ {0} /\ Len(parts) \in Nat
    BY DEF Names, Lists
  <1>2. CASE x = BLANK \/ \E i \in 1..Len(s) : s[i] = x
    <2>1. t = s
      BY <1>2 DEF Add
    <2>2. \A i \in 1..Len(s) : s[i] # BLANK /\ \E p \in 1..n : First(parts, s[i], p)
      BY <1>1 DEF Lists
    <2>3. \A p \in 1..n : Strip[parts[p]] # BLANK => \E i \in 1..Len(s) : s[i] = Strip[parts[p]]
      <3>1. \A p \in 1..n : p = n \/ p \in 1..(n - 1)
        BY <1>1
      <3> QED
        BY <1>2, <3>1 DEF Lists
    <2>4. ASSUME NEW i \in 1..Len(s), NEW p \in 1..n, First(parts, s[i], p) PROVE p \in 1..(n - 1)
      <3>1. PICK q \in 1..(n - 1) : First(parts, s[i], q)
        BY DEF Lists
      <3>2. p = q
        <4>1. ~(q < p) /\ ~(p < q)
          BY <1>1, <2>4, <3>1 DEF First
        <4> QED
          BY <1>1, <4>1
      <3> QED
        BY <3>2
    <2>5. \A i, k \in 1..Len(s) : \A p, q \in 1..n :
            i < k /\ First(parts, s[i], p) /\ First(parts, s[k], q) => p < q
      BY <2>4 DEF Lists
    <2> QED
      BY <1>1, <2>1, <2>2, <2>3, <2>5 DEF Lists
  <1>3. CASE x # BLANK /\ ~\E i \in 1..Len(s) : s[i] = x
    <2>1. t = Append(s, x)
      BY <1>3 DEF Add
    <2>2. /\ t \in Seq(Names) /\ Len(t) = Len(s) + 1 /\ t[Len(t)] = x
          /\ \A i \in 1..Len(t) : i = Len(t) \/ (i \in 1..Len(s) /\ t[i] = s[i])
          /\ \A i \in 1..Len(s) : i \in 1..Len(t) /\ t[i] = s[i]
      BY <1>1, <2>1
    <2> HIDE DEF t
    <2>3. First(parts, x, n)
      <3>1. ASSUME NEW k \in 1..(n - 1), Strip[parts[k]] = x PROVE FALSE
        <4>1. \E i \in 1..Len(s) : s[i] = x
          BY <1>3, <3>1 DEF Lists
        <4> QED
          BY <1>3, <4>1
      <3> QED
        BY <3>1 DEF First
    <2>4. \A y, p, q : First(parts, y, p) /\ First(parts, y, q) => p = q
      <3> SUFFICES ASSUME NEW y, NEW p, NEW q, First(parts, y, p), First(parts, y, q) PROVE p = q
        OBVIOUS
      <3>1. p \in Nat \ {0} /\ q \in Nat \ {0} /\ ~(p < q) /\ ~(q < p)
        BY <1>1 DEF First
      <3> QED
        BY <3>1
    <2>5. ASSUME NEW i \in 1..Len(t)
          PROVE  /\ t[i] # BLANK
                 /\ \E p \in 1..n : /\ First(parts, t[i], p)
                                    /\ i = Len(t) => p = n
                                    /\ i # Len(t) => p \in 1..(n - 1)
      <3>1. CASE i = Len(t)
        BY <1>1, <1>3, <2>2, <2>3, <3>1
      <3>2. CASE i # Len(t)
        <4>1. i \in 1..Len(s) /\ t[i] = s[i]
          BY <2>2, <3>2
        <4>2. PICK p \in 1..(n - 1) : First(parts, s[i], p)
          BY <4>1 DEF Lists
        <4>3. s[i] # BLANK /\ p \in 1..n
          BY <1>1, <4>1 DEF Lists
        <4> QED
          BY <3>2, <4>1, <4>2, <4>3
      <3> QED
        BY <3>1, <3>2
    <2>6. ASSUME NEW p \in 1..n, Strip[parts[p]] # BLANK
          PROVE  \E i \in 1..Len(t) : t[i] = Strip[parts[p]]
      <3>1. CASE p = n
        <4>1. Len(t) \in 1..Len(t)
          BY <1>1, <2>2
        <4> QED
          BY <2>2, <3>1, <4>1
      <3>2. CASE p # n
        <4>1. p \in 1..(n - 1)
          BY <1>1, <3>2
        <4>2. PICK i \in 1..Len(s) : s[i] = Strip[parts[p]]
          BY <2>6, <4>1 DEF Lists
        <4> QED
          BY <2>2, <4>2
      <3> QED
        BY <3>1, <3>2
    <2>7. ASSUME NEW i \in 1..Len(t), NEW k \in 1..Len(t), NEW p \in 1..n, NEW q \in 1..n,
                 i < k, First(parts, t[i], p), First(parts, t[k], q)
          PROVE  p < q
      <3>1. i # Len(t) /\ i \in 1..Len(s) /\ t[i] = s[i]
        BY <1>1, <2>2, <2>7
      <3>2. p \in 1..(n - 1)
        BY <2>4, <2>5, <2>7, <3>1
      <3>3. CASE k = Len(t)
        <4>1. q = n
          BY <2>4, <2>5, <2>7, <3>3
        <4> QED
          BY <1>1, <3>2, <4>1
      <3>4. CASE k # Len(t)
        <4>1. q \in 1..(n - 1) /\ k \in 1..Len(s) /\ t[k] = s[k]
          BY <2>2, <2>4, <2>5, <2>7, <3>4
        <4> QED
          BY <2>7, <3>1, <3>2, <4>1 DEF Lists
      <3> QED
        BY <3>3, <3>4
    <2>8. Lists(t, parts, n)
      BY <2>2, <2>5, <2>6, <2>7 DEF Lists
    <2> QED
      BY <2>8 DEF t
  <1> QED
    BY <1>2, <1>3

LEMMA SymbolsList ==
  ASSUME NEW parts \in Seq(Parts)
  PROVE  Lists(Symbols(parts), parts, Len(parts))
  <1>1. PICK list : /\ list[0] = <<>> /\ list[Len(parts)] = Symbols(parts)
                    /\ \A k \in 1..Len(parts) : list[k] = Add(list[k - 1], parts[k])
    BY SymbolsFold
  <1> DEFINE G == {k \in 0..Len(parts) : Lists(list[k], parts, k)}
  <1>2. 0 \in G
    <2>1. <<>> \in Seq(Names) /\ 1..Len(<<>>) = {} /\ 1..0 = {} /\ 0 \in 0..Len(parts)
      OBVIOUS
    <2>2. Lists(<<>>, parts, 0)
      BY <2>1 DEF Lists
    <2> QED
      BY <1>1, <2>1, <2>2
  <1>3. ASSUME NEW k \in 1..Len(parts), k - 1 \in G PROVE k \in G
    BY <1>1, <1>3, AddLists
  <1>4. Len(parts) \in Nat
    OBVIOUS
  <1> HIDE DEF G
  <1>5. Len(parts) \in G
    BY <1>2, <1>3, <1>4, CountUp
  <1> QED
    BY <1>1, <1>5 DEF G

\* The jobs are built with the symbols the operator listed: each once, whatever blanks
\* and repetitions there are in YAHOO_SYMBOLS, and in the order of first mention.
THEOREM SymbolsAsListed == Spec => []SymbolsOnce
  <1>1. IInv => SymbolsOnce
    <2> SUFFICES ASSUME IInv PROVE SymbolsOnce
      OBVIOUS
    <2> DEFINE parts == env.symbols
               s == Symbols(parts)
               At(x) == CHOOSE i \in 1..Len(parts) :
                          Strip[parts[i]] = x /\ \A k \in 1..(i - 1) : Strip[parts[k]] # x
    <2>1. parts \in Seq(Parts)
      BY ServiceAssumption DEF IInv, TypeOK
    <2>2. Lists(s, parts, Len(parts))
      BY <2>1, SymbolsList
    <2> HIDE DEF parts, s
    <2>3. {s[i] : i \in 1..Len(s)} = {Strip[parts[i]] : i \in 1..Len(parts)} \ {BLANK}
      <3>1. ASSUME NEW i \in 1..Len(s)
            PROVE  s[i] \in {Strip[parts[p]] : p \in 1..Len(parts)} \ {BLANK}
        BY <2>2 DEF Lists, First
      <3>2. ASSUME NEW p \in 1..Len(parts), Strip[parts[p]] # BLANK
            PROVE  Strip[parts[p]] \in {s[i] : i \in 1..Len(s)}
        BY <2>2, <3>2 DEF Lists
      <3> QED
        BY <3>1, <3>2
    <2>4. ASSUME NEW i \in 1..Len(s) PROVE At(s[i]) \in 1..Len(parts) /\ First(parts, s[i], At(s[i]))
      BY <2>2 DEF Lists, First
    <2> HIDE DEF At
    <2>5. \A i, k \in 1..Len(s) : i < k => At(s[i]) < At(s[k])
      BY <2>2, <2>4 DEF Lists
    <2> QED
      BY <2>3, <2>5 DEF SymbolsOnce, At, s, parts
  <1> QED
    BY Invariant, <1>1, PTL
=============================================================================
