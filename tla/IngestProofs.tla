---------------------------- MODULE IngestProofs ----------------------------
(* What TLAPS proves of the ingestion jobs and of the bars they store, for  *)
(* every value of the constants.                                           *)
EXTENDS IngestHealing, FiniteSetTheorems, TLAPS

\* The run a thread works on has an id, and its series is one of the series.
LEMMA IdType ==
  ASSUME TypeOK, NEW j \in Jobs, pc[j] # "idle"
  PROVE  Id(j) \in RunIds
  BY DEF TypeOK, ThreadOK, PassOK, Id, RunIds

LEMMA SerType ==
  ASSUME TypeOK, NEW j \in Jobs
  PROVE  Ser(j) \in Series
  BY IngestAssumption DEF TypeOK, ThreadOK, Ser, Series

LEMMA TsFinite == IsFiniteSet(Ts) /\ \A S \in SUBSET Ts : IsFiniteSet(S) /\ Cardinality(S) \in Nat
  <1>1. IsFiniteSet(Ts)
    BY IngestAssumption, FS_Interval DEF Ts
  <1> QED
    BY <1>1, FS_Subset, FS_CardinalityType

\* Counting a symbol keeps the type of the summary.
LEMMA SummaryType ==
  ASSUME TypeOK, NEW j \in Jobs, NEW n \in Nat,
         \/ summary' = [summary EXCEPT ![j].failed = @ + 1]
         \/ summary' = [summary EXCEPT ![j].empty = @ + 1]
         \/ summary' = [summary EXCEPT ![j].succeeded = @ + 1, ![j].rows = @ + n]
  PROVE  summary' \in [Jobs -> [succeeded : Nat, empty : Nat, failed : Nat, rows : Nat]]
  <1> DEFINE S == [succeeded : Nat, empty : Nat, failed : Nat, rows : Nat]
  <1>1. summary \in [Jobs -> S] /\ summary[j] \in S
    BY DEF TypeOK, ThreadOK
  <1>2. /\ [summary[j] EXCEPT !.failed = @ + 1] \in S
        /\ [summary[j] EXCEPT !.empty = @ + 1] \in S
        /\ [summary[j] EXCEPT !.succeeded = @ + 1, !.rows = @ + n] \in S
    <2> DEFINE r == summary[j]
    <2>1. /\ r \in S
          /\ r.failed + 1 \in Nat /\ r.empty + 1 \in Nat
          /\ r.succeeded + 1 \in Nat /\ r.rows + n \in Nat
      BY <1>1
    <2> HIDE DEF r
    <2>2. [r EXCEPT !.failed = r.failed + 1] \in S
      BY <2>1
    <2>3. [r EXCEPT !.empty = r.empty + 1] \in S
      BY <2>1
    <2>4. [r EXCEPT !.succeeded = r.succeeded + 1, !.rows = r.rows + n] \in S
      BY <2>1
    <2> QED
      BY <2>2, <2>3, <2>4 DEF r
  <1>3. \E r \in S : summary' = [summary EXCEPT ![j] = r]
    BY <1>1, <1>2
  <1> HIDE DEF S
  <1>4. summary' \in [Jobs -> S]
    BY <1>1, <1>3
  <1> QED
    BY <1>4 DEF S

\* The ways a step ends keep the thread's types.
LEMMA GotoType ==
  ASSUME TypeOK, NEW j \in Jobs, NEW label \in {"fetch", "upsert", "finish", "record"},
         Goto(j, label), pc[j] # "idle"
  PROVE  /\ pc' \in [Jobs -> {"idle", "start", "fetch", "upsert", "finish", "record"}]
         /\ idx' \in [Jobs -> Symbols]
         /\ attempt' \in [Jobs -> 1..MaxAttempts]
         /\ \A k \in Jobs : pc'[k] # "idle" => pc[k] # "idle"
  BY IngestAssumption DEF TypeOK, ThreadOK, Goto

LEMMA NextSymbolType ==
  ASSUME TypeOK, NEW j \in Jobs, NextSymbol(j), pc[j] # "idle"
  PROVE  /\ pc' \in [Jobs -> {"idle", "start", "fetch", "upsert", "finish", "record"}]
         /\ idx' \in [Jobs -> Symbols]
         /\ attempt' \in [Jobs -> 1..MaxAttempts]
         /\ bars' \in [Jobs -> [Ts -> 0..MaxRev]]
         /\ todo' \in [Jobs -> SUBSET Ts]
         /\ written' \in [Jobs -> Nat]
         /\ \A k \in Jobs : pc'[k] # "idle" => pc[k] # "idle"
  <1>1. NoBars \in [Ts -> 0..MaxRev]
    BY IngestAssumption DEF NoBars
  <1>2. pc' \in [Jobs -> {"idle", "start", "fetch", "upsert", "finish", "record"}]
    BY DEF TypeOK, ThreadOK, NextSymbol
  <1>3. idx' \in [Jobs -> Symbols]
    <2>1. idx[j] \in 1..SymbolCount
      BY DEF TypeOK, ThreadOK, Symbols
    <2>2. idx[j] < SymbolCount => idx[j] + 1 \in Symbols
      BY <2>1, IngestAssumption DEF Symbols
    <2> QED
      BY <2>2 DEF TypeOK, ThreadOK, NextSymbol
  <1>4. /\ attempt' \in [Jobs -> 1..MaxAttempts]
        /\ todo' \in [Jobs -> SUBSET Ts]
        /\ written' \in [Jobs -> Nat]
    BY IngestAssumption DEF TypeOK, ThreadOK, NextSymbol
  <1>5. bars' \in [Jobs -> [Ts -> 0..MaxRev]]
    BY <1>1 DEF TypeOK, ThreadOK, NextSymbol
  <1>6. \A k \in Jobs : pc'[k] # "idle" => pc[k] # "idle"
    BY DEF TypeOK, ThreadOK, NextSymbol
  <1> QED
    BY <1>2, <1>3, <1>4, <1>5, <1>6

LEMMA RaiseType ==
  ASSUME TypeOK, NEW j \in Jobs, Raise(j), pc[j] # "idle"
  PROVE  ThreadOK' /\ \A k \in Jobs : pc'[k] # "idle" => pc[k] # "idle"
  <1>1. summary' \in [Jobs -> [succeeded : Nat, empty : Nat, failed : Nat, rows : Nat]]
    BY SummaryType DEF Raise
  <1>2. CASE NextSymbol(j)
    BY <1>1, <1>2, NextSymbolType DEF ThreadOK
  <1>3. CASE Goto(j, "record") /\ UNCHANGED local
    BY <1>1, <1>3, GotoType DEF TypeOK, ThreadOK, local
  <1> QED
    BY <1>2, <1>3 DEF Raise

LEMMA AgainType ==
  ASSUME TypeOK, NEW j \in Jobs, Again(j), UNCHANGED summary
  PROVE  ThreadOK' /\ UNCHANGED pc
  BY IngestAssumption DEF TypeOK, ThreadOK, Again, local

LEMMA RetriedType ==
  ASSUME TypeOK, NEW j \in Jobs, Retried(j), pc[j] # "idle"
  PROVE  ThreadOK' /\ \A k \in Jobs : pc'[k] # "idle" => pc[k] # "idle"
  BY RaiseType, AgainType DEF Retried

LEMMA LoseAckType ==
  ASSUME TypeOK, NEW j \in Jobs, LoseAck(j),
         pc[j] \in {"start", "upsert", "finish", "record"}
  PROVE  ambiguous' \subseteq {"start", "upsert", "finish", "record"} \X RunIds
  BY IdType DEF TypeOK, HistoryOK, LoseAck

LEMMA AffectedType ==
  ASSUME TypeOK, NEW j \in Jobs
  PROVE  Affected(j) \in Nat
  BY TsFinite DEF TypeOK, ThreadOK, Affected, Batch
-----------------------------------------------------------------------------
(* Type correctness: Init => TypeOK, and every step keeps it. *)

LEMMA InitType == Init => TypeOK
  <1> SUFFICES ASSUME Init PROVE TypeOK
    OBVIOUS
  <1> USE IngestAssumption DEF Init
  <1>1. NoBars \in [Ts -> 0..MaxRev]
    BY DEF NoBars
  <1>2. DataOK
    BY <1>1 DEF DataOK, Absent, Row, Final
  <1>3. ThreadOK
    BY <1>1 DEF ThreadOK, Symbols, EmptySummary
  <1>4. PassOK
    BY DEF PassOK
  <1>5. HistoryOK
    BY DEF HistoryOK
  <1> QED
    BY <1>2, <1>3, <1>4, <1>5 DEF TypeOK

LEMMA ClosedType ==
  ASSUME TypeOK, NEW j \in Jobs, NEW s \in Final, NEW n \in Nat \cup {NULL},
         NEW u \in Nat \cup {NULL}, Closed(j, s, n, u)
  PROVE  runs' \in [RunIds -> Row]
  BY DEF TypeOK, DataOK, Closed, Close, Row

LEMMA NextType == TypeOK /\ [Next]_vars => TypeOK'
  <1> SUFFICES ASSUME TypeOK, [Next]_vars PROVE TypeOK'
    OBVIOUS
  <1> USE DEF TypeOK
  <1>1. ASSUME NEW s \in Series, NEW t \in Ts, Publish(s, t) PROVE TypeOK'
    <2>1. view' \in [Series -> [Ts -> 0..MaxRev]]
      BY <1>1, IngestAssumption DEF Publish, DataOK
    <2> QED
      BY <1>1, <2>1 DEF Publish, control, local, history, DataOK, ThreadOK, PassOK, HistoryOK
  <1>2. ASSUME NEW j \in Jobs, Trigger(j) PROVE TypeOK'
    <2>1. ThreadOK'
      BY <1>2, IngestAssumption DEF Trigger, ThreadOK, EmptySummary, local, Symbols
    <2>2. PassOK'
      BY <1>2, IngestAssumption DEF Trigger, PassOK, ThreadOK
    <2> QED
      BY <1>2, <2>1, <2>2 DEF Trigger, history, DataOK, HistoryOK
  <1>3. ASSUME NEW j \in Jobs, StartRun(j) PROVE TypeOK'
    <2>1. runs' \in [RunIds -> Row]
      BY <1>3 DEF StartRun, Inserted, DataOK, Row, Final
    <2>2. CASE Goto(j, "fetch") /\ UNCHANGED <<local, summary, ambiguous>>
      BY <1>3, <2>1, <2>2, GotoType DEF StartRun, DataOK, ThreadOK, PassOK, HistoryOK, local
    <2>3. CASE LoseAck(j) /\ Retried(j)
      BY <1>3, <2>1, <2>3, LoseAckType, RetriedType DEF StartRun, DataOK, PassOK, HistoryOK
    <2> QED
      BY <1>3, <2>2, <2>3 DEF StartRun
  <1>4. ASSUME NEW j \in Jobs, Fetch(j) PROVE TypeOK'
    <2>1. Window(j) \in SUBSET Ts
      BY DEF Window, Published
    <2>2. Served(j) \in [Ts -> 0..MaxRev]
      BY SerType, IngestAssumption DEF Served, DataOK
    <2>3. ThreadOK'
      BY <1>4, <2>1, <2>2, GotoType DEF Fetch, ThreadOK
    <2> QED
      BY <1>4, <2>3, GotoType DEF Fetch, history, DataOK, PassOK, HistoryOK
  <1>5. ASSUME NEW j \in Jobs, FetchNothing(j) PROVE TypeOK'
    <2>1. summary' \in [Jobs -> [succeeded : Nat, empty : Nat, failed : Nat, rows : Nat]]
      BY <1>5, SummaryType DEF FetchNothing
    <2> QED
      BY <1>5, <2>1, GotoType
         DEF FetchNothing, local, history, DataOK, ThreadOK, PassOK, HistoryOK
  <1>6. ASSUME NEW j \in Jobs, Upsert(j) PROVE TypeOK'
    <2>1. Ser(j) \in Series /\ Id(j) \in RunIds /\ Affected(j) \in Nat
      BY <1>6, SerType, IdType, AffectedType DEF Upsert
    <2>2. prices' \in [Series -> [Ts -> 0..MaxRev]]
      BY <1>6, <2>1 DEF Upsert, DataOK, ThreadOK
    <2>3. changed' \in [RunIds -> Nat]
      <3>1. Cardinality({t \in Ts : prices'[Ser(j)][t] # prices[Ser(j)][t]}) \in Nat
        BY TsFinite
      <3> QED
        BY <1>6, <2>1, <3>1 DEF Upsert, HistoryOK
    <2>4. ASSUME todo' = [todo EXCEPT ![j] = Remaining(j)],
                 written' = [written EXCEPT ![j] = @ + Affected(j)],
                 UNCHANGED <<bars, ambiguous>>,
                 NEW label \in {"upsert", "finish"}, Goto(j, label),
                 \/ UNCHANGED summary
                 \/ summary' = [summary EXCEPT ![j].succeeded = @ + 1,
                                               ![j].rows = @ + (written[j] + Affected(j))]
          PROVE  TypeOK'
      <3>1. todo' \in [Jobs -> SUBSET Ts]
        BY <2>4 DEF ThreadOK, Remaining
      <3>2. written' \in [Jobs -> Nat]
        BY <2>1, <2>4 DEF ThreadOK
      <3>3. summary' \in [Jobs -> [succeeded : Nat, empty : Nat, failed : Nat, rows : Nat]]
        <4>1. written[j] + Affected(j) \in Nat
          BY <2>1 DEF ThreadOK
        <4> QED
          BY <2>4, <4>1, SummaryType DEF ThreadOK
      <3>4. pc[j] # "idle"
        BY <1>6 DEF Upsert
      <3>5. ThreadOK'
        BY <2>4, <3>1, <3>2, <3>3, <3>4, GotoType DEF ThreadOK
      <3> QED
        BY <1>6, <2>2, <2>3, <2>4, <3>4, <3>5, GotoType DEF Upsert, DataOK, PassOK, HistoryOK
    <2>5. CASE LoseAck(j) /\ Retried(j)
      <3>1. pc[j] = "upsert"
        BY <1>6 DEF Upsert
      <3> QED
        BY <1>6, <2>2, <2>3, <2>5, <3>1, LoseAckType, RetriedType
           DEF Upsert, DataOK, PassOK, HistoryOK
    <2> QED
      BY <1>6, <2>4, <2>5 DEF Upsert
  <1>7. ASSUME NEW j \in Jobs, FinishRun(j) PROVE TypeOK'
    <2>1. runs' \in [RunIds -> Row]
      <3>1. Cardinality(Delivered(j)) \in Nat
        BY TsFinite DEF Delivered
      <3> QED
        BY <1>7, <3>1, ClosedType DEF FinishRun, ThreadOK, Final
    <2>2. CASE NextSymbol(j) /\ UNCHANGED <<summary, ambiguous>>
      BY <1>7, <2>1, <2>2, NextSymbolType DEF FinishRun, DataOK, ThreadOK, PassOK, HistoryOK
    <2>3. CASE LoseAck(j) /\ Retried(j)
      BY <1>7, <2>1, <2>3, LoseAckType, RetriedType DEF FinishRun, DataOK, PassOK, HistoryOK
    <2> QED
      BY <1>7, <2>2, <2>3 DEF FinishRun
  <1>8. ASSUME NEW j \in Jobs, CallFails(j) PROVE TypeOK'
    <2>1. ThreadOK' /\ \A k \in Jobs : pc'[k] # "idle" => pc[k] # "idle"
      BY <1>8, AgainType, RaiseType DEF CallFails
    <2> QED
      BY <1>8, <2>1 DEF CallFails, history, DataOK, PassOK, HistoryOK
  <1>9. ASSUME NEW j \in Jobs, RecordFailure(j) PROVE TypeOK'
    <2>1. runs' \in [RunIds -> Row]
      BY <1>9, ClosedType DEF RecordFailure, Final
    <2>2. CASE NextSymbol(j) /\ UNCHANGED <<ambiguous, unrecorded>>
      BY <1>9, <2>1, <2>2, NextSymbolType DEF RecordFailure, DataOK, ThreadOK, PassOK, HistoryOK
    <2>3. CASE LoseAck(j) /\ Again(j) /\ UNCHANGED unrecorded
      BY <1>9, <2>1, <2>3, LoseAckType, AgainType
         DEF RecordFailure, DataOK, PassOK, HistoryOK
    <2>4. CASE LoseAck(j) /\ GiveUp(j)
      BY <1>9, <2>1, <2>4, LoseAckType, NextSymbolType, IdType
         DEF RecordFailure, GiveUp, DataOK, ThreadOK, PassOK, HistoryOK
    <2> QED
      BY <1>9, <2>2, <2>3, <2>4 DEF RecordFailure
  <1>10. ASSUME NEW j \in Jobs, RecordFails(j) PROVE TypeOK'
    <2>1. CASE Again(j) /\ UNCHANGED unrecorded
      BY <1>10, <2>1, AgainType DEF RecordFails, DataOK, PassOK, HistoryOK
    <2>2. CASE GiveUp(j)
      BY <1>10, <2>2, NextSymbolType, IdType
         DEF RecordFails, GiveUp, DataOK, ThreadOK, PassOK, HistoryOK
    <2> QED
      BY <1>10, <2>1, <2>2 DEF RecordFails
  <1>11. CASE Crash
    <2>1. NoBars \in [Ts -> 0..MaxRev]
      BY IngestAssumption DEF NoBars
    <2>2. ThreadOK'
      BY <1>11, <2>1, IngestAssumption DEF Crash, ThreadOK
    <2>3. died' \subseteq Jobs \X (1..MaxPasses)
      BY <1>11 DEF Crash, HistoryOK, PassOK
    <2> QED
      BY <1>11, <2>2, <2>3 DEF Crash, DataOK, PassOK, HistoryOK
  <1>12. CASE UNCHANGED vars
    BY <1>12 DEF vars, control, local, history, DataOK, ThreadOK, PassOK, HistoryOK
  <1> QED
    BY <1>1, <1>2, <1>3, <1>4, <1>5, <1>6, <1>7, <1>8, <1>9, <1>10, <1>11, <1>12
       DEF Next, Step

\* Every variable keeps its type, whatever the constants are: in particular no
\* call is attempted more than retry_max_attempts times.
THEOREM TypeCorrect == Spec => []TypeOK
  <1> QED
    BY InitType, NextType, PTL DEF Spec
-----------------------------------------------------------------------------
(* How a step of one thread leaves the others, and its own locals. *)

Keeps(j) == /\ UNCHANGED <<idx, local>>
            /\ \E l \in {pc[j], "record"} : pc' = [pc EXCEPT ![j] = l]

LEMMA RaiseOutcome ==
  ASSUME TypeOK, NEW j \in Jobs, Raise(j)
  PROVE  \/ NextSymbol(j)
         \/ Keeps(j) /\ pc[j] # "start" /\ pc'[j] = "record"
  BY DEF TypeOK, ThreadOK, Raise, Goto, Keeps, local

LEMMA AgainOutcome ==
  ASSUME TypeOK, NEW j \in Jobs, Again(j)
  PROVE  Keeps(j) /\ UNCHANGED pc
  BY DEF TypeOK, ThreadOK, Again, Keeps, local

LEMMA RetriedOutcome ==
  ASSUME TypeOK, NEW j \in Jobs, Retried(j)
  PROVE  NextSymbol(j) \/ Keeps(j)
  BY RaiseOutcome, AgainOutcome DEF Retried

LEMMA OnlyUpsertWrites ==
  ASSUME [Next]_vars
  PROVE  UNCHANGED prices \/ \E j \in Jobs : Upsert(j)
  BY DEF Next, Step, vars, Publish, Trigger, StartRun, Fetch, FetchNothing, FinishRun,
         CallFails, RecordFailure, RecordFails, Crash

LEMMA UpsertWrites ==
  ASSUME TypeOK, NEW j \in Jobs, Upsert(j), NEW s \in Series, NEW t \in Ts
  PROVE  prices'[s][t] = IF s = Ser(j) /\ t \in Batch(j) THEN bars[j][t] ELSE prices[s][t]
  BY DEF Upsert, TypeOK, DataOK

\* No step deletes a bar.
LEMMA StoredGrows ==
  ASSUME TypeOK, FetchedIsStored, [Next]_vars, NEW s \in Series
  PROVE  Stored(s) \subseteq Stored(s)'
  <1>1. ASSUME NEW j \in Jobs, Upsert(j) PROVE Stored(s) \subseteq Stored(s)'
    <2>1. \A t \in Batch(j) : bars[j][t] > 0
      BY DEF Batch, FetchedIsStored, LocalOK, Delivered
    <2>2. \A t \in Ts : prices'[s][t] \in {prices[s][t], bars[j][t]}
      BY <1>1, UpsertWrites
    <2>3. \A t \in Ts : prices'[s][t] # prices[s][t] => t \in Batch(j)
      BY <1>1, UpsertWrites
    <2> QED
      BY <2>1, <2>2, <2>3 DEF Stored
  <1> QED
    BY <1>1, OnlyUpsertWrites DEF Stored
-----------------------------------------------------------------------------
(* A success has its bars stored. *)

LEMMA LocalKept ==
  ASSUME TypeOK, NEW j \in Jobs, LocalOK(j),
         \A s \in Series : Stored(s) \subseteq Stored(s)',
         idx'[j] = idx[j], bars'[j] = bars[j], todo'[j] = todo[j], written'[j] = written[j],
         pc'[j] \in {pc[j], "record"}
  PROVE  LocalOK(j)'
  <1>1. Ser(j)' = Ser(j) /\ Delivered(j)' = Delivered(j) /\ Ser(j) \in Series
    BY SerType DEF Ser, Delivered
  <1>2. Stored(Ser(j)) \subseteq Stored(Ser(j))'
    BY <1>1 DEF Stored
  <1> QED
    BY <1>1, <1>2 DEF LocalOK

LEMMA LocalLeft ==
  ASSUME NEW j \in Jobs, bars'[j] = NoBars, todo'[j] = {}, written'[j] = 0
  PROVE  LocalOK(j)'
  <1>1. Delivered(j)' = {}
    BY DEF Delivered, NoBars
  <1> QED
    BY <1>1, FS_EmptySet DEF LocalOK

\* Before the fetch there is nothing to write.
LEMMA NothingYet ==
  ASSUME NEW j \in Jobs, LocalOK(j), pc[j] \in {"idle", "start", "fetch"}
  PROVE  bars[j] = NoBars /\ todo[j] = {} /\ written[j] = 0
  BY DEF LocalOK, Delivered, NoBars

LEMMA BatchCount ==
  ASSUME TypeOK, NEW j \in Jobs
  PROVE  /\ Affected(j) \in Nat /\ Cardinality(Remaining(j)) \in Nat
         /\ Affected(j) + Cardinality(Remaining(j)) <= Cardinality(todo[j])
  <1> DEFINE D == {t \in Batch(j) : prices[Ser(j)][t] # bars[j][t]}
  <1>1. todo[j] \subseteq Ts /\ D \subseteq Batch(j) /\ Batch(j) \subseteq todo[j]
    BY DEF TypeOK, ThreadOK, Batch
  <1>2. /\ IsFiniteSet(todo[j]) /\ IsFiniteSet(Batch(j))
        /\ Cardinality(todo[j]) \in Nat /\ Cardinality(Batch(j)) \in Nat
        /\ Cardinality(D) \in Nat
    BY <1>1, TsFinite
  <1>3. Cardinality(D) <= Cardinality(Batch(j))
    BY <1>1, <1>2, FS_Subset
  <1>4. Cardinality(todo[j] \ Batch(j)) = Cardinality(todo[j]) - Cardinality(todo[j] \cap Batch(j))
    BY <1>2, FS_Difference
  <1>5. todo[j] \cap Batch(j) = Batch(j)
    BY <1>1
  <1>6. Cardinality(Remaining(j)) \in Nat
    BY <1>1, TsFinite DEF Remaining
  <1>7. Affected(j) = Cardinality(D)
    BY DEF Affected
  <1>8. Cardinality(Remaining(j)) = Cardinality(todo[j]) - Cardinality(Batch(j))
    BY <1>4, <1>5 DEF Remaining
  <1> HIDE DEF D
  <1> QED
    BY <1>2, <1>3, <1>6, <1>7, <1>8

\* NextSymbol, or a step that keeps the locals, keeps LocalOK for every thread.
LEMMA LeftOrKept ==
  ASSUME TypeOK, FetchedIsStored, [Next]_vars, NEW j \in Jobs, NextSymbol(j) \/ Keeps(j)
  PROVE  FetchedIsStored'
  <1> SUFFICES ASSUME NEW k \in Jobs PROVE LocalOK(k)'
    BY DEF FetchedIsStored
  <1>1. LocalOK(k) /\ \A s \in Series : Stored(s) \subseteq Stored(s)'
    BY StoredGrows DEF FetchedIsStored
  <1>2. CASE k = j /\ NextSymbol(j)
    BY <1>2, LocalLeft DEF NextSymbol, TypeOK, ThreadOK
  <1>3. CASE k # j \/ Keeps(j)
    <2>1. /\ idx'[k] = idx[k] /\ bars'[k] = bars[k] /\ todo'[k] = todo[k]
          /\ written'[k] = written[k] /\ pc'[k] \in {pc[k], "record"}
      BY <1>3 DEF NextSymbol, Keeps, local, TypeOK, ThreadOK
    <2> QED
      BY <1>1, <2>1, LocalKept
  <1> QED
    BY <1>2, <1>3

\* The other threads of a step that only changes the locals of j.
LEMMA OthersKept ==
  ASSUME TypeOK, FetchedIsStored, [Next]_vars, NEW j \in Jobs, LocalOK(j)',
         \A k \in Jobs \ {j} : /\ pc'[k] = pc[k] /\ idx'[k] = idx[k] /\ bars'[k] = bars[k]
                              /\ todo'[k] = todo[k] /\ written'[k] = written[k]
  PROVE  FetchedIsStored'
  <1> SUFFICES ASSUME NEW k \in Jobs \ {j} PROVE LocalOK(k)'
    BY DEF FetchedIsStored
  <1>1. LocalOK(k) /\ \A s \in Series : Stored(s) \subseteq Stored(s)'
    BY StoredGrows DEF FetchedIsStored
  <1> QED
    BY <1>1, LocalKept

LEMMA InitFetched == Init => FetchedIsStored
  <1> SUFFICES ASSUME Init, NEW j \in Jobs PROVE LocalOK(j)
    BY DEF FetchedIsStored
  <1>1. Delivered(j) = {}
    BY DEF Init, Delivered, NoBars
  <1> QED
    BY <1>1, FS_EmptySet DEF Init, LocalOK

LEMMA NextFetched == TypeOK /\ FetchedIsStored /\ [Next]_vars => FetchedIsStored'
  <1> SUFFICES ASSUME TypeOK, FetchedIsStored, [Next]_vars PROVE FetchedIsStored'
    OBVIOUS
  <1>0. \A j \in Jobs : LocalOK(j)
    BY DEF FetchedIsStored
  <1>1. ASSUME UNCHANGED <<pc, idx, local>> PROVE FetchedIsStored'
    <2> SUFFICES ASSUME NEW k \in Jobs PROVE LocalOK(k)'
      BY DEF FetchedIsStored
    <2> QED
      BY <1>0, <1>1, StoredGrows, LocalKept DEF local
  <1>2. ASSUME NEW j \in Jobs, Trigger(j) PROVE FetchedIsStored'
    <2>1. bars'[j] = NoBars /\ todo'[j] = {} /\ written'[j] = 0
      BY <1>0, <1>2, NothingYet DEF Trigger, local
    <2> QED
      BY <1>2, <2>1, LocalLeft, OthersKept DEF Trigger, local, TypeOK, ThreadOK
  <1>3. ASSUME NEW j \in Jobs, StartRun(j) PROVE FetchedIsStored'
    <2>1. CASE Goto(j, "fetch") /\ UNCHANGED <<local, summary, ambiguous>>
      <3>1. bars'[j] = NoBars /\ todo'[j] = {} /\ written'[j] = 0
        BY <1>0, <1>3, <2>1, NothingYet DEF StartRun, local
      <3> QED
        BY <2>1, <3>1, LocalLeft, OthersKept DEF Goto, local, TypeOK, ThreadOK
    <2>2. CASE Retried(j)
      BY <2>2, RetriedOutcome, LeftOrKept
    <2> QED
      BY <1>3, <2>1, <2>2 DEF StartRun
  <1>4. ASSUME NEW j \in Jobs, Fetch(j) PROVE FetchedIsStored'
    <2>1. todo'[j] = Window(j) /\ bars'[j] = Served(j) /\ pc'[j] = "upsert" /\ written'[j] = 0
      BY <1>0, <1>4, NothingYet DEF Fetch, Goto, TypeOK, ThreadOK
    <2>2. Delivered(j)' = Window(j) /\ Window(j) \subseteq Ts
      BY <2>1 DEF Delivered, Served, Window, Published
    <2>3. Cardinality(Window(j)) \in Nat
      BY <2>2, TsFinite
    <2>4. LocalOK(j)'
      BY <2>1, <2>2, <2>3 DEF LocalOK
    <2> QED
      BY <1>4, <2>4, OthersKept DEF Fetch, Goto, TypeOK, ThreadOK
  <1>5. ASSUME NEW j \in Jobs, FetchNothing(j) PROVE FetchedIsStored'
    <2>1. bars'[j] = NoBars /\ todo'[j] = {} /\ written'[j] = 0
      BY <1>0, <1>5, NothingYet DEF FetchNothing, local
    <2> QED
      BY <1>5, <2>1, LocalLeft, OthersKept DEF FetchNothing, Goto, local, TypeOK, ThreadOK
  <1>6. ASSUME NEW j \in Jobs, Upsert(j) PROVE FetchedIsStored'
    <2>1. CASE Retried(j)
      BY <2>1, RetriedOutcome, LeftOrKept
    <2>2. CASE /\ todo' = [todo EXCEPT ![j] = Remaining(j)]
               /\ written' = [written EXCEPT ![j] = @ + Affected(j)]
               /\ \/ Remaining(j) # {} /\ Goto(j, "upsert")
                  \/ Remaining(j) = {} /\ Goto(j, "finish")
               /\ UNCHANGED bars
      <3>1. /\ todo'[j] = Remaining(j) /\ written'[j] = written[j] + Affected(j)
            /\ idx' = idx /\ pc'[j] \in {"upsert", "finish"}
            /\ pc'[j] = "finish" => Remaining(j) = {}
        BY <2>2 DEF Goto, TypeOK, ThreadOK
      <3>2. Ser(j)' = Ser(j) /\ Delivered(j)' = Delivered(j) /\ Ser(j) \in Series
        BY <2>2, <3>1, SerType DEF Ser, Delivered
      <3>3. Delivered(j) \ Remaining(j) \subseteq Stored(Ser(j))'
        <4>1. Delivered(j) \ todo[j] \subseteq Stored(Ser(j))'
          <5>1. \A s \in Series : Stored(s) \subseteq Stored(s)'
            BY StoredGrows
          <5> QED
            BY <1>0, <3>2, <5>1 DEF LocalOK, Stored
        <4>2. \A t \in Batch(j) : t \in Ts /\ prices'[Ser(j)][t] = bars[j][t] /\ bars[j][t] > 0
          BY <1>0, <1>6, <3>2, UpsertWrites DEF LocalOK, Batch, Delivered
        <4> QED
          BY <3>2, <4>1, <4>2 DEF Remaining, Stored
      <3>4. written'[j] + Cardinality(Remaining(j)) <= Cardinality(Delivered(j))
        <4>1. Cardinality(todo[j]) \in Nat /\ Cardinality(Delivered(j)) \in Nat
          BY TsFinite DEF TypeOK, ThreadOK, Delivered
        <4>2. written[j] + Cardinality(todo[j]) <= Cardinality(Delivered(j)) /\ written[j] \in Nat
          BY <1>0 DEF LocalOK, TypeOK, ThreadOK
        <4> QED
          BY <3>1, <4>1, <4>2, BatchCount
      <3>5. Remaining(j) \subseteq Delivered(j)
        BY <1>0 DEF LocalOK, Remaining
      <3>6. LocalOK(j)'
        BY <3>1, <3>2, <3>3, <3>4, <3>5 DEF LocalOK
      <3> QED
        BY <2>2, <3>6, OthersKept DEF Goto, TypeOK, ThreadOK
    <2> QED
      BY <1>6, <2>1, <2>2 DEF Upsert
  <1>7. ASSUME NEW j \in Jobs, FinishRun(j) \/ CallFails(j) \/ RecordFailure(j) \/ RecordFails(j)
        PROVE  FetchedIsStored'
    <2>1. NextSymbol(j) \/ Keeps(j)
      BY <1>7, RetriedOutcome, AgainOutcome, RaiseOutcome
         DEF FinishRun, CallFails, RecordFailure, RecordFails, GiveUp
    <2> QED
      BY <2>1, LeftOrKept
  <1>8. CASE Crash
    <2> SUFFICES ASSUME NEW k \in Jobs PROVE LocalOK(k)'
      BY DEF FetchedIsStored
    <2> QED
      BY <1>8, LocalLeft DEF Crash
  <1> QED
    BY <1>1, <1>2, <1>3, <1>4, <1>5, <1>6, <1>7, <1>8 DEF Next, Step, vars, Publish, control

\* Only these three calls touch an audit row, and only the row of their thread.
LEMMA RunChange ==
  ASSUME TypeOK, [Next]_vars, NEW r \in RunIds, runs'[r] # runs[r]
  PROVE  \E j \in Jobs : r = Id(j) /\ (StartRun(j) \/ FinishRun(j) \/ RecordFailure(j))
  <1>1. \E j \in Jobs : StartRun(j) \/ FinishRun(j) \/ RecordFailure(j)
    BY DEF Next, Step, vars, Publish, Trigger, Fetch, FetchNothing, Upsert, CallFails,
           RecordFails, Crash
  <1>2. PICK j \in Jobs : StartRun(j) \/ FinishRun(j) \/ RecordFailure(j)
    BY <1>1
  <1>3. \E v : runs' = [runs EXCEPT ![Id(j)] = v]
    BY <1>2 DEF StartRun, Inserted, FinishRun, RecordFailure, Closed, Close
  <1> QED
    BY <1>2, <1>3 DEF TypeOK, DataOK, StartRun, FinishRun, RecordFailure

\* What they leave in it.
LEMMA RunOutcome ==
  ASSUME TypeOK, NEW j \in Jobs
  PROVE  /\ StartRun(j) => runs'[Id(j)].status = "running"
         /\ FinishRun(j) => runs'[Id(j)] =
              [status   |-> IF Delivered(j) = {} THEN "empty" ELSE "success",
               received |-> Cardinality(Delivered(j)),
               upserted |-> written[j]]
         /\ RecordFailure(j) => runs'[Id(j)] = Failed
  <1>1. ASSUME StartRun(j) PROVE runs'[Id(j)].status = "running"
    <2>1. Id(j) \in RunIds
      BY <1>1, IdType DEF StartRun
    <2> QED
      BY <1>1, <2>1 DEF StartRun, Inserted, TypeOK, DataOK, Row
  <1>2. ASSUME pc[j] # "idle", NEW s, NEW n, NEW u, Closed(j, s, n, u)
        PROVE  runs'[Id(j)] = [status |-> s, received |-> n, upserted |-> u]
    BY <1>2, IdType DEF Closed, Close, TypeOK, DataOK
  <1> QED
    BY <1>1, <1>2 DEF FinishRun, RecordFailure, Failed

LEMMA NextSuccess ==
  TypeOK /\ FetchedIsStored /\ SuccessImpliesStored /\ [Next]_vars => SuccessImpliesStored'
  <1> SUFFICES ASSUME TypeOK, FetchedIsStored, SuccessImpliesStored, [Next]_vars,
                      NEW r \in RunIds, runs'[r].status = "success"
               PROVE  /\ runs'[r].received \in 1..Cardinality(Stored(SeriesOf(r))')
                      /\ runs'[r].upserted <= runs'[r].received
    BY DEF SuccessImpliesStored, SeriesOf
  <1> DEFINE old == Stored(SeriesOf(r))
             new == Stored(SeriesOf(r))'
  <1>1. SeriesOf(r) \in Series
    BY IngestAssumption DEF RunIds, SeriesOf, Series
  <1>2. old \subseteq new /\ new \subseteq Ts
    BY <1>1, StoredGrows DEF Stored
  <1>3. /\ Cardinality(old) \in Nat /\ Cardinality(new) \in Nat
        /\ Cardinality(old) <= Cardinality(new)
    <2>1. IsFiniteSet(new) /\ old \in SUBSET Ts /\ new \in SUBSET Ts
      BY <1>2, TsFinite
    <2> QED
      BY <1>2, <2>1, TsFinite, FS_Subset
  <1>4. CASE runs'[r] = runs[r]
    <2>1. runs[r].received \in 1..Cardinality(old) /\ runs[r].upserted <= runs[r].received
      BY <1>4 DEF SuccessImpliesStored
    <2> HIDE DEF old, new
    <2>2. runs[r].received \in 1..Cardinality(new)
      BY <1>3, <2>1
    <2> QED
      BY <1>4, <2>1, <2>2 DEF new
  <1>5. CASE runs'[r] # runs[r]
    <2>1. PICK j \in Jobs : r = Id(j) /\ (StartRun(j) \/ FinishRun(j) \/ RecordFailure(j))
      BY <1>5, RunChange
    <2>2. FinishRun(j)
      <3>1. ASSUME StartRun(j) PROVE FALSE
        BY <2>1, <3>1, RunOutcome
      <3>2. ASSUME RecordFailure(j) PROVE FALSE
        <4>1. runs'[r] = Failed
          BY <2>1, <3>2, RunOutcome
        <4> QED
          BY <4>1 DEF Failed
      <3> QED
        BY <2>1, <3>1, <3>2
    <2>3. /\ Delivered(j) # {} /\ runs'[r].received = Cardinality(Delivered(j))
          /\ runs'[r].upserted = written[j]
      <3>1. runs'[r] = [status   |-> IF Delivered(j) = {} THEN "empty" ELSE "success",
                        received |-> Cardinality(Delivered(j)),
                        upserted |-> written[j]]
        BY <2>1, <2>2, RunOutcome
      <3> QED
        BY <3>1
    <2>4. LocalOK(j) /\ todo[j] = {}
      BY <2>2 DEF FetchedIsStored, LocalOK, FinishRun
    <2>5. SeriesOf(r) = Ser(j)
      BY <2>1 DEF SeriesOf, Ser, Id
    <2>6. Delivered(j) \subseteq old /\ old \subseteq Ts /\ IsFiniteSet(old)
      BY <2>4, <2>5, TsFinite DEF LocalOK, Stored
    <2>7. /\ Cardinality(Delivered(j)) \in Nat /\ Cardinality(Delivered(j)) # 0
          /\ Cardinality(Delivered(j)) <= Cardinality(old)
      BY <2>3, <2>6, TsFinite, FS_Subset, FS_EmptySet
    <2>8. written[j] <= Cardinality(Delivered(j))
      BY <2>4, <2>7, FS_EmptySet DEF LocalOK, TypeOK, ThreadOK
    <2> HIDE DEF old, new
    <2>9. Cardinality(Delivered(j)) \in 1..Cardinality(new)
      BY <1>3, <2>7
    <2> QED
      BY <2>3, <2>8, <2>9 DEF new
  <1> QED
    BY <1>4, <1>5

\* A row that says success has its bars in market_prices: no retry, lost
\* acknowledgement, crash or concurrent job leaves a batch of a success out, and
\* nothing deletes a bar afterwards.
THEOREM SuccessIsStored == Spec => []SuccessImpliesStored
  <1> DEFINE IInv == TypeOK /\ FetchedIsStored /\ SuccessImpliesStored
  <1>1. Init => IInv
    <2>1. Init => FetchedIsStored
      BY InitFetched
    <2>2. Init => SuccessImpliesStored
      BY DEF Init, SuccessImpliesStored, Absent
    <2> QED
      BY <2>1, <2>2, InitType
  <1>2. IInv /\ [Next]_vars => IInv'
    BY NextType, NextFetched, NextSuccess
  <1> QED
    BY <1>1, <1>2, PTL DEF Spec
-----------------------------------------------------------------------------
(* With one job per interval, no older revision goes over a newer one. *)

OneJobPerInterval == \A j, k \in Jobs : Interval[j] = Interval[k] => j = k

LEMMA ViewGrows ==
  ASSUME TypeOK, [Next]_vars, NEW s \in Series, NEW t \in Ts
  PROVE  view[s][t] \in Nat /\ view'[s][t] \in Nat /\ view[s][t] <= view'[s][t]
  <1>1. view[s][t] \in 0..MaxRev /\ view'[s][t] \in 0..MaxRev
    BY NextType DEF TypeOK, DataOK
  <1>2. ASSUME NEW z \in Series, NEW u \in Ts, Publish(z, u) PROVE view[s][t] <= view'[s][t]
    BY <1>1, <1>2 DEF Publish, TypeOK, DataOK
  <1>3. UNCHANGED view \/ \E z \in Series, u \in Ts : Publish(z, u)
    BY DEF Next, Step, vars, Trigger, StartRun, Fetch, FetchNothing, Upsert, FinishRun,
           CallFails, RecordFailure, RecordFails, Crash
  <1> QED
    BY <1>1, <1>2, <1>3

\* A thread's bars are those of an earlier state, newly fetched, or gone.
LEMMA BarsStep ==
  ASSUME TypeOK, FetchedIsStored, [Next]_vars, NEW k \in Jobs
  PROVE  \/ bars'[k] = NoBars /\ todo'[k] = {}
         \/ Fetch(k)
         \/ bars'[k] = bars[k] /\ idx'[k] = idx[k] /\ todo'[k] \subseteq todo[k]
  <1> DEFINE Gone == bars'[k] = NoBars /\ todo'[k] = {}
             Same == bars'[k] = bars[k] /\ idx'[k] = idx[k] /\ todo'[k] \subseteq todo[k]
  <1> USE DEF TypeOK, ThreadOK
  <1>1. ASSUME NEW j \in Jobs, NextSymbol(j) \/ Keeps(j) PROVE Gone \/ Same
    BY <1>1 DEF NextSymbol, Keeps, local
  <1>2. ASSUME NEW j \in Jobs, Retried(j) PROVE Gone \/ Same
    BY <1>1, <1>2, RetriedOutcome
  <1>3. ASSUME NEW j \in Jobs, Trigger(j) PROVE Gone \/ Same
    <2>1. LocalOK(k)
      BY DEF FetchedIsStored
    <2> QED
      BY <1>3, <2>1, NothingYet DEF Trigger, local
  <1>4. ASSUME NEW j \in Jobs, StartRun(j) PROVE Gone \/ Same
    BY <1>2, <1>4 DEF StartRun, Goto, local
  <1>5. ASSUME NEW j \in Jobs, Fetch(j) PROVE Fetch(k) \/ Same
    BY <1>5 DEF Fetch, Goto
  <1>6. ASSUME NEW j \in Jobs, FetchNothing(j) PROVE Gone \/ Same
    BY <1>6 DEF FetchNothing, Goto, local
  <1>7. ASSUME NEW j \in Jobs, Upsert(j) PROVE Gone \/ Same
    BY <1>2, <1>7 DEF Upsert, Goto, Remaining
  <1>8. ASSUME NEW j \in Jobs, FinishRun(j) \/ CallFails(j) \/ RecordFailure(j) \/ RecordFails(j)
        PROVE  Gone \/ Same
    BY <1>1, <1>2, <1>8, RaiseOutcome, AgainOutcome
       DEF FinishRun, CallFails, RecordFailure, RecordFails, GiveUp
  <1>9. CASE Crash
    BY <1>9 DEF Crash
  <1>10. CASE UNCHANGED <<bars, todo, idx>>
    BY <1>10
  <1> QED
    BY <1>3, <1>4, <1>5, <1>6, <1>7, <1>8, <1>9, <1>10
       DEF Next, Step, vars, Publish, control, local

LEMMA NextServed ==
  ASSUME TypeOK, FetchedIsStored, ServedRevisions, [Next]_vars
  PROVE  ServedRevisions'
  <1>1. ASSUME NEW s \in Series, NEW t \in Ts PROVE prices'[s][t] <= view'[s][t]
    <2>1. prices[s][t] <= view[s][t] /\ prices[s][t] \in Nat
      BY DEF ServedRevisions, TypeOK, DataOK
    <2>2. ASSUME NEW j \in Jobs, Upsert(j) PROVE prices'[s][t] <= view'[s][t]
      <3>1. bars[j][t] <= view[Ser(j)][t] /\ bars[j][t] \in Nat
        BY DEF ServedRevisions, TypeOK, ThreadOK
      <3> QED
        BY <2>1, <2>2, <3>1, UpsertWrites, ViewGrows
    <2>3. CASE UNCHANGED prices
      BY <2>1, <2>3, ViewGrows
    <2> QED
      BY <2>2, <2>3, OnlyUpsertWrites
  <1>2. ASSUME NEW j \in Jobs, NEW t \in Ts PROVE bars'[j][t] <= view'[Ser(j)'][t]
    <2>1. Ser(j)' \in Series /\ Ser(j) \in Series
      BY NextType, SerType DEF TypeOK, ThreadOK, Ser, Series, IngestAssumption
    <2>2. view'[Ser(j)'][t] \in Nat
      BY <2>1, ViewGrows
    <2>3. CASE bars'[j] = NoBars
      BY <2>2, <2>3 DEF NoBars
    <2>4. CASE Fetch(j)
      <3>1. bars'[j][t] \in {0, view[Ser(j)][t]} /\ Ser(j)' = Ser(j)
        BY <2>4 DEF Fetch, Served, Goto, Ser, TypeOK, ThreadOK
      <3> QED
        BY <2>1, <2>2, <3>1, ViewGrows
    <2>5. CASE bars'[j] = bars[j] /\ idx'[j] = idx[j]
      <3>1. Ser(j)' = Ser(j) /\ bars[j][t] <= view[Ser(j)][t] /\ bars[j][t] \in Nat
        BY <2>5 DEF Ser, ServedRevisions, TypeOK, ThreadOK
      <3> QED
        BY <2>1, <2>5, <3>1, ViewGrows
    <2> QED
      BY <2>3, <2>4, <2>5, BarsStep
  <1> QED
    BY <1>1, <1>2 DEF ServedRevisions, Ser

LEMMA NextNewer ==
  ASSUME OneJobPerInterval, TypeOK, FetchedIsStored, ServedRevisions, NewerBars, [Next]_vars
  PROVE  /\ NewerBars'
         /\ \A s \in Series, t \in Ts : prices'[s][t] >= prices[s][t]
  <1>1. \A j \in Jobs : \A t \in todo[j] :
          /\ t \in Ts /\ bars[j][t] \in Nat /\ prices[Ser(j)][t] \in Nat
          /\ prices[Ser(j)][t] <= bars[j][t]
    BY SerType DEF NewerBars, TypeOK, ThreadOK, DataOK
  <1>2. ASSUME NEW s \in Series, NEW t \in Ts PROVE prices'[s][t] >= prices[s][t]
    <2>1. prices[s][t] \in Nat
      BY DEF TypeOK, DataOK
    <2>2. ASSUME NEW j \in Jobs, Upsert(j) PROVE prices'[s][t] >= prices[s][t]
      <3>1. CASE s = Ser(j) /\ t \in Batch(j)
        <4>1. t \in todo[j] /\ prices'[s][t] = bars[j][t]
          BY <2>2, <3>1, UpsertWrites DEF Batch
        <4> QED
          BY <1>1, <3>1, <4>1
      <3>2. CASE ~(s = Ser(j) /\ t \in Batch(j))
        <4>1. prices'[s][t] = prices[s][t]
          BY <2>2, <3>2, UpsertWrites
        <4> QED
          BY <2>1, <4>1
      <3> QED
        BY <3>1, <3>2
    <2> QED
      BY <2>1, <2>2, OnlyUpsertWrites
  <1>3. ASSUME NEW k \in Jobs, NEW t \in todo'[k] PROVE prices'[Ser(k)'][t] <= bars'[k][t]
    <2>1. CASE Fetch(k)
      <3>1. Ser(k)' = Ser(k) /\ prices' = prices /\ t \in Ts
            /\ bars'[k][t] = view[Ser(k)][t]
        BY <2>1 DEF Fetch, Served, Window, Published, Goto, Ser, TypeOK, ThreadOK
      <3> QED
        BY <3>1, SerType DEF ServedRevisions
    <2>2. CASE bars'[k] = bars[k] /\ idx'[k] = idx[k] /\ todo'[k] \subseteq todo[k]
      <3>1. Ser(k)' = Ser(k) /\ t \in todo[k] /\ Ser(k) \in Series
        BY <2>2, SerType DEF Ser
      <3>2. ASSUME NEW j \in Jobs, Upsert(j) PROVE prices'[Ser(k)][t] <= bars[k][t]
        <4>1. prices'[Ser(k)][t] = IF Ser(k) = Ser(j) /\ t \in Batch(j) THEN bars[j][t]
                                                                       ELSE prices[Ser(k)][t]
          BY <1>1, <3>1, <3>2, UpsertWrites
        <4>2. Ser(k) = Ser(j) => k = j
          BY DEF OneJobPerInterval, Ser
        <4> QED
          BY <1>1, <3>1, <4>1, <4>2
      <3> QED
        BY <1>1, <2>2, <3>1, <3>2, OnlyUpsertWrites
    <2> QED
      BY <2>1, <2>2, BarsStep
  <1> QED
    BY <1>2, <1>3 DEF NewerBars, Ser

\* When no two jobs ingest the same interval, market_prices never goes back to an
\* older revision of a bar: not by a retry of a slow pass, nor after a crash.
THEOREM NewestRevisionStays ==
  ASSUME OneJobPerInterval
  PROVE  Spec => NoStaleOverwrite
  <1> DEFINE IInv == TypeOK /\ FetchedIsStored /\ ServedRevisions /\ NewerBars
  <1>1. Init => IInv
    <2>1. Init => FetchedIsStored
      BY InitFetched
    <2>2. Init => ServedRevisions /\ NewerBars
      <3> SUFFICES ASSUME Init PROVE ServedRevisions /\ NewerBars
        OBVIOUS
      <3>1. \A j \in Jobs : Ser(j) \in Series
        BY InitType, SerType
      <3> QED
        BY <3>1 DEF Init, NoBars, ServedRevisions, NewerBars
    <2> QED
      BY <2>1, <2>2, InitType
  <1>2. IInv /\ [Next]_vars => IInv'
    BY NextType, NextFetched, NextServed, NextNewer
  <1>3. IInv /\ [Next]_vars => [\A s \in Series, t \in Ts : prices'[s][t] >= prices[s][t]]_vars
    BY NextNewer
  <1> QED
    BY <1>1, <1>2, <1>3, PTL DEF Spec, NoStaleOverwrite
-----------------------------------------------------------------------------
(* The gaps a restart leaves. *)

HealInv == TypeOK /\ FetchedIsStored /\ PublishedInOrder /\ WindowFull /\ GapsHeal

\* The history variable does not restrict the jobs.
LEMMA JobsStep ==
  ASSUME [HNext]_allVars
  PROVE  /\ [Next]_vars
         /\ UNCHANGED healed \/ \E j \in Jobs : HFinish(j)
  BY DEF HNext, HPublish, HTrigger, HCrash, HFinish, HStep, Next, Step, allVars, vars

\* A series is published from its first bar on.
LEMMA NextPublished ==
  ASSUME TypeOK, PublishedInOrder, [Next]_vars
  PROVE  PublishedInOrder'
  <1> SUFFICES ASSUME NEW s \in Series, NEW t \in Published(s)', NEW u \in Ts, u < t
               PROVE  u \in Published(s)'
    BY DEF PublishedInOrder
  <1>1. \A v \in Ts : view[s][v] <= view'[s][v] /\ view[s][v] \in Nat /\ view'[s][v] \in Nat
    BY ViewGrows
  <1>2. CASE t \in Published(s)
    BY <1>1, <1>2 DEF PublishedInOrder, Published
  <1>3. CASE t \notin Published(s)
    <2>1. PICK z \in Series, v \in Ts : Publish(z, v)
      BY <1>3 DEF Next, Step, vars, Trigger, StartRun, Fetch, FetchNothing, Upsert, FinishRun,
                  CallFails, RecordFailure, RecordFails, Crash, Published
    <2>2. z = s /\ v = t
      BY <1>3, <2>1 DEF Publish, Published, TypeOK, DataOK
    <2>3. view[s][u] > 0
      BY <2>1, <2>2 DEF Publish
    <2> QED
      BY <1>1, <2>3 DEF Published
  <1> QED
    BY <1>2, <1>3

\* What is delivered depends on the bars only.
LEMMA WindowKept ==
  ASSUME NEW j \in Jobs, bars'[j] = bars[j]
  PROVE  Delivered(j)' = Delivered(j) /\ UpTo(j)' = UpTo(j)
  BY DEF Delivered, UpTo

\* A fetch delivers the newest bars of the series, as many as it has or as the
\* lookback asks for.
LEMMA FetchFull ==
  ASSUME TypeOK, PublishedInOrder, NEW j \in Jobs, Fetch(j),
         NEW t \in Ts, NEW u \in Delivered(j)', t < u, t \notin Delivered(j)'
  PROVE  Cardinality({v \in UpTo(j)' : v > t}) >= Lookback[j]
  <1> DEFINE P == Published(Ser(j))
             Newer(x) == {v \in P : v > x}
  <1>1. Delivered(j)' = Window(j) /\ Window(j) \subseteq P /\ P \subseteq Ts /\ Ts \subseteq Nat
    BY DEF Fetch, Delivered, Served, Window, Published, TypeOK, ThreadOK, Ts
  <1>2. Ser(j) \in Series /\ Lookback[j] \in Nat
    BY SerType, IngestAssumption
  <1>3. \A x \in Ts : IsFiniteSet(Newer(x)) /\ Cardinality(Newer(x)) \in Nat
    <2>1. \A x \in Ts : Newer(x) \in SUBSET Ts
      BY <1>1
    <2> QED
      BY <2>1, TsFinite
  <1>4. \A x \in P : x \in Window(j) <=> Cardinality(Newer(x)) < Lookback[j]
    BY DEF Window
  <1>5. t \in P /\ u \in P /\ u \in Window(j) /\ t \notin Window(j)
    BY <1>1, <1>2 DEF PublishedInOrder
  <1>6. Cardinality(Newer(t)) >= Lookback[j]
    BY <1>1, <1>2, <1>3, <1>4, <1>5
  <1>7. ASSUME NEW v \in Newer(t) PROVE v \in UpTo(j)'
    <2>1. v \in P /\ v \in Ts
      BY <1>1
    <2>2. CASE v <= u
      BY <1>1, <1>5, <2>1, <2>2 DEF UpTo
    <2>3. CASE v > u
      <3>1. Newer(v) \subseteq Newer(u)
        <4> SUFFICES ASSUME NEW x \in P, x > v PROVE x > u
          OBVIOUS
        <4>1. u \in Nat /\ v \in Nat /\ x \in Nat
          BY <1>1, <1>5, <2>1
        <4> QED
          BY <2>3, <4>1
      <3>2. Cardinality(Newer(v)) <= Cardinality(Newer(u))
        BY <1>1, <1>3, <1>5, <3>1, FS_Subset
      <3>3. v \in Window(j)
        BY <1>1, <1>2, <1>3, <1>4, <1>5, <2>1, <3>2
      <3> QED
        BY <1>1, <2>1, <3>3 DEF UpTo
    <2> QED
      BY <1>1, <1>5, <2>1, <2>2, <2>3
  <1>8. Newer(t) \subseteq {v \in UpTo(j)' : v > t}
    BY <1>7
  <1>9. {v \in UpTo(j)' : v > t} \in SUBSET Ts
    BY DEF UpTo
  <1>10. /\ Cardinality(Newer(t)) <= Cardinality({v \in UpTo(j)' : v > t})
         /\ Cardinality({v \in UpTo(j)' : v > t}) \in Nat
    BY <1>8, <1>9, TsFinite, FS_Subset
  <1> HIDE DEF P, Newer
  <1> QED
    BY <1>2, <1>3, <1>6, <1>10

LEMMA NextWindow ==
  ASSUME TypeOK, FetchedIsStored, PublishedInOrder, WindowFull, [Next]_vars
  PROVE  WindowFull'
  <1> SUFFICES ASSUME NEW j \in Jobs, NEW t \in Ts, NEW u \in Delivered(j)',
                      t < u, t \notin Delivered(j)'
               PROVE  Cardinality({v \in UpTo(j)' : v > t}) >= Lookback[j]
    BY DEF WindowFull
  <1>1. CASE bars'[j] = NoBars
    BY <1>1 DEF Delivered, NoBars
  <1>2. CASE Fetch(j)
    BY <1>2, FetchFull
  <1>3. CASE bars'[j] = bars[j]
    BY <1>3, WindowKept DEF WindowFull
  <1> QED
    BY <1>1, <1>2, <1>3, BarsStep
-----------------------------------------------------------------------------
\* A success that misses no more bars than the lookback leaves none of them out.
LEMMA NothingLeftOut ==
  ASSUME HealInv, NEW j \in Jobs, FinishRun(j), Cardinality(Missed(j)) <= Lookback[j]
  PROVE  UpTo(j) \subseteq Stored(Ser(j))
  <1> SUFFICES ASSUME NEW t \in UpTo(j), t \notin Stored(Ser(j)) PROVE FALSE
    OBVIOUS
  <1> DEFINE newer == {v \in UpTo(j) : v > t}
  <1>1. /\ Ser(j) \in Series /\ Lookback[j] \in Nat
        /\ healed[Ser(j)] \subseteq Stored(Ser(j))
        /\ \A x \in healed[Ser(j)], y \in Ts : y < x => y \in healed[Ser(j)]
    BY SerType, IngestAssumption DEF HealInv, GapsHeal
  <1>2. Delivered(j) \subseteq Stored(Ser(j))
    BY DEF HealInv, FetchedIsStored, LocalOK, FinishRun
  <1>3. UpTo(j) \subseteq Ts /\ Delivered(j) \subseteq Ts /\ Ts \subseteq Nat
    BY DEF UpTo, Delivered, Ts
  <1>4. PICK u \in Delivered(j) : t <= u
    BY DEF UpTo
  <1>5. t \notin Delivered(j) /\ t \in Nat /\ u \in Nat /\ t < u
    <2>1. t \notin Delivered(j) /\ t \in Nat /\ u \in Nat
      BY <1>2, <1>3, <1>4
    <2> QED
      BY <1>4, <2>1
  <1>6. Cardinality(newer) >= Lookback[j]
    BY <1>3, <1>5 DEF HealInv, WindowFull
  <1>7. newer \cup {t} \subseteq Missed(j) /\ t \notin newer
    <2>1. ASSUME NEW v \in newer PROVE v \notin healed[Ser(j)]
      BY <1>1, <1>3
    <2>2. newer \subseteq UpTo(j) /\ t \notin healed[Ser(j)]
      BY <1>1
    <2>3. t \notin newer
      BY <1>5
    <2> QED
      BY <2>1, <2>2, <2>3 DEF Missed
  <1>8. /\ IsFiniteSet(newer) /\ IsFiniteSet(Missed(j))
        /\ Cardinality(newer) \in Nat /\ Cardinality(Missed(j)) \in Nat
    <2>1. newer \in SUBSET Ts /\ Missed(j) \in SUBSET Ts
      BY <1>3 DEF Missed
    <2> QED
      BY <2>1, TsFinite
  <1> HIDE DEF newer
  <1>9. Cardinality(newer \cup {t}) = Cardinality(newer) + 1
    BY <1>7, <1>8, FS_AddElement
  <1>10. Cardinality(newer \cup {t}) <= Cardinality(Missed(j))
    BY <1>7, <1>8, FS_Subset
  <1> QED
    BY <1>1, <1>6, <1>8, <1>9, <1>10

LEMMA NextHealed ==
  ASSUME HealInv, healed \in [Series -> SUBSET Ts], [HNext]_allVars
  PROVE  GapsHeal' /\ healed' \in [Series -> SUBSET Ts]
  <1>1. \A s \in Series : Stored(s) \subseteq Stored(s)'
    BY JobsStep, StoredGrows DEF HealInv
  <1>2. ASSUME UNCHANGED healed PROVE GapsHeal' /\ healed' \in [Series -> SUBSET Ts]
    BY <1>1, <1>2 DEF HealInv, GapsHeal
  <1>3. ASSUME NEW j \in Jobs, HFinish(j), Cardinality(Missed(j)) <= Lookback[j]
        PROVE  GapsHeal' /\ healed' \in [Series -> SUBSET Ts]
    <2>1. /\ UpTo(j) \subseteq Stored(Ser(j)) /\ UpTo(j) \subseteq Ts
          /\ Delivered(j) \subseteq Ts /\ Ts \subseteq Nat
      BY <1>3, NothingLeftOut DEF HFinish, UpTo, Delivered, Ts
    <2>2. healed' = [healed EXCEPT ![Ser(j)] = @ \cup UpTo(j)]
      BY <1>3 DEF HFinish, Heal
    <2>3. ASSUME NEW t \in UpTo(j), NEW u \in Ts, u < t PROVE u \in UpTo(j)
      <3>1. PICK d \in Delivered(j) : t <= d
        BY DEF UpTo
      <3>2. t \in Nat /\ u \in Nat /\ d \in Nat
        BY <2>1
      <3>3. u <= d
        BY <2>3, <3>1, <3>2
      <3> QED
        BY <3>3 DEF UpTo
    <2>4. ASSUME NEW s \in Series
          PROVE  /\ healed'[s] \subseteq Stored(s)'
                 /\ \A t \in healed'[s], u \in Ts : u < t => u \in healed'[s]
      <3>1. CASE s = Ser(j)
        BY <1>1, <2>1, <2>2, <2>3, <3>1 DEF HealInv, GapsHeal
      <3>2. CASE s # Ser(j)
        BY <1>1, <2>2, <3>2 DEF HealInv, GapsHeal
      <3> QED
        BY <3>1, <3>2
    <2> QED
      BY <2>1, <2>2, <2>4 DEF GapsHeal
  <1>4. ASSUME NEW j \in Jobs, HFinish(j), ~(Cardinality(Missed(j)) <= Lookback[j])
        PROVE  UNCHANGED healed
    BY <1>4 DEF HFinish, Heal
  <1> QED
    BY <1>2, <1>3, <1>4, JobsStep

\* A gap no longer than the lookback of a job is healed by the next success of that
\* job, for every history of crashes, failures, lost acknowledgements and revisions.
THEOREM GapsAreHealed == HSpec => []GapsHeal
  <1> DEFINE Inv == HealInv /\ healed \in [Series -> SUBSET Ts]
  <1>1. HInit => Inv
    <2> SUFFICES ASSUME HInit PROVE Inv
      OBVIOUS
    <2>1. TypeOK /\ FetchedIsStored
      BY InitType, InitFetched DEF HInit
    <2>2. PublishedInOrder /\ WindowFull
      BY DEF HInit, Init, NoBars, PublishedInOrder, Published, WindowFull, Delivered
    <2>3. GapsHeal /\ healed \in [Series -> SUBSET Ts]
      BY DEF HInit, GapsHeal
    <2> QED
      BY <2>1, <2>2, <2>3 DEF HealInv
  <1>2. Inv /\ [HNext]_allVars => Inv'
    <2> SUFFICES ASSUME Inv, [HNext]_allVars PROVE Inv'
      OBVIOUS
    <2>1. [Next]_vars
      BY JobsStep
    <2> QED
      BY <2>1, NextType, NextFetched, NextPublished, NextWindow, NextHealed DEF HealInv
  <1>3. Inv => GapsHeal
    BY DEF HealInv
  <1> QED
    BY <1>1, <1>2, <1>3, PTL DEF HSpec
=============================================================================
