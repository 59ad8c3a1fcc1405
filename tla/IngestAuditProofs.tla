------------------------- MODULE IngestAuditProofs -------------------------
(* What TLAPS proves of the audit rows of the ingestion jobs, of the raw    *)
(* schema as they write it (every transaction is a step of RawLayer), and  *)
(* of what the counts of a row and the summary of a pass say.              *)
EXTENDS IngestProofs, FiniteLemmas

\* Passes and symbols only move forward, and the histories only grow.
LEMMA Forward ==
  ASSUME TypeOK, [Next]_vars
  PROVE  /\ \A k \in Jobs : \/ pass'[k] = pass[k] /\ idx'[k] >= idx[k]
                            \/ pass'[k] = pass[k] + 1
         /\ ambiguous \subseteq ambiguous' /\ died \subseteq died'
         /\ unrecorded \subseteq unrecorded'
  <1> USE DEF TypeOK, ThreadOK, PassOK, Symbols
  <1>0. \A k \in Jobs : pass[k] \in Nat /\ idx[k] \in Nat
    BY IngestAssumption
  <1>1. ASSUME NEW j \in Jobs, NextSymbol(j) \/ Keeps(j)
        PROVE  \A k \in Jobs : idx'[k] >= idx[k]
    <2>1. UNCHANGED idx \/ idx' = [idx EXCEPT ![j] = @ + 1]
      BY <1>1 DEF NextSymbol, Keeps
    <2> QED
      BY <1>0, <2>1
  <1>2. ASSUME NEW j \in Jobs, Step(j)
        PROVE  UNCHANGED pass /\ \A k \in Jobs : idx'[k] >= idx[k]
    <2>1. ASSUME UNCHANGED idx PROVE \A k \in Jobs : idx'[k] >= idx[k]
      BY <1>0, <2>1
    <2>2. Retried(j) \/ Raise(j) \/ Again(j) \/ GiveUp(j) => \A k \in Jobs : idx'[k] >= idx[k]
      BY <1>1, RetriedOutcome, RaiseOutcome, AgainOutcome DEF GiveUp
    <2> QED
      BY <1>1, <1>2, <2>1, <2>2
         DEF Step, StartRun, Fetch, FetchNothing, Upsert, FinishRun, CallFails,
             RecordFailure, RecordFails, Goto
  <1>3. /\ ambiguous \subseteq ambiguous' /\ died \subseteq died'
        /\ unrecorded \subseteq unrecorded'
    BY DEF Next, vars, history, Publish, Trigger, Crash, Step, StartRun, Fetch, FetchNothing,
           Upsert, FinishRun, CallFails, RecordFailure, RecordFails, LoseAck, GiveUp
  <1>4. ASSUME NEW j \in Jobs, Trigger(j)
        PROVE  \A k \in Jobs : \/ pass'[k] = pass[k] /\ idx'[k] >= idx[k]
                               \/ pass'[k] = pass[k] + 1
    BY <1>0, <1>4 DEF Trigger
  <1>5. ASSUME UNCHANGED <<pass, idx>>
        PROVE  \A k \in Jobs : pass'[k] = pass[k] /\ idx'[k] >= idx[k]
    BY <1>0, <1>5
  <1> QED
    BY <1>2, <1>3, <1>4, <1>5 DEF Next, vars, Publish, Crash, control

LEMMA NextNewest ==
  ASSUME TypeOK, NewestRow, [Next]_vars
  PROVE  NewestRow'
  <1> SUFFICES ASSUME NEW r \in RunIds, runs'[r].status # "absent"
               PROVE  \/ r[2] < pass'[r[1]]
                      \/ r[2] = pass'[r[1]] /\ r[3] <= idx'[r[1]]
    BY DEF NewestRow
  <1>1. /\ r[1] \in Jobs /\ r[2] \in Nat /\ r[3] \in Nat
        /\ pass[r[1]] \in Nat /\ idx[r[1]] \in Nat
        /\ pass'[r[1]] \in Nat /\ idx'[r[1]] \in Nat
    BY NextType, IngestAssumption DEF RunIds, Symbols, TypeOK, ThreadOK, PassOK
  <1>2. r[2] < pass[r[1]] \/ (r[2] = pass[r[1]] /\ r[3] <= idx[r[1]])
    <2>1. CASE runs'[r] = runs[r]
      BY <2>1 DEF NewestRow
    <2>2. CASE runs'[r] # runs[r]
      <3>1. PICK j \in Jobs : r = Id(j)
        BY <2>2, RunChange
      <3> QED
        BY <1>1, <3>1 DEF Id
    <2> QED
      BY <2>1, <2>2
  <1> QED
    BY <1>1, <1>2, Forward
-----------------------------------------------------------------------------
(* The row of a thread is in the state the thread takes it to be in. *)

LEMMA ThreadRowKept ==
  ASSUME NEW k \in Jobs, ThreadRow(k), pc'[k] = pc[k], Id(k)' = Id(k),
         pc[k] # "idle" => runs'[Id(k)] = runs[Id(k)],
         ambiguous \subseteq ambiguous'
  PROVE  ThreadRow(k)'
  BY DEF ThreadRow, Failed

\* A symbol, or a pass, that has not begun has no row.
LEMMA FreshRow ==
  ASSUME TypeOK, [Next]_vars, NewestRow, NEW j \in Jobs, pc'[j] \in {"idle", "start"},
         \/ NextSymbol(j) /\ pass'[j] = pass[j]
         \/ Trigger(j)
  PROVE  ThreadRow(j)'
  <1> USE DEF TypeOK, ThreadOK, PassOK
  <1> SUFFICES ASSUME pc'[j] = "start" PROVE runs'[Id(j)'].status = "absent"
    BY DEF ThreadRow, Id
  <1>1. Id(j)' \in RunIds
    <2>1. pass'[j] \in 0..MaxPasses /\ pass'[j] > 0 /\ idx'[j] \in Symbols
      BY NextType
    <2>2. pass'[j] \in 1..MaxPasses
      BY <2>1, IngestAssumption
    <2> QED
      BY <2>1, <2>2 DEF Id, RunIds
  <1>2. runs[Id(j)'].status = "absent"
    <2>1. /\ Id(j)'[1] = j /\ Id(j)'[2] = pass'[j] /\ Id(j)'[3] = idx'[j]
          /\ pass[j] \in Nat /\ idx[j] \in Nat
      BY IngestAssumption DEF Id, Symbols
    <2>2. \/ pass'[j] = pass[j] /\ idx'[j] = idx[j] + 1
          \/ pass'[j] = pass[j] + 1
      BY DEF NextSymbol, Trigger
    <2> QED
      BY <1>1, <2>1, <2>2 DEF NewestRow
  <1>3. runs'[Id(j)'] = runs[Id(j)']
    <2>1. ASSUME NEW k \in Jobs, Id(j)' = Id(k) PROVE FALSE
      <3>1. k = j /\ pass'[j] = pass[j] /\ idx'[j] = idx[j]
        BY <2>1 DEF Id
      <3> QED
        BY <3>1, IngestAssumption DEF NextSymbol, Trigger, Symbols
    <2> QED
      BY <1>1, <2>1, RunChange
  <1> QED
    BY <1>2, <1>3

LEMMA StepFrame ==
  ASSUME TypeOK, NEW j \in Jobs, Step(j)
  PROVE  /\ pc[j] # "idle" /\ UNCHANGED <<pass, died>>
         /\ \A k \in Jobs \ {j} : pc'[k] = pc[k] /\ Id(k)' = Id(k)
         /\ \A r \in RunIds : r # Id(j) => runs'[r] = runs[r]
  <1> USE DEF TypeOK, ThreadOK
  <1>1. pc[j] # "idle" /\ UNCHANGED <<pass, died>>
    BY DEF Step, StartRun, Fetch, FetchNothing, Upsert, FinishRun, CallFails,
           RecordFailure, RecordFails, history
  <1>2. ASSUME NextSymbol(j) \/ Keeps(j)
        PROVE  \A k \in Jobs \ {j} : pc'[k] = pc[k] /\ idx'[k] = idx[k]
    BY <1>2 DEF NextSymbol, Keeps
  <1>3. ASSUME NEW l, Goto(j, l)
        PROVE  \A k \in Jobs \ {j} : pc'[k] = pc[k] /\ idx'[k] = idx[k]
    BY <1>3 DEF Goto
  <1>4. \A k \in Jobs \ {j} : pc'[k] = pc[k] /\ idx'[k] = idx[k]
    BY <1>2, <1>3, RetriedOutcome, RaiseOutcome, AgainOutcome
       DEF Step, StartRun, Fetch, FetchNothing, Upsert, FinishRun, CallFails,
           RecordFailure, RecordFails, GiveUp
  <1>5. \A r \in RunIds : r # Id(j) => runs'[r] = runs[r]
    <2>1. UNCHANGED runs \/ \E v : runs' = [runs EXCEPT ![Id(j)] = v]
      BY DEF Step, StartRun, Inserted, Fetch, FetchNothing, Upsert, FinishRun, CallFails,
             RecordFailure, RecordFails, Closed, Close, history
    <2> QED
      BY <2>1 DEF DataOK
  <1> QED
    BY <1>1, <1>4, <1>5 DEF Id

LEMMA NextThreadRow ==
  ASSUME TypeOK, RowsFollowThreads, [Next]_vars, NEW k \in Jobs
  PROVE  ThreadRow(k)'
  <1> USE DEF TypeOK, ThreadOK
  <1>0. /\ \A j \in Jobs : ThreadRow(j)
        /\ NewestRow
        /\ ambiguous \subseteq ambiguous'
    BY Forward DEF RowsFollowThreads
  <1>1. ASSUME NEW j \in Jobs, Trigger(j) PROVE ThreadRow(k)'
    <2>1. CASE k = j
      BY <1>0, <1>1, <2>1, FreshRow DEF Trigger
    <2>2. CASE k # j
      <3>1. pc'[k] = pc[k] /\ Id(k)' = Id(k) /\ runs' = runs
        BY <1>1, <2>2 DEF Trigger, Id, PassOK
      <3> QED
        BY <1>0, <3>1, ThreadRowKept
    <2> QED
      BY <2>1, <2>2
  <1>2. ASSUME NEW j \in Jobs, Step(j), k # j PROVE ThreadRow(k)'
    <2>1. pc'[k] = pc[k] /\ Id(k)' = Id(k)
      BY <1>2, StepFrame
    <2>2. pc[k] # "idle" => runs'[Id(k)] = runs[Id(k)]
      <3>1. Id(k) # Id(j)
        BY <1>2 DEF Id
      <3> QED
        BY <1>2, <3>1, IdType, StepFrame
    <2> QED
      BY <1>0, <2>1, <2>2, ThreadRowKept
  <1>3. ASSUME Step(k) PROVE ThreadRow(k)'
    <2>0. pc[k] # "idle" /\ pass' = pass /\ Id(k) \in RunIds
      BY <1>3, StepFrame, IdType
    <2>1. ASSUME NextSymbol(k) PROVE ThreadRow(k)'
      <3>1. pc'[k] \in {"idle", "start"}
        BY <2>1 DEF NextSymbol
      <3> QED
        BY <1>0, <2>0, <2>1, <3>1, FreshRow
    <2>2. ASSUME Again(k), runs'[Id(k)] = runs[Id(k)] PROVE ThreadRow(k)'
      <3>1. pc' = pc /\ Id(k)' = Id(k)
        BY <2>0, <2>2, AgainOutcome DEF Keeps, Id
      <3> QED
        BY <1>0, <2>2, <3>1, ThreadRowKept
    <2>3. ASSUME NEW l, Goto(k, l) \/ (Keeps(k) /\ pc'[k] = l)
          PROVE  Id(k)' = Id(k) /\ pc'[k] = l
      BY <2>0, <2>3 DEF Goto, Keeps, Id
    <2>4. ASSUME LoseAck(k) PROVE <<pc[k], Id(k)>> \in ambiguous'
      BY <2>4 DEF LoseAck
    <2>5. ASSUME Raise(k), runs'[Id(k)].status = "running" \/ <<"finish", Id(k)>> \in ambiguous'
          PROVE  ThreadRow(k)'
      <3>1. CASE Keeps(k) /\ pc'[k] = "record"
        BY <2>3, <2>5, <3>1 DEF ThreadRow
      <3> QED
        BY <2>1, <2>5, <3>1, RaiseOutcome
    <2>6. CASE StartRun(k)
      <3>1. runs'[Id(k)].status = "running"
        BY <2>6, RunOutcome
      <3>2. CASE Goto(k, "fetch")
        BY <2>3, <3>1, <3>2 DEF ThreadRow
      <3>3. CASE LoseAck(k) /\ Again(k)
        <4>1. pc'[k] = "start" /\ Id(k)' = Id(k)
          BY <2>0, <2>6, <3>3, AgainOutcome DEF StartRun, Keeps, Id
        <4> QED
          BY <2>4, <2>6, <3>1, <3>3, <4>1 DEF ThreadRow, StartRun
      <3>4. CASE Raise(k)
        BY <2>5, <3>1, <3>4
      <3> QED
        BY <2>6, <3>2, <3>3, <3>4 DEF StartRun, Retried
    <2>7. CASE Fetch(k) \/ FetchNothing(k)
      <3>1. runs[Id(k)].status = "running" /\ runs' = runs
        BY <1>0, <2>7 DEF Fetch, FetchNothing, ThreadRow
      <3>2. Id(k)' = Id(k) /\ pc'[k] \in {"upsert", "finish"}
        BY <2>3, <2>7 DEF Fetch, FetchNothing
      <3> QED
        BY <3>1, <3>2 DEF ThreadRow
    <2>8. CASE Upsert(k)
      <3>1. runs[Id(k)].status = "running" /\ runs' = runs
        BY <1>0, <2>8 DEF Upsert, ThreadRow
      <3>2. CASE Goto(k, "upsert") \/ Goto(k, "finish")
        <4>1. Id(k)' = Id(k) /\ pc'[k] \in {"upsert", "finish"}
          BY <2>3, <3>2
        <4> QED
          BY <3>1, <4>1 DEF ThreadRow
      <3> QED
        BY <2>2, <2>5, <2>8, <3>1, <3>2 DEF Upsert, Retried
    <2>9. CASE FinishRun(k)
      <3>1. CASE LoseAck(k) /\ Again(k)
        <4>1. pc'[k] = "finish" /\ Id(k)' = Id(k)
          BY <2>0, <2>9, <3>1, AgainOutcome DEF FinishRun, Keeps, Id
        <4> QED
          BY <2>4, <2>9, <3>1, <4>1 DEF ThreadRow, FinishRun
      <3>2. CASE LoseAck(k) /\ Raise(k)
        BY <2>4, <2>5, <2>9, <3>2 DEF FinishRun
      <3> QED
        BY <2>1, <2>9, <3>1, <3>2 DEF FinishRun, Retried
    <2>10. CASE CallFails(k)
      <3>1. runs' = runs
        BY <2>10 DEF CallFails
      <3>2. CASE Raise(k) /\ pc[k] # "start"
        <4>1. runs[Id(k)].status = "running" \/ <<"finish", Id(k)>> \in ambiguous
          BY <1>0, <2>10, <3>2 DEF CallFails, ThreadRow
        <4> QED
          BY <1>0, <2>5, <3>1, <3>2, <4>1
      <3>3. CASE Raise(k) /\ pc[k] = "start"
        BY <2>1, <3>3, RaiseOutcome
      <3> QED
        BY <2>2, <2>10, <3>1, <3>2, <3>3 DEF CallFails
    <2>11. CASE RecordFailure(k)
      <3>1. CASE Again(k)
        <4>1. pc'[k] = "record" /\ Id(k)' = Id(k) /\ runs'[Id(k)] = Failed
          BY <2>0, <2>11, <3>1, AgainOutcome, RunOutcome DEF RecordFailure, Keeps, Id
        <4> QED
          BY <4>1 DEF ThreadRow, Failed
      <3> QED
        BY <2>1, <2>11, <3>1 DEF RecordFailure, GiveUp
    <2>12. CASE RecordFails(k)
      BY <2>1, <2>2, <2>12 DEF RecordFails, GiveUp
    <2> QED
      BY <1>3, <2>6, <2>7, <2>8, <2>9, <2>10, <2>11, <2>12 DEF Step
  <1>4. CASE Crash
    BY <1>4 DEF Crash, ThreadRow
  <1>5. CASE UNCHANGED <<runs, pc, pass, idx>>
    <2>1. Id(k)' = Id(k)
      BY <1>5 DEF Id
    <2> QED
      BY <1>0, <1>5, <2>1, ThreadRowKept
  <1> QED
    BY <1>1, <1>2, <1>3, <1>4, <1>5 DEF Next, vars, Publish, control

\* The invariant of the audit rows.
RowInv == TypeOK /\ RowsFollowThreads

LEMMA InitRows == Init => RowInv
  <1>1. Init => RowsFollowThreads
    BY DEF Init, RowsFollowThreads, NewestRow, ThreadRow, Absent
  <1> QED
    BY <1>1, InitType DEF RowInv

LEMMA NextRows == RowInv /\ [Next]_vars => RowInv'
  <1> SUFFICES ASSUME RowInv, [Next]_vars PROVE RowInv'
    OBVIOUS
  <1>1. TypeOK /\ RowsFollowThreads /\ NewestRow
    BY DEF RowInv, RowsFollowThreads
  <1>2. RowsFollowThreads'
    BY <1>1, NextNewest, NextThreadRow DEF RowsFollowThreads
  <1> QED
    BY <1>1, <1>2, NextType DEF RowInv
-----------------------------------------------------------------------------
(* The theorems. *)

\* A row no thread works on stays running only for one of the three reasons.
LEMMA NextStuck ==
  ASSUME RowInv, StuckRowsExplained, [Next]_vars
  PROVE  StuckRowsExplained'
  <1> USE DEF RowInv
  <1> DEFINE Explained(r) == \/ <<r[1], r[2]>> \in died
                             \/ <<"start", r>> \in ambiguous
                             \/ r \in unrecorded
  <1> SUFFICES ASSUME NEW r \in RunIds, runs'[r].status = "running", ~InFlight(r)'
               PROVE  Explained(r)'
    BY DEF StuckRowsExplained
  <1>1. Explained(r) => Explained(r)'
    BY Forward
  <1>2. ASSUME runs'[r] = runs[r], ~InFlight(r) PROVE Explained(r)'
    BY <1>1, <1>2 DEF StuckRowsExplained
  <1>3. r[1] \in Jobs
    BY DEF RunIds
  <1>4. ASSUME NEW j \in Jobs, Step(j) PROVE Explained(r)'
    <2>1. CASE r # Id(j)
      <3>1. runs'[r] = runs[r]
        BY <1>4, <2>1, StepFrame
      <3>2. ~InFlight(r)
        <4>1. CASE r[1] = j
          BY <2>1, <4>1 DEF InFlight
        <4>2. CASE r[1] # j
          <5>1. pc'[r[1]] = pc[r[1]] /\ Id(r[1])' = Id(r[1])
            BY <1>3, <1>4, <4>2, StepFrame
          <5> QED
            BY <5>1 DEF InFlight
        <4> QED
          BY <4>1, <4>2
      <3> QED
        BY <1>2, <3>1, <3>2
    <2>2. CASE r = Id(j)
      <3>1. /\ r[1] = j /\ pc[j] # "idle" /\ pass' = pass /\ ThreadRow(j)
        BY <1>4, <2>2, StepFrame DEF Id, RowsFollowThreads
      <3>2. \A l : l # "idle" /\ pc'[j] = l /\ idx' = idx => InFlight(r)'
        BY <2>2, <3>1 DEF InFlight, Id
      <3>3. ASSUME Keeps(j) PROVE FALSE
        BY <3>1, <3>2, <3>3 DEF Keeps, TypeOK, ThreadOK
      <3>4. ASSUME NEW l \in {"fetch", "upsert", "finish", "record"}, Goto(j, l) PROVE FALSE
        BY <3>2, <3>4 DEF Goto, TypeOK, ThreadOK
      <3>5. ASSUME Raise(j) PROVE pc[j] = "start"
        BY <3>3, <3>4, <3>5 DEF Raise
      <3>6. ~Again(j)
        BY <3>3, AgainOutcome
      <3>7. CASE StartRun(j)
        BY <2>2, <3>4, <3>6, <3>7 DEF StartRun, Retried, LoseAck
      <3>8. CASE CallFails(j)
        <4>1. pc[j] = "start" /\ runs'[r] = runs[r]
          BY <3>5, <3>6, <3>8 DEF CallFails
        <4>2. Explained(r)
          BY <2>2, <3>1, <4>1 DEF ThreadRow
        <4> QED
          BY <1>1, <4>2
      <3>9. ~FinishRun(j) /\ ~RecordFailure(j)
        <4>1. ASSUME RecordFailure(j) PROVE FALSE
          <5>1. runs'[r] = Failed
            BY <2>2, <4>1, RunOutcome
          <5> QED
            BY <5>1 DEF Failed
        <4>2. ASSUME FinishRun(j) PROVE FALSE
          <5>1. runs'[r] = [status   |-> IF Delivered(j) = {} THEN "empty" ELSE "success",
                            received |-> Cardinality(Delivered(j)),
                            upserted |-> written[j]]
            BY <2>2, <4>2, RunOutcome
          <5> QED
            BY <5>1
        <4> QED
          BY <4>1, <4>2
      <3>10. CASE RecordFails(j)
        BY <2>2, <3>6, <3>10 DEF RecordFails, GiveUp
      <3>11. ~Fetch(j) /\ ~FetchNothing(j)
        BY <3>4 DEF Fetch, FetchNothing
      <3>12. ~Upsert(j)
        BY <3>4, <3>5, <3>6 DEF Upsert, Retried
      <3> QED
        BY <1>4, <3>7, <3>8, <3>9, <3>10, <3>11, <3>12 DEF Step
    <2> QED
      BY <2>1, <2>2
  <1>5. ASSUME NEW j \in Jobs, Trigger(j) PROVE Explained(r)'
    <2>1. runs' = runs
      BY <1>5 DEF Trigger
    <2>2. CASE r[1] = j
      BY <1>2, <1>5, <2>1, <2>2 DEF Trigger, InFlight
    <2>3. CASE r[1] # j
      <3>1. pc'[r[1]] = pc[r[1]] /\ Id(r[1])' = Id(r[1])
        BY <1>3, <1>5, <2>3 DEF Trigger, Id, TypeOK, ThreadOK, PassOK
      <3> QED
        BY <1>2, <2>1, <3>1 DEF InFlight
    <2> QED
      BY <2>2, <2>3
  <1>6. CASE Crash
    <2>1. CASE InFlight(r)
      BY <1>3, <1>6, <2>1 DEF Crash, InFlight, Id
    <2>2. CASE ~InFlight(r)
      BY <1>2, <1>6, <2>2 DEF Crash
    <2> QED
      BY <2>1, <2>2
  <1>7. CASE UNCHANGED <<runs, pc, pass, idx>>
    BY <1>2, <1>7 DEF InFlight, Id
  <1> QED
    BY <1>4, <1>5, <1>6, <1>7 DEF Next, vars, Publish, control

\* A row is left in running by a process that died, an INSERT whose commit was
\* not acknowledged, or a failure that could not be recorded, and by nothing else.
THEOREM StuckRowsAreExplained == Spec => []StuckRowsExplained
  <1>1. Init => StuckRowsExplained
    BY DEF Init, StuckRowsExplained, Absent
  <1> QED
    BY <1>1, InitRows, NextRows, NextStuck, PTL DEF Spec

\* A closed row is never changed, unless finish_run committed unacknowledged.
THEOREM ClosedRowsStay == Spec => FinalStatus
  <1> DEFINE Stays == \A r \in RunIds :
               runs[r].status \in Final /\ <<"finish", r>> \notin ambiguous => runs'[r] = runs[r]
  <1>1. ASSUME RowInv, [Next]_vars PROVE Stays
    <2> SUFFICES ASSUME NEW r \in RunIds, runs[r].status \in Final,
                        <<"finish", r>> \notin ambiguous, runs'[r] # runs[r]
                 PROVE  FALSE
      OBVIOUS
    <2>1. PICK j \in Jobs : r = Id(j) /\ (StartRun(j) \/ FinishRun(j) \/ RecordFailure(j))
      BY <1>1, RunChange DEF RowInv
    <2>2. ThreadRow(j)
      BY <1>1 DEF RowInv, RowsFollowThreads
    <2>3. ~StartRun(j)
      BY <2>1 DEF StartRun, Final
    <2>4. ~FinishRun(j)
      BY <2>1, <2>2 DEF FinishRun, ThreadRow, Final
    <2>5. ASSUME RecordFailure(j) PROVE FALSE
      <3>1. runs[r] = Failed
        BY <2>1, <2>2, <2>5 DEF RecordFailure, ThreadRow, Final
      <3>2. runs'[r] = Failed
        BY <1>1, <2>1, <2>5, RunOutcome DEF RowInv
      <3> QED
        BY <3>1, <3>2
    <2> QED
      BY <2>1, <2>3, <2>4, <2>5
  <1>2. RowInv /\ [Next]_vars => [Stays]_vars
    BY <1>1
  <1> QED
    BY <1>2, InitRows, NextRows, PTL DEF Spec, FinalStatus
-----------------------------------------------------------------------------
(* The raw schema. *)

\* What finish_run writes into the row.
Result(j) == [status   |-> IF Delivered(j) = {} THEN "empty" ELSE "success",
              received |-> Cardinality(Delivered(j)),
              upserted |-> written[j]]

\* A row that a retry of finish_run finds closed was closed by the same statement,
\* and so was one that _record_failure finds failed.
Settled(j) ==
  /\ pc[j] = "finish" => runs[Id(j)].status = "running" \/ runs[Id(j)] = Result(j)
  /\ pc[j] = "record" =>
       runs[Id(j)].status \in {"running", "success", "empty"} \/ runs[Id(j)] = Failed

\* The count of upsert_bars is the number of changes, or lags behind them after a
\* transaction that was not acknowledged.
Lags(j) ==
  \/ written[j] = changed[Id(j)]
  \/ <<"upsert", Id(j)>> \in ambiguous /\ written[j] < changed[Id(j)]

Counted(j) ==
  /\ pc[j] \in {"start", "fetch"} => changed[Id(j)] = 0
  /\ pc[j] \in {"upsert", "finish"} => Lags(j)

\* No bar was written for a run that has not begun.
NewestChange ==
  \A r \in RunIds : changed[r] # 0 =>
    \/ r[2] < pass[r[1]]
    \/ r[2] = pass[r[1]] /\ r[3] <= idx[r[1]]

RawInv == TypeOK /\ FetchedIsStored /\ RowsFollowThreads /\ \A j \in Jobs : Settled(j)
-----------------------------------------------------------------------------
(* The frame of a step. *)

\* A thread leaves the locals of the others alone, and the changes of other runs.
LEMMA StepLocals ==
  ASSUME TypeOK, NEW j \in Jobs, Step(j)
  PROVE  /\ \A k \in Jobs \ {j} : bars'[k] = bars[k] /\ written'[k] = written[k]
         /\ \A r \in RunIds : r # Id(j) => changed'[r] = changed[r]
         /\ ~Upsert(j) => changed' = changed
  <1> USE DEF TypeOK, ThreadOK, HistoryOK
  <1>1. ASSUME NextSymbol(j) \/ Keeps(j)
        PROVE  \A k \in Jobs \ {j} : bars'[k] = bars[k] /\ written'[k] = written[k]
    BY <1>1 DEF NextSymbol, Keeps, local
  <1>2. \A k \in Jobs \ {j} : bars'[k] = bars[k] /\ written'[k] = written[k]
    BY <1>1, RetriedOutcome, RaiseOutcome, AgainOutcome
       DEF Step, StartRun, Fetch, FetchNothing, Upsert, FinishRun, CallFails,
           RecordFailure, RecordFails, GiveUp, local
  <1>3. ~Upsert(j) => changed' = changed
    BY DEF Step, StartRun, Fetch, FetchNothing, FinishRun, CallFails,
           RecordFailure, RecordFails, history
  <1>4. ASSUME Upsert(j), NEW r \in RunIds, r # Id(j) PROVE changed'[r] = changed[r]
    BY <1>4 DEF Upsert
  <1> QED
    BY <1>2, <1>3, <1>4

\* What is true of a thread stays true while others step.
LEMMA OtherThread ==
  ASSUME TypeOK, [Next]_vars, NEW j \in Jobs, Step(j), NEW k \in Jobs, k # j
  PROVE  /\ Settled(k) => Settled(k)'
         /\ Counted(k) => Counted(k)'
  <1>1. /\ pc'[k] = pc[k] /\ Id(k)' = Id(k) /\ bars'[k] = bars[k] /\ written'[k] = written[k]
        /\ ambiguous \subseteq ambiguous'
    BY StepFrame, StepLocals, Forward
  <1>2. CASE pc[k] = "idle"
    BY <1>1, <1>2 DEF Settled, Counted
  <1>3. CASE pc[k] # "idle"
    <2>1. Id(k) \in RunIds /\ Id(k) # Id(j)
      BY <1>3, IdType DEF Id
    <2>2. runs'[Id(k)] = runs[Id(k)] /\ changed'[Id(k)] = changed[Id(k)]
      BY <2>1, StepFrame, StepLocals
    <2>3. Result(k)' = Result(k)
      BY <1>1 DEF Result, Delivered
    <2>4. Settled(k) => Settled(k)'
      BY <1>1, <2>2, <2>3 DEF Settled, Failed
    <2>5. Counted(k) => Counted(k)'
      BY <1>1, <2>2 DEF Counted, Lags
    <2> QED
      BY <2>4, <2>5
  <1> QED
    BY <1>2, <1>3

\* The environment of a thread: the source, the scheduler and the end of the process.
LEMMA NoStep ==
  ASSUME TypeOK, [Next]_vars, NEW k \in Jobs, \A j \in Jobs : ~Step(j), ~Trigger(k)
  PROVE  /\ Settled(k) => Settled(k)'
         /\ Counted(k) => Counted(k)'
  <1> USE DEF TypeOK, ThreadOK, PassOK
  <1>1. CASE Crash
    BY <1>1 DEF Crash, Settled, Counted
  <1>2. CASE UNCHANGED <<runs, changed, ambiguous, bars, written>>
             /\ pc'[k] = pc[k] /\ pass'[k] = pass[k] /\ idx'[k] = idx[k]
    <2>1. Id(k)' = Id(k) /\ Result(k)' = Result(k)
      BY <1>2 DEF Id, Result, Delivered
    <2> QED
      BY <1>2, <2>1 DEF Settled, Counted, Lags, Failed
  <1>3. ASSUME NEW j \in Jobs, Trigger(j), j # k
        PROVE  UNCHANGED <<runs, changed, ambiguous, bars, written>>
               /\ pc'[k] = pc[k] /\ pass'[k] = pass[k] /\ idx'[k] = idx[k]
    BY <1>3 DEF Trigger, local, history
  <1> QED
    BY <1>1, <1>2, <1>3 DEF Next, vars, Publish, control, local, history
-----------------------------------------------------------------------------
(* The row of a thread. *)

LEMMA NextSettled ==
  ASSUME RawInv, [Next]_vars, NEW k \in Jobs
  PROVE  Settled(k)'
  <1> USE DEF RawInv
  <1>0. Settled(k) /\ ThreadRow(k)
    BY DEF RowsFollowThreads
  <1>1. CASE Trigger(k)
    BY <1>1 DEF Trigger, Settled, TypeOK, ThreadOK
  <1>2. CASE Step(k)
    <2>0. pc[k] # "idle" /\ pass' = pass /\ Id(k) \in RunIds
      BY <1>2, StepFrame, IdType
    <2>1. ASSUME NextSymbol(k) PROVE Settled(k)'
      BY <2>1 DEF NextSymbol, Settled, TypeOK, ThreadOK
    <2>2. ASSUME NEW l, Goto(k, l), l \in {"fetch", "upsert"} PROVE Settled(k)'
      BY <2>2 DEF Goto, Settled, TypeOK, ThreadOK
    <2>3. ASSUME Goto(k, "finish"), runs[Id(k)].status = "running", runs' = runs
          PROVE  Settled(k)'
      <3>1. Id(k)' = Id(k) /\ pc'[k] = "finish"
        BY <2>0, <2>3 DEF Goto, Id, TypeOK, ThreadOK
      <3> QED
        BY <2>3, <3>1 DEF Settled
    <2>4. ASSUME Raise(k), runs'[Id(k)].status \in {"running", "success", "empty"}
          PROVE  Settled(k)'
      <3>1. CASE Keeps(k) /\ pc'[k] = "record"
        <4>1. Id(k)' = Id(k)
          BY <2>0, <3>1 DEF Keeps, Id
        <4> QED
          BY <2>4, <3>1, <4>1 DEF Settled
      <3> QED
        BY <2>1, <2>4, <3>1, RaiseOutcome
    <2>5. ASSUME Again(k) \/ UNCHANGED <<pc, idx, local>> PROVE
               pc' = pc /\ Id(k)' = Id(k) /\ Result(k)' = Result(k)
      BY <2>0, <2>5 DEF Again, Id, Result, Delivered, local
    <2>6. ASSUME Again(k), runs'[Id(k)] = runs[Id(k)] PROVE Settled(k)'
      BY <1>0, <2>5, <2>6 DEF Settled, Failed
    <2>7. CASE StartRun(k)
      <3>1. runs'[Id(k)].status = "running"
        BY <2>7, RunOutcome
      <3>2. CASE Again(k)
        BY <2>5, <2>7, <3>2 DEF StartRun, Settled
      <3> QED
        BY <2>2, <2>4, <2>7, <3>1, <3>2 DEF StartRun, Retried
    <2>8. CASE Fetch(k)
      BY <2>2, <2>8 DEF Fetch
    <2>9. CASE FetchNothing(k)
      BY <1>0, <2>3, <2>9 DEF FetchNothing, ThreadRow
    <2>10. CASE Upsert(k)
      <3>1. runs[Id(k)].status = "running" /\ runs' = runs
        BY <1>0, <2>10 DEF Upsert, ThreadRow
      <3> QED
        BY <2>2, <2>3, <2>4, <2>6, <2>10, <3>1 DEF Upsert, Retried
    <2>11. CASE FinishRun(k)
      <3>1. runs'[Id(k)] = Result(k)
        BY <2>11, RunOutcome DEF Result
      <3>2. runs'[Id(k)].status \in {"success", "empty"}
        BY <3>1 DEF Result
      <3>3. CASE Again(k)
        BY <2>5, <2>11, <3>1, <3>3 DEF Settled, FinishRun
      <3> QED
        BY <2>1, <2>4, <2>11, <3>2, <3>3 DEF FinishRun, Retried
    <2>12. CASE CallFails(k)
      <3>1. runs' = runs
        BY <2>12 DEF CallFails
      <3>2. CASE Raise(k) /\ pc[k] = "start"
        BY <2>1, <3>2, RaiseOutcome
      <3>3. CASE Raise(k) /\ pc[k] # "start"
        <4>1. runs[Id(k)].status \in {"running", "success", "empty"}
          <5>1. CASE pc[k] = "finish"
            BY <1>0, <5>1 DEF Settled, Result
          <5>2. CASE pc[k] \in {"fetch", "upsert"}
            BY <1>0, <5>2 DEF ThreadRow
          <5> QED
            BY <2>12, <3>3, <5>1, <5>2 DEF CallFails
        <4> QED
          BY <2>4, <3>1, <3>3, <4>1
      <3> QED
        BY <2>6, <2>12, <3>1, <3>2, <3>3 DEF CallFails
    <2>13. CASE RecordFailure(k)
      <3>1. runs'[Id(k)] = Failed
        BY <2>13, RunOutcome
      <3>2. CASE Again(k)
        BY <2>5, <2>13, <3>1, <3>2 DEF RecordFailure, Settled, Failed
      <3> QED
        BY <2>1, <2>13, <3>2 DEF RecordFailure, GiveUp
    <2>14. CASE RecordFails(k)
      BY <2>1, <2>6, <2>14 DEF RecordFails, GiveUp
    <2> QED
      BY <1>2, <2>7, <2>8, <2>9, <2>10, <2>11, <2>12, <2>13, <2>14 DEF Step
  <1>3. ASSUME NEW j \in Jobs, Step(j), j # k PROVE Settled(k)'
    BY <1>0, <1>3, OtherThread
  <1> QED
    BY <1>0, <1>1, <1>2, <1>3, NoStep

LEMMA InitRawInv == Init => RawInv
  <1>1. Init => \A j \in Jobs : Settled(j)
    BY DEF Init, Settled
  <1> QED
    BY <1>1, InitRows, InitFetched DEF RawInv, RowInv

LEMMA NextRawInv == RawInv /\ [Next]_vars => RawInv'
  <1> SUFFICES ASSUME RawInv, [Next]_vars PROVE RawInv'
    OBVIOUS
  <1>1. TypeOK' /\ RowsFollowThreads' /\ FetchedIsStored'
    BY NextRows, NextFetched DEF RawInv, RowInv
  <1>2. \A k \in Jobs : Settled(k)'
    BY NextSettled
  <1> QED
    BY <1>1, <1>2 DEF RawInv
-----------------------------------------------------------------------------
(* Every transaction is a step of the raw schema's contract. *)

\* A batch is no longer than BatchSize: all but its newest bar come before that one.
LEMMA BatchSmall ==
  ASSUME TypeOK, NEW j \in Jobs
  PROVE  Cardinality(Batch(j)) \in Nat /\ Cardinality(Batch(j)) <= BatchSize
  <1>1. Batch(j) \subseteq todo[j] /\ todo[j] \subseteq Ts /\ Ts \subseteq Nat
    BY DEF Batch, TypeOK, ThreadOK, Ts
  <1>2. IsFiniteSet(Batch(j)) /\ Cardinality(Batch(j)) \in Nat /\ BatchSize \in Nat
    BY <1>1, TsFinite, IngestAssumption
  <1>3. CASE Batch(j) = {}
    BY <1>2, <1>3, FS_EmptySet
  <1>4. CASE Batch(j) # {}
    <2>1. MaxTs \in Nat /\ \A t \in Batch(j) : t <= MaxTs
      BY <1>1, IngestAssumption DEF Ts
    <2>2. Batch(j) \in SUBSET Nat
      BY <1>1
    <2>3. PICK m \in Batch(j) : \A t \in Batch(j) : t <= m
      BY <1>4, <2>1, <2>2, GreatestExists
    <2> DEFINE before == {u \in todo[j] : u < m}
    <2>4. Cardinality(before) < BatchSize
      BY <2>3 DEF Batch
    <2>5. Batch(j) \ {m} \subseteq before
      <3> SUFFICES ASSUME NEW t \in Batch(j), t # m PROVE t \in todo[j] /\ t < m
        OBVIOUS
      <3>1. t \in Nat /\ m \in Nat /\ t <= m
        BY <2>2, <2>3
      <3> QED
        BY <1>1, <3>1
    <2>6. before \in SUBSET Ts
      BY <1>1
    <2> HIDE DEF before
    <2>7. Cardinality(Batch(j) \ {m}) = Cardinality(Batch(j)) - 1
      BY <1>2, <2>3, FS_RemoveElement
    <2>8. Cardinality(Batch(j) \ {m}) <= Cardinality(before) /\ Cardinality(before) \in Nat
      BY <2>5, <2>6, TsFinite, FS_Subset
    <2> QED
      BY <1>2, <2>4, <2>7, <2>8
  <1> QED
    BY <1>2, <1>3, <1>4

LEMMA IdOfSeries ==
  ASSUME TypeOK, NEW j \in Jobs, pc[j] # "idle"
  PROVE  Id(j) \in RunIds /\ [r \in RunIds |-> SeriesOf(r)][Id(j)] = Ser(j) /\ Ser(j) \in Series
  BY IdType, SerType DEF SeriesOf, Id, Ser

LEMMA RawCardinality == \A S : Raw!Cardinality(S) = Cardinality(S)
  BY DEF Raw!Cardinality, Cardinality

\* A batch that changes anything is a Write under the cover of the thread's row.
LEMMA UpsertRaw ==
  ASSUME RawInv, [Next]_vars, NEW j \in Jobs, Upsert(j)
  PROVE  Raw!Write(Ser(j)) \/ UNCHANGED <<prices, runs>>
  <1>1. PICK s \in Series : s = Ser(j)
    BY SerType DEF RawInv
  <1> DEFINE new == prices'[s]
             D   == {t \in Ts : new[t] # prices[s][t]}
  <1>2. Id(j) \in RunIds /\ [r \in RunIds |-> SeriesOf(r)][Id(j)] = s
    BY <1>1, IdOfSeries DEF Upsert, RawInv
  <1>3. prices \in [Series -> [Ts -> 0..MaxRev]] /\ prices' \in [Series -> [Ts -> 0..MaxRev]]
    BY NextType DEF RawInv, TypeOK, DataOK
  <1>4. runs' = runs /\ runs[Id(j)].status = "running"
    BY DEF Upsert, RawInv, RowsFollowThreads, ThreadRow
  <1>5. prices' = [prices EXCEPT ![s] = new]
    BY <1>1, <1>3 DEF Upsert
  <1>6. ASSUME NEW t \in Ts, new[t] = 0 PROVE prices[s][t] = 0
    <2>1. Stored(s) \subseteq Stored(s)'
      BY StoredGrows DEF RawInv
    <2>2. prices[s][t] \in Nat
      BY <1>3
    <2>3. t \notin Stored(s)'
      BY <1>6 DEF Stored
    <2>4. ~(prices[s][t] > 0)
      BY <2>1, <2>3 DEF Stored
    <2> QED
      BY <2>2, <2>4
  <1>7. D \subseteq Batch(j) /\ Batch(j) \subseteq Ts
    <2>1. \A t \in Ts : t \notin Batch(j) => new[t] = prices[s][t]
      BY <1>1, UpsertWrites DEF RawInv
    <2> QED
      BY <2>1 DEF RawInv, Batch, TypeOK, ThreadOK
  <1>8. Cardinality(D) \in Nat /\ Cardinality(D) <= BatchSize /\ IsFiniteSet(D) /\ BatchSize \in Nat
    <2>1. IsFiniteSet(Batch(j)) /\ IsFiniteSet(D) /\ Cardinality(D) \in Nat
      BY <1>7, TsFinite
    <2>2. Cardinality(D) <= Cardinality(Batch(j))
      BY <1>7, <2>1, FS_Subset
    <2> HIDE DEF D
    <2> QED
      BY <2>1, <2>2, BatchSmall, IngestAssumption DEF RawInv
  <1>9. CASE D = {}
    <2>1. new = prices[s]
      BY <1>3, <1>9
    <2> QED
      BY <1>3, <1>4, <1>5, <2>1
  <1>10. CASE D # {}
    <2>1. Cardinality(D) \in 1..BatchSize
      <3>1. Cardinality(D) # 0
        BY <1>8, <1>10, FS_EmptySet
      <3> HIDE DEF D
      <3> QED
        BY <1>8, <3>1
    <2>2. new \in [Ts -> 0..MaxRev]
      BY <1>3
    <2>3. Raw!Cardinality({t \in Ts : new[t] # prices[s][t]}) \in 1..BatchSize
      BY <2>1, RawCardinality
    <2>4. \A t \in Ts : new[t] = 0 => prices[s][t] = 0
      BY <1>6
    <2> HIDE DEF new
    <2> QED
      BY <1>1, <1>2, <1>4, <1>5, <2>2, <2>3, <2>4 DEF Raw!Write
  <1> QED
    BY <1>9, <1>10

\* finish_run claims no more bars than are stored, and no more changes than bars.
LEMMA FinishRaw ==
  ASSUME RawInv, NEW j \in Jobs, FinishRun(j)
  PROVE  Raw!Close(Id(j)) \/ UNCHANGED <<prices, runs>>
  <1> DEFINE n == Cardinality(Delivered(j))
  <1>1. /\ Id(j) \in RunIds /\ Ser(j) \in Series
        /\ [r \in RunIds |-> SeriesOf(r)][Id(j)] = Ser(j)
    BY IdOfSeries DEF FinishRun, RawInv
  <1>2. /\ runs' = [runs EXCEPT ![Id(j)] = Result(j)]
        /\ UNCHANGED prices
        /\ runs \in [RunIds -> Row]
    BY DEF FinishRun, Closed, Close, Result, RawInv, TypeOK, DataOK
  <1>3. /\ Delivered(j) \subseteq Stored(Ser(j)) /\ Stored(Ser(j)) \subseteq Ts
        /\ written[j] \in Nat /\ written[j] + Cardinality(todo[j]) <= n /\ todo[j] = {}
    BY DEF FinishRun, RawInv, FetchedIsStored, LocalOK, Stored, TypeOK, ThreadOK
  <1>4. /\ n \in Nat /\ Cardinality(Stored(Ser(j))) \in Nat /\ Cardinality(Ts) \in Nat
        /\ n <= Cardinality(Stored(Ser(j))) /\ Cardinality(Stored(Ser(j))) <= Cardinality(Ts)
    <2>1. /\ Delivered(j) \in SUBSET Ts /\ Stored(Ser(j)) \in SUBSET Ts
      BY <1>3
    <2>2. IsFiniteSet(Ts) /\ IsFiniteSet(Stored(Ser(j)))
      BY <2>1, TsFinite
    <2> QED
      BY <1>3, <2>1, <2>2, TsFinite, FS_Subset
  <1>5. n = 0 <=> Delivered(j) = {}
    <2>1. IsFiniteSet(Delivered(j))
      BY <1>3, TsFinite
    <2> QED
      BY <2>1, FS_EmptySet
  <1>6. Cardinality(todo[j]) = 0
    BY <1>3, FS_EmptySet
  <1> HIDE DEF n
  <1>7. written[j] <= n /\ written[j] \in 0..Cardinality(Ts)
    BY <1>3, <1>4, <1>6
  <1>8. CASE runs[Id(j)].status = "running"
    <2>1. CASE Delivered(j) = {}
      <3>1. n = 0 /\ written[j] = 0
        BY <1>3, <1>5, <1>7, <2>1
      <3>2. Result(j) = [status |-> "empty", received |-> 0, upserted |-> 0]
        BY <2>1, <3>1 DEF Result, n
      <3> QED
        BY <1>2, <1>8, <3>2 DEF Raw!Close
    <2>2. CASE Delivered(j) # {}
      <3>1. n \in 1..Cardinality(Stored(Ser(j)))
        BY <1>4, <1>5, <2>2
      <3>2. Result(j) = [status |-> "success", received |-> n, upserted |-> written[j]]
        BY <2>2 DEF Result, n
      <3>3. Raw!Stored(Ser(j)) = Stored(Ser(j))
        BY DEF Raw!Stored, Stored
      <3> QED
        BY <1>1, <1>2, <1>7, <1>8, <3>1, <3>2, <3>3, RawCardinality DEF Raw!Close
    <2> QED
      BY <2>1, <2>2
  <1>9. CASE runs[Id(j)] = Result(j)
    BY <1>1, <1>2, <1>9
  <1> QED
    BY <1>8, <1>9 DEF RawInv, Settled, FinishRun

LEMMA RecordRaw ==
  ASSUME RawInv, NEW j \in Jobs, RecordFailure(j)
  PROVE  Raw!Close(Id(j)) \/ Raw!Reclose(Id(j)) \/ UNCHANGED <<prices, runs>>
  <1>1. Id(j) \in RunIds /\ runs \in [RunIds -> Row]
    BY IdType DEF RecordFailure, RawInv, TypeOK, DataOK
  <1>2. runs' = [runs EXCEPT ![Id(j)] = Failed] /\ UNCHANGED prices
    BY DEF RecordFailure, Closed, Close, Failed
  <1>3. CASE runs[Id(j)] = Failed
    BY <1>1, <1>2, <1>3
  <1>4. CASE runs[Id(j)].status = "running"
    BY <1>2, <1>4 DEF Raw!Close, Failed
  <1>5. CASE runs[Id(j)].status \in {"success", "empty"}
    BY <1>2, <1>5 DEF Raw!Reclose, Failed
  <1> QED
    BY <1>3, <1>4, <1>5 DEF RawInv, Settled, RecordFailure

\* The ingestion jobs implement RawLayer: every transaction of start_run,
\* upsert_bars, finish_run and _record_failure, whether it is the first attempt, a
\* retry after a lost acknowledgement, or one of several jobs at the same time, is
\* one of its steps or changes nothing.
THEOREM JobsImplementRawLayer == Spec => ImplementsRawLayer
  <1>1. Init => Raw!RawInit
    BY DEF Init, NoBars, Absent, Raw!RawInit, Raw!Absent
  <1>2. ASSUME RawInv, [Next]_vars PROVE [Raw!RawNext]_(Raw!rawVars)
    <2>1. ASSUME NEW j \in Jobs, StartRun(j) PROVE Raw!Open(Id(j)) /\ Id(j) \in RunIds
      BY <1>2, <2>1, IdType DEF StartRun, Inserted, Raw!Open, RawInv
    <2>2. ASSUME NEW j \in Jobs, Upsert(j)
          PROVE  Ser(j) \in Series /\ (Raw!Write(Ser(j)) \/ UNCHANGED <<prices, runs>>)
      BY <1>2, <2>2, UpsertRaw, SerType DEF RawInv
    <2>3. ASSUME NEW j \in Jobs, FinishRun(j)
          PROVE  Id(j) \in RunIds /\ (Raw!Close(Id(j)) \/ UNCHANGED <<prices, runs>>)
      BY <1>2, <2>3, FinishRaw, IdType DEF RawInv, FinishRun
    <2>4. ASSUME NEW j \in Jobs, RecordFailure(j)
          PROVE  /\ Id(j) \in RunIds
                 /\ Raw!Close(Id(j)) \/ Raw!Reclose(Id(j)) \/ UNCHANGED <<prices, runs>>
      BY <1>2, <2>4, RecordRaw, IdType DEF RawInv, RecordFailure
    <2>5. \/ UNCHANGED <<prices, runs>>
          \/ \E j \in Jobs : StartRun(j) \/ Upsert(j) \/ FinishRun(j) \/ RecordFailure(j)
      BY <1>2 DEF Next, Step, vars, Publish, Trigger, Fetch, FetchNothing, CallFails,
                  RecordFails, Crash
    <2> QED
      BY <2>1, <2>2, <2>3, <2>4, <2>5 DEF Raw!RawNext, Raw!rawVars
  <1> QED
    BY <1>1, <1>2, InitRawInv, NextRawInv, PTL DEF Spec, ImplementsRawLayer, Raw!RawSpec
-----------------------------------------------------------------------------
(* What rows_upserted counts. *)

CountInv ==
  RawInv /\ NewestChange /\ RowsUpserted /\ \A j \in Jobs : Counted(j)

\* The bars a transaction changes are those RETURNING counts.
LEMMA UpsertChanges ==
  ASSUME RawInv, NEW j \in Jobs, Upsert(j)
  PROVE  /\ changed[Id(j)] \in Nat /\ Affected(j) \in Nat /\ Id(j) \in RunIds
         /\ changed' = [changed EXCEPT ![Id(j)] = @ + Affected(j)]
  <1>1. PICK s \in Series : s = Ser(j)
    BY SerType DEF RawInv
  <1>2. \A t \in Ts : prices'[s][t] = IF t \in Batch(j) THEN bars[j][t] ELSE prices[s][t]
    BY <1>1, UpsertWrites DEF RawInv
  <1>3. Batch(j) \subseteq Ts
    BY DEF Batch, RawInv, TypeOK, ThreadOK
  <1>4. {t \in Ts : prices'[s][t] # prices[s][t]} = {t \in Batch(j) : prices[s][t] # bars[j][t]}
    BY <1>2, <1>3
  <1>5. Id(j) \in RunIds /\ Affected(j) \in Nat
    BY IdType, BatchCount DEF Upsert, RawInv
  <1> QED
    BY <1>1, <1>4, <1>5 DEF Upsert, Affected, RawInv, TypeOK, HistoryOK

LEMMA NextNewestChange ==
  ASSUME RawInv, NewestChange, [Next]_vars
  PROVE  NewestChange'
  <1> SUFFICES ASSUME NEW r \in RunIds, changed'[r] # 0
               PROVE  \/ r[2] < pass'[r[1]]
                      \/ r[2] = pass'[r[1]] /\ r[3] <= idx'[r[1]]
    BY DEF NewestChange
  <1>1. /\ r[1] \in Jobs /\ r[2] \in Nat /\ r[3] \in Nat
        /\ pass[r[1]] \in Nat /\ idx[r[1]] \in Nat
        /\ pass'[r[1]] \in Nat /\ idx'[r[1]] \in Nat
    BY NextType, IngestAssumption DEF RunIds, Symbols, RawInv, TypeOK, ThreadOK, PassOK
  <1>2. r[2] < pass[r[1]] \/ (r[2] = pass[r[1]] /\ r[3] <= idx[r[1]])
    <2>1. CASE changed'[r] = changed[r]
      BY <2>1 DEF NewestChange
    <2>2. CASE changed'[r] # changed[r]
      <3>1. PICK j \in Jobs : Step(j) /\ r = Id(j)
        <4>1. PICK j \in Jobs : Step(j)
          BY <2>2 DEF Next, vars, Publish, Trigger, Crash, history
        <4> QED
          BY <2>2, <4>1, StepLocals DEF RawInv
      <3> QED
        BY <1>1, <3>1 DEF Id
    <2> QED
      BY <2>1, <2>2
  <1> QED
    BY <1>1, <1>2, Forward DEF RawInv

\* A symbol, or a pass, that has not begun has changed nothing.
LEMMA FreshCount ==
  ASSUME RawInv, NewestChange, [Next]_vars, NEW j \in Jobs, pc'[j] \in {"idle", "start"},
         changed' = changed,
         \/ NextSymbol(j) /\ pass'[j] = pass[j]
         \/ Trigger(j)
  PROVE  Counted(j)'
  <1> USE DEF TypeOK, ThreadOK, PassOK, RawInv
  <1> SUFFICES ASSUME pc'[j] = "start" PROVE changed[Id(j)'] = 0
    BY DEF Counted, Id
  <1>1. Id(j)' \in RunIds
    <2>1. pass'[j] \in 0..MaxPasses /\ pass'[j] > 0 /\ idx'[j] \in Symbols
      BY NextType
    <2>2. pass'[j] \in 1..MaxPasses
      BY <2>1, IngestAssumption
    <2> QED
      BY <2>1, <2>2 DEF Id, RunIds
  <1>2. /\ Id(j)'[1] = j /\ Id(j)'[2] = pass'[j] /\ Id(j)'[3] = idx'[j]
        /\ pass[j] \in Nat /\ idx[j] \in Nat
    BY IngestAssumption DEF Id, Symbols
  <1>3. \/ pass'[j] = pass[j] /\ idx'[j] = idx[j] + 1
        \/ pass'[j] = pass[j] + 1
    BY DEF NextSymbol, Trigger
  <1> QED
    BY <1>1, <1>2, <1>3 DEF NewestChange

LEMMA NextCounted ==
  ASSUME CountInv, [Next]_vars, NEW k \in Jobs
  PROVE  Counted(k)'
  <1> USE DEF CountInv, RawInv
  <1>0. Counted(k) /\ ambiguous \subseteq ambiguous'
    BY Forward
  <1>1. CASE Trigger(k)
    <2>1. pc'[k] = "start" /\ changed' = changed
      BY <1>1 DEF Trigger, history, TypeOK, ThreadOK
    <2> QED
      BY <1>1, <2>1, FreshCount
  <1>2. CASE Step(k)
    <2>0. pc[k] # "idle" /\ pass' = pass /\ Id(k) \in RunIds
      BY <1>2, StepFrame, IdType
    <2>1. ASSUME NextSymbol(k), changed' = changed PROVE Counted(k)'
      <3>1. pc'[k] \in {"idle", "start"}
        BY <2>1 DEF NextSymbol, TypeOK, ThreadOK
      <3> QED
        BY <2>0, <2>1, <3>1, FreshCount
    <2>2. ASSUME Keeps(k), pc'[k] = "record" PROVE Counted(k)'
      BY <2>2 DEF Counted
    <2>3. ASSUME Keeps(k), pc' = pc PROVE Id(k)' = Id(k) /\ written'[k] = written[k]
      BY <2>0, <2>3 DEF Keeps, Id, local
    <2>4. ASSUME Again(k), changed' = changed PROVE Counted(k)'
      <3>1. pc' = pc /\ Id(k)' = Id(k) /\ written'[k] = written[k]
        BY <2>3, <2>4, AgainOutcome
      <3> QED
        BY <1>0, <2>4, <3>1 DEF Counted, Lags
    <2>5. ASSUME Raise(k), changed' = changed \/ pc[k] # "start" PROVE Counted(k)'
      <3>1. CASE Keeps(k) /\ pc'[k] = "record"
        BY <2>2, <3>1
      <3>2. CASE NextSymbol(k) /\ pc[k] # "start"
        BY <2>5, <3>2, <2>1, RaiseOutcome DEF Raise, Goto, NextSymbol, TypeOK, ThreadOK
      <3>3. CASE NextSymbol(k) /\ pc[k] = "start"
        BY <2>1, <2>5, <3>3
      <3> QED
        BY <2>5, <3>1, <3>2, <3>3, RaiseOutcome
    <2>6. ASSUME NEW l, Goto(k, l) PROVE pc'[k] = l /\ Id(k)' = Id(k)
      BY <2>0, <2>6 DEF Goto, Id, TypeOK, ThreadOK
    <2>7. CASE StartRun(k)
      <3>1. changed' = changed /\ changed[Id(k)] = 0
        BY <1>0, <2>7 DEF StartRun, Counted
      <3>2. CASE Goto(k, "fetch")
        BY <2>6, <3>1, <3>2 DEF Counted
      <3> QED
        BY <2>4, <2>5, <2>7, <3>1, <3>2 DEF StartRun, Retried
    <2>8. CASE Fetch(k) \/ FetchNothing(k)
      <3>1. changed' = changed /\ changed[Id(k)] = 0 /\ written' = written /\ pc[k] = "fetch"
        BY <1>0, <2>8 DEF Fetch, FetchNothing, Counted, history, local
      <3>2. written[k] = 0
        BY <3>1 DEF FetchedIsStored, LocalOK
      <3>3. Id(k)' = Id(k) /\ pc'[k] \in {"upsert", "finish"}
        BY <2>6, <2>8 DEF Fetch, FetchNothing
      <3> QED
        BY <3>1, <3>2, <3>3 DEF Counted, Lags
    <2>9. CASE Upsert(k)
      <3>1. /\ changed[Id(k)] \in Nat /\ Affected(k) \in Nat
            /\ changed'[Id(k)] = changed[Id(k)] + Affected(k)
        BY <2>9, UpsertChanges DEF TypeOK, HistoryOK
      <3>2. pc[k] = "upsert" /\ Lags(k) /\ written[k] \in Nat
        BY <1>0, <2>9 DEF Upsert, Counted, TypeOK, ThreadOK
      <3>3. CASE Goto(k, "upsert") \/ Goto(k, "finish")
        <4>1. Id(k)' = Id(k) /\ pc'[k] \in {"upsert", "finish"}
          BY <2>6, <3>3
        <4>2. written'[k] = written[k] + Affected(k)
          BY <2>9, <3>2, <3>3 DEF Upsert, Goto, Retried, Again, Raise, TypeOK, ThreadOK
        <4> QED
          BY <1>0, <3>1, <3>2, <4>1, <4>2 DEF Counted, Lags
      <3>4. CASE LoseAck(k) /\ Again(k)
        <4>1. pc'[k] = "upsert" /\ Id(k)' = Id(k) /\ written'[k] = written[k]
          BY <2>3, <3>2, <3>4, AgainOutcome
        <4>2. <<"upsert", Id(k)>> \in ambiguous'
          BY <3>2, <3>4 DEF LoseAck
        <4> QED
          BY <3>1, <3>2, <4>1, <4>2 DEF Counted, Lags
      <3>5. CASE LoseAck(k) /\ Raise(k)
        BY <2>5, <3>2, <3>5
      <3> QED
        BY <2>9, <3>3, <3>4, <3>5 DEF Upsert, Retried
    <2>10. CASE FinishRun(k)
      BY <2>1, <2>4, <2>5, <2>10 DEF FinishRun, Retried
    <2>11. CASE CallFails(k)
      <3>1. changed' = changed
        BY <2>11 DEF CallFails, history
      <3> QED
        BY <2>4, <2>5, <2>11, <3>1 DEF CallFails
    <2>12. CASE RecordFailure(k) \/ RecordFails(k)
      BY <2>1, <2>4, <2>12 DEF RecordFailure, RecordFails, GiveUp
    <2> QED
      BY <1>2, <2>7, <2>8, <2>9, <2>10, <2>11, <2>12 DEF Step
  <1>3. ASSUME NEW j \in Jobs, Step(j), j # k PROVE Counted(k)'
    BY <1>0, <1>3, OtherThread
  <1> QED
    BY <1>0, <1>1, <1>2, <1>3, NoStep

LEMMA NextUpserted ==
  ASSUME CountInv, [Next]_vars
  PROVE  RowsUpserted'
  <1> USE DEF CountInv, RawInv
  <1> SUFFICES ASSUME NEW r \in RunIds, runs'[r].status \in {"success", "empty"}
               PROVE  \/ runs'[r].upserted = changed'[r]
                      \/ <<"upsert", r>> \in ambiguous' /\ runs'[r].upserted < changed'[r]
    BY DEF RowsUpserted
  <1>0. ambiguous \subseteq ambiguous'
    BY Forward
  <1>1. CASE runs'[r] = runs[r]
    <2>1. changed'[r] = changed[r]
      <3> SUFFICES ASSUME changed'[r] # changed[r] PROVE FALSE
        OBVIOUS
      <3>1. PICK j \in Jobs : Step(j)
        BY DEF Next, vars, Publish, Trigger, Crash, history
      <3>2. r = Id(j) /\ Upsert(j)
        BY <3>1, StepLocals
      <3>3. runs[r].status = "running"
        BY <3>2 DEF Upsert, RowsFollowThreads, ThreadRow
      <3> QED
        BY <1>1, <3>3
    <2> QED
      BY <1>0, <1>1, <2>1 DEF RowsUpserted
  <1>2. CASE runs'[r] # runs[r]
    <2>1. PICK j \in Jobs : r = Id(j) /\ (StartRun(j) \/ FinishRun(j) \/ RecordFailure(j))
      BY <1>2, RunChange
    <2>2. ~StartRun(j)
      BY <2>1, RunOutcome
    <2>3. ASSUME RecordFailure(j) PROVE FALSE
      <3>1. runs'[r] = Failed
        BY <2>1, <2>3, RunOutcome
      <3> QED
        BY <3>1 DEF Failed
    <2>4. runs'[r].upserted = written[j]
      <3>1. runs'[r] = Result(j)
        BY <2>1, <2>2, <2>3, RunOutcome DEF Result
      <3> QED
        BY <3>1 DEF Result
    <2>5. Lags(j) /\ changed' = changed
      BY <2>1, <2>2, <2>3 DEF FinishRun, Counted
    <2> QED
      BY <1>0, <2>1, <2>4, <2>5 DEF Lags
  <1> QED
    BY <1>1, <1>2

\* rows_upserted is what the run inserted or changed, or falls behind it when one of
\* its upserts committed unacknowledged; it never claims more.
THEOREM CountsAreTrue == Spec => []RowsUpserted
  <1>1. Init => CountInv
    <2> SUFFICES ASSUME Init PROVE CountInv
      OBVIOUS
    <2>1. NewestChange /\ RowsUpserted /\ \A j \in Jobs : Counted(j)
      <3>1. \A r \in RunIds : changed[r] = 0 /\ runs[r].status = "absent"
        BY DEF Init, Absent
      <3>2. \A j \in Jobs : pc[j] = "idle"
        BY DEF Init
      <3> QED
        BY <3>1, <3>2 DEF NewestChange, RowsUpserted, Counted
    <2> QED
      BY <2>1, InitRawInv DEF CountInv
  <1>2. CountInv /\ [Next]_vars => CountInv'
    <2> SUFFICES ASSUME CountInv, [Next]_vars PROVE CountInv'
      OBVIOUS
    <2>1. RawInv' /\ NewestChange' /\ RowsUpserted'
      BY NextRawInv, NextNewestChange, NextUpserted DEF CountInv
    <2>2. \A k \in Jobs : Counted(k)'
      BY NextCounted
    <2> QED
      BY <2>1, <2>2 DEF CountInv
  <1>3. CountInv => RowsUpserted
    BY DEF CountInv
  <1> QED
    BY <1>1, <1>2, <1>3, PTL DEF Spec
-----------------------------------------------------------------------------
(* The summary of a pass. *)

\* The symbols that the pass has left behind, and those of them whose row says so.
Past(j)            == {i \in Symbols : i < idx[j] \/ pc[j] = "idle"}
Visited(j, states) == Cardinality(Past(j) \cap Rows(j, states))

\* The current symbol is counted as a success or as empty before its row says so,
\* and as failed before the failure is recorded.
Pending(j) ==
  [success |-> IF \/ pc[j] = "finish" /\ Delivered(j) # {}
                  \/ pc[j] = "record" /\ runs[Id(j)].status = "success" THEN 1 ELSE 0,
   empty   |-> IF \/ pc[j] = "finish" /\ Delivered(j) = {}
                  \/ pc[j] = "record" /\ runs[Id(j)].status = "empty" THEN 1 ELSE 0,
   failed  |-> IF pc[j] = "record" THEN 1 ELSE 0,
   any     |-> IF pc[j] \in {"finish", "record"} THEN 1 ELSE 0]

Open == {"absent", "running", "failed"}

\* The summary so far, against the rows of the symbols the pass has left behind.
Tallied(j) ==
  /\ summary[j].failed >= Visited(j, Open) + Pending(j).failed
  /\ summary[j].succeeded >= Visited(j, {"success"}) + Pending(j).success
  /\ summary[j].empty >= Visited(j, {"empty"}) + Pending(j).empty
  /\ summary[j].succeeded + summary[j].empty <= Cardinality(Past(j)) + Pending(j).any
  /\ summary[j].succeeded + summary[j].empty + summary[j].failed
       >= Cardinality(Past(j)) + Pending(j).any

Tally(j) ==
  /\ pc[j] = "upsert" => Delivered(j) # {}
  /\ pass[j] > 0 /\ <<j, pass[j]>> \notin died => Tallied(j)

LEMMA TallyTypes ==
  ASSUME TypeOK, NEW j \in Jobs
  PROVE  /\ IsFiniteSet(Past(j)) /\ Cardinality(Past(j)) \in Nat
         /\ \A S : Visited(j, S) \in Nat
         /\ summary[j].failed \in Nat /\ summary[j].succeeded \in Nat /\ summary[j].empty \in Nat
  <1>1. IsFiniteSet(Symbols)
    BY IngestAssumption, FS_Interval DEF Symbols
  <1>2. Past(j) \subseteq Symbols
    BY DEF Past
  <1>3. IsFiniteSet(Past(j))
    BY <1>1, <1>2, FS_Subset
  <1>4. ASSUME NEW S PROVE Visited(j, S) \in Nat
    <2>1. IsFiniteSet(Past(j) \cap Rows(j, S))
      BY <1>3, FS_Subset
    <2> QED
      BY <2>1, FS_CardinalityType DEF Visited
  <1> QED
    BY <1>3, <1>4, FS_CardinalityType DEF TypeOK, ThreadOK

\* A step that leaves the symbol and its predecessors' rows alone visits nothing.
LEMMA Stays ==
  ASSUME NEW j \in Jobs, pass'[j] = pass[j], idx'[j] = idx[j], pc[j] = "idle" <=> pc'[j] = "idle",
         \A i \in Past(j) : runs'[<<j, pass[j], i>>] = runs[<<j, pass[j], i>>]
  PROVE  Cardinality(Past(j))' = Cardinality(Past(j)) /\ \A S : Visited(j, S)' = Visited(j, S)
  <1>1. Past(j)' = Past(j)
    BY DEF Past
  <1>2. ASSUME NEW S PROVE (Past(j) \cap Rows(j, S))' = Past(j) \cap Rows(j, S)
    BY <1>1 DEF Rows
  <1> QED
    BY <1>1, <1>2 DEF Visited

\* At the end of the loop's body one symbol more has been visited.
LEMMA MovesOn ==
  ASSUME TypeOK, NEW j \in Jobs, pc[j] # "idle", NextSymbol(j), pass'[j] = pass[j],
         \A r \in RunIds : r # Id(j) => runs'[r] = runs[r]
  PROVE  /\ Cardinality(Past(j))' = Cardinality(Past(j)) + 1
         /\ \A S : Visited(j, S)' = Visited(j, S) + (IF runs'[Id(j)].status \in S THEN 1 ELSE 0)
  <1> DEFINE n == idx[j]
  <1>0. /\ n \in Symbols /\ n \in Nat /\ SymbolCount \in Nat /\ n <= SymbolCount
        /\ Symbols \subseteq Nat /\ \A i \in Symbols : i <= SymbolCount
    BY IngestAssumption DEF TypeOK, ThreadOK, Symbols
  <1>1. Past(j)' = Past(j) \cup {n} /\ n \notin Past(j)
    <2>1. Past(j) = {i \in Symbols : i < n} /\ n \notin Past(j)
      BY <1>0 DEF Past
    <2>2. CASE n < SymbolCount
      <3>1. pc'[j] = "start" /\ idx'[j] = n + 1
        BY <1>0, <2>2 DEF NextSymbol, TypeOK, ThreadOK
      <3>2. Past(j)' = {i \in Symbols : i < n + 1}
        BY <3>1 DEF Past
      <3>3. \A i \in Symbols : i < n + 1 <=> i < n \/ i = n
        BY <1>0
      <3>4. {i \in Symbols : i < n + 1} = {i \in Symbols : i < n} \cup {n}
        BY <1>0, <3>3
      <3> HIDE DEF n
      <3> QED
        BY <2>1, <3>2, <3>4
    <2>3. CASE n = SymbolCount
      <3>1. pc'[j] = "idle"
        BY <1>0, <2>3 DEF NextSymbol, TypeOK, ThreadOK
      <3>2. Past(j)' = Symbols
        BY <3>1 DEF Past
      <3>3. \A i \in Symbols : i < n \/ i = n
        BY <1>0, <2>3
      <3>4. Symbols = {i \in Symbols : i < n} \cup {n}
        BY <1>0, <3>3
      <3> HIDE DEF n
      <3> QED
        BY <2>1, <3>2, <3>4
    <2> QED
      BY <1>0, <2>2, <2>3
  <1>2. ASSUME NEW S
        PROVE  /\ runs'[Id(j)].status \in S =>
                    (Past(j) \cap Rows(j, S))' = (Past(j) \cap Rows(j, S)) \cup {n}
               /\ runs'[Id(j)].status \notin S =>
                    (Past(j) \cap Rows(j, S))' = Past(j) \cap Rows(j, S)
    <2>1. Id(j) = <<j, pass[j], n>> /\ Id(j) \in RunIds
      BY IdType DEF Id
    <2>2. ASSUME NEW i \in Past(j) PROVE runs'[<<j, pass[j], i>>] = runs[<<j, pass[j], i>>]
      <3>1. <<j, pass[j], i>> \in RunIds /\ <<j, pass[j], i>> # Id(j)
        BY <1>1, <2>1, <2>2 DEF RunIds, Past
      <3> QED
        BY <3>1
    <2>3. Rows(j, S)' = {i \in Symbols : runs'[<<j, pass[j], i>>].status \in S}
      BY DEF Rows
    <2>4. Past(j) \cap Rows(j, S)' = Past(j) \cap Rows(j, S)
      BY <2>2, <2>3 DEF Rows
    <2>5. n \in Rows(j, S)' <=> runs'[Id(j)].status \in S
      BY <1>0, <2>1, <2>3
    <2> QED
      BY <1>1, <2>4, <2>5
  <1>3. IsFiniteSet(Past(j))
    BY TallyTypes
  <1>4. ASSUME NEW S
        PROVE  Visited(j, S)' = Visited(j, S) + (IF runs'[Id(j)].status \in S THEN 1 ELSE 0)
    <2>1. IsFiniteSet(Past(j) \cap Rows(j, S)) /\ n \notin Past(j) \cap Rows(j, S)
      BY <1>1, <1>3, FS_Subset
    <2>2. Cardinality((Past(j) \cap Rows(j, S)) \cup {n}) = Cardinality(Past(j) \cap Rows(j, S)) + 1
      BY <2>1, FS_AddElement
    <2>3. Visited(j, S) \in Nat /\ Visited(j, S) = Cardinality(Past(j) \cap Rows(j, S))
      BY TallyTypes DEF Visited
    <2>4. Visited(j, S)' = Cardinality((Past(j) \cap Rows(j, S))')
      BY DEF Visited
    <2>5. CASE runs'[Id(j)].status \in S
      BY <1>2, <2>2, <2>3, <2>4, <2>5
    <2>6. CASE ~(runs'[Id(j)].status \in S)
      <3>1. Visited(j, S)' = Visited(j, S)
        BY <1>2, <2>3, <2>4, <2>6
      <3> QED
        BY <2>3, <2>6, <3>1
    <2> QED
      BY <2>5, <2>6
  <1>5. Cardinality(Past(j) \cup {n}) = Cardinality(Past(j)) + 1
    BY <1>1, <1>3, FS_AddElement
  <1> QED
    BY <1>1, <1>4, <1>5

\* A step counts the symbol s times as a success, e times as empty, f times as failed.
Credit(j, s, e, f) ==
  /\ summary'[j].succeeded = summary[j].succeeded + s
  /\ summary'[j].empty = summary[j].empty + e
  /\ summary'[j].failed = summary[j].failed + f

LEMMA Credits ==
  ASSUME TypeOK, NEW j \in Jobs
  PROVE  /\ UNCHANGED summary => Credit(j, 0, 0, 0)
         /\ summary' = [summary EXCEPT ![j].failed = @ + 1] => Credit(j, 0, 0, 1)
         /\ summary' = [summary EXCEPT ![j].empty = @ + 1] => Credit(j, 0, 1, 0)
         /\ \A n : summary' = [summary EXCEPT ![j].succeeded = @ + 1, ![j].rows = @ + n]
                     => Credit(j, 1, 0, 0)
  BY DEF TypeOK, ThreadOK, Credit

LEMMA PendingType ==
  ASSUME NEW j \in Jobs
  PROVE  /\ Pending(j).success \in {0, 1} /\ Pending(j).empty \in {0, 1}
         /\ Pending(j).failed \in {0, 1} /\ Pending(j).any \in {0, 1}
         /\ Pending(j)'.success \in {0, 1} /\ Pending(j)'.empty \in {0, 1}
         /\ Pending(j)'.failed \in {0, 1} /\ Pending(j)'.any \in {0, 1}
  BY DEF Pending

\* A step that stays with the symbol keeps the tally if it counts what it makes pending.
LEMMA TallyRemains ==
  ASSUME TypeOK, NEW j \in Jobs, Step(j), UNCHANGED idx, pc'[j] # "idle", Tallied(j),
         NEW s \in {0, 1}, NEW e \in {0, 1}, NEW f \in {0, 1}, Credit(j, s, e, f),
         Pending(j)'.success <= Pending(j).success + s,
         Pending(j)'.empty <= Pending(j).empty + e,
         Pending(j)'.failed <= Pending(j).failed + f,
         Pending(j)'.any >= Pending(j).any + s + e,
         Pending(j)'.any <= Pending(j).any + s + e + f
  PROVE  Tallied(j)'
  <1>1. /\ pc[j] # "idle" /\ pass'[j] = pass[j] /\ idx'[j] = idx[j]
        /\ \A r \in RunIds : r # Id(j) => runs'[r] = runs[r]
    BY StepFrame
  <1>2. ASSUME NEW i \in Past(j) PROVE runs'[<<j, pass[j], i>>] = runs[<<j, pass[j], i>>]
    <2>1. Id(j) \in RunIds /\ idx[j] \in Nat /\ i \in Nat /\ i < idx[j] /\ i \in Symbols
      BY <1>1, <1>2, IdType, IngestAssumption DEF Past, Symbols, TypeOK, ThreadOK
    <2>2. <<j, pass[j], i>> \in RunIds /\ <<j, pass[j], i>> # Id(j)
      BY <2>1 DEF Id, RunIds
    <2> QED
      BY <1>1, <2>2
  <1>3. /\ Cardinality(Past(j))' = Cardinality(Past(j))
        /\ \A S : Visited(j, S)' = Visited(j, S)
    BY <1>1, <1>2, Stays
  <1> QED
    BY <1>3, PendingType, TallyTypes DEF Tallied, Credit

\* The end of the loop's body keeps it if the symbol was pending as what its row says,
\* or is counted as failed in the same step.
LEMMA TallyMovesOn ==
  ASSUME TypeOK, [Next]_vars, NEW j \in Jobs, Step(j), NextSymbol(j), Tallied(j),
         NEW f \in {0, 1}, Credit(j, 0, 0, f), Pending(j).any + f >= 1,
         runs'[Id(j)].status = "success" => Pending(j).success = 1,
         runs'[Id(j)].status = "empty" => Pending(j).empty = 1,
         runs'[Id(j)].status \in Open => Pending(j).failed + f >= 1
  PROVE  Tallied(j)'
  <1>1. /\ pc[j] # "idle" /\ pass'[j] = pass[j] /\ pc'[j] \in {"idle", "start"}
        /\ \A r \in RunIds : r # Id(j) => runs'[r] = runs[r]
    BY StepFrame DEF NextSymbol, TypeOK, ThreadOK
  <1> DEFINE st == runs'[Id(j)].status
  <1>2. /\ Cardinality(Past(j))' = Cardinality(Past(j)) + 1
        /\ \A S : Visited(j, S)' = Visited(j, S) + (IF st \in S THEN 1 ELSE 0)
    BY <1>1, MovesOn
  <1>3. /\ Pending(j)'.success = 0 /\ Pending(j)'.empty = 0
        /\ Pending(j)'.failed = 0 /\ Pending(j)'.any = 0
    BY <1>1 DEF Pending
  <1> HIDE DEF st
  <1>4. /\ Visited(j, {"success"})' <= Visited(j, {"success"}) + Pending(j).success
        /\ Visited(j, {"empty"})' <= Visited(j, {"empty"}) + Pending(j).empty
        /\ Visited(j, Open)' <= Visited(j, Open) + Pending(j).failed + f
    BY <1>2, PendingType, TallyTypes DEF st
  <1>5. \A S : Visited(j, S)' \in Nat
    BY <1>2, TallyTypes
  <1>6. /\ summary'[j].failed >= Visited(j, Open)' /\ summary'[j].succeeded >= Visited(j, {"success"})'
        /\ summary'[j].empty >= Visited(j, {"empty"})'
    BY <1>4, <1>5, PendingType, TallyTypes DEF Tallied, Credit
  <1> QED
    BY <1>2, <1>3, <1>5, <1>6, PendingType, TallyTypes DEF Tallied, Credit

\* Only the summary of a pass the process did not die in is kept to its end.
SumInv == RawInv /\ \A j \in Jobs : Tally(j)

LEMMA StepTallied ==
  ASSUME SumInv, [Next]_vars, NEW k \in Jobs, Step(k), Tallied(k)
  PROVE  Tallied(k)'
  <1> USE DEF RawInv
  <1>0. /\ TypeOK /\ pc[k] # "idle" /\ pass' = pass
        /\ Settled(k) /\ ThreadRow(k) /\ LocalOK(k) /\ Tally(k)
    BY StepFrame DEF SumInv, RowsFollowThreads, FetchedIsStored
  <1> DEFINE st == runs'[Id(k)].status
  <1>1. ASSUME UNCHANGED <<pc, idx, local, summary>>,
               st \in {runs[Id(k)].status, "failed"} \/ pc[k] # "record"
        PROVE  Tallied(k)'
    <2>1. Id(k)' = Id(k) /\ Delivered(k)' = Delivered(k)
      BY <1>0, <1>1 DEF Id, Delivered, local
    <2>2. /\ Pending(k)'.success <= Pending(k).success /\ Pending(k)'.empty <= Pending(k).empty
          /\ Pending(k)'.failed = Pending(k).failed /\ Pending(k)'.any = Pending(k).any
      BY <1>1, <2>1 DEF Pending
    <2>3. Credit(k, 0, 0, 0)
      BY <1>0, <1>1, Credits
    <2> QED
      BY <1>0, <1>1, <2>2, <2>3, PendingType, TallyRemains
  <1>2. ASSUME Again(k), UNCHANGED summary,
               st \in {runs[Id(k)].status, "failed"} \/ pc[k] # "record"
        PROVE  Tallied(k)'
    BY <1>1, <1>2 DEF Again
  <1>3. ASSUME Raise(k), pc[k] = "start", st \in Open
        PROVE  Tallied(k)'
    <2>1. NextSymbol(k) /\ Credit(k, 0, 0, 1)
      BY <1>0, <1>3, Credits DEF Raise
    <2> QED
      BY <1>0, <1>3, <2>1, PendingType, TallyMovesOn DEF Open
  <1>4. ASSUME Raise(k), pc[k] \in {"fetch", "upsert", "finish"},
               st = "success" => Pending(k).success = 1,
               st = "empty" => Pending(k).empty = 1
        PROVE  Tallied(k)'
    <2>1. /\ UNCHANGED idx /\ pc'[k] = "record" /\ Id(k)' = Id(k) /\ Credit(k, 0, 0, 1)
      BY <1>0, <1>4, Credits DEF Raise, Goto, Id, TypeOK, ThreadOK
    <2>2. /\ Pending(k)'.success = (IF st = "success" THEN 1 ELSE 0)
          /\ Pending(k)'.empty = (IF st = "empty" THEN 1 ELSE 0)
          /\ Pending(k)'.failed = 1 /\ Pending(k)'.any = 1
          /\ Pending(k).failed = 0
      BY <1>4, <2>1 DEF Pending
    <2> QED
      BY <1>0, <1>4, <2>1, <2>2, PendingType, TallyRemains
  <1>5. ASSUME NEW l \in {"fetch", "upsert"}, Goto(k, l), UNCHANGED summary,
               pc[k] \in {"start", "fetch", "upsert"}
        PROVE  Tallied(k)'
    <2>1. UNCHANGED idx /\ pc'[k] = l /\ Credit(k, 0, 0, 0)
      BY <1>0, <1>5, Credits DEF Goto, TypeOK, ThreadOK
    <2>2. /\ Pending(k)'.success = 0 /\ Pending(k)'.empty = 0
          /\ Pending(k)'.failed = 0 /\ Pending(k)'.any = 0 /\ Pending(k).any = 0
      BY <1>5, <2>1 DEF Pending
    <2> QED
      BY <1>0, <2>1, <2>2, PendingType, TallyRemains
  <1>6. CASE StartRun(k)
    <2>1. st = "running" /\ pc[k] = "start"
      BY <1>0, <1>6, RunOutcome DEF StartRun
    <2> QED
      BY <1>2, <1>3, <1>5, <1>6, <2>1 DEF StartRun, Retried, Open
  <1>7. CASE Fetch(k)
    BY <1>5, <1>7 DEF Fetch
  <1>8. CASE FetchNothing(k)
    <2>1. UNCHANGED idx /\ pc[k] = "fetch" /\ pc'[k] = "finish" /\ Credit(k, 0, 1, 0)
      BY <1>0, <1>8, Credits DEF FetchNothing, Goto, TypeOK, ThreadOK
    <2>2. Delivered(k)' = {}
      <3>1. bars'[k] = NoBars
        BY <1>0, <1>8, <2>1 DEF FetchNothing, LocalOK, local
      <3> QED
        BY <3>1 DEF Delivered, NoBars
    <2>3. /\ Pending(k)'.success = 0 /\ Pending(k)'.empty = 1
          /\ Pending(k)'.failed = 0 /\ Pending(k)'.any = 1 /\ Pending(k).any = 0
      BY <2>1, <2>2 DEF Pending
    <2> QED
      BY <1>0, <2>1, <2>3, PendingType, TallyRemains
  <1>9. CASE Upsert(k)
    <2>1. pc[k] = "upsert" /\ st = "running" /\ UNCHANGED bars
      BY <1>0, <1>9 DEF Upsert, ThreadRow, Retried, Again, Raise, Goto, local
    <2>2. CASE /\ Goto(k, "finish")
               /\ \E n : summary' = [summary EXCEPT ![k].succeeded = @ + 1, ![k].rows = @ + n]
      <3>1. UNCHANGED idx /\ pc'[k] = "finish" /\ Credit(k, 1, 0, 0)
        BY <1>0, <2>2, Credits DEF Goto, TypeOK, ThreadOK
      <3>2. Delivered(k)' # {}
        BY <1>0, <2>1 DEF Tally, Delivered
      <3>3. /\ Pending(k)'.success = 1 /\ Pending(k)'.empty = 0
            /\ Pending(k)'.failed = 0 /\ Pending(k)'.any = 1 /\ Pending(k).any = 0
        BY <2>1, <3>1, <3>2 DEF Pending
      <3> QED
        BY <1>0, <3>1, <3>3, PendingType, TallyRemains
    <2>3. \/ Goto(k, "upsert") /\ UNCHANGED summary
          \/ /\ Goto(k, "finish")
             /\ \E n : summary' = [summary EXCEPT ![k].succeeded = @ + 1, ![k].rows = @ + n]
          \/ Again(k) /\ UNCHANGED summary
          \/ Raise(k)
      BY <1>9 DEF Upsert, Retried
    <2> QED
      BY <1>2, <1>4, <1>5, <2>1, <2>2, <2>3
  <1>10. CASE FinishRun(k)
    <2>1. pc[k] = "finish" /\ st = IF Delivered(k) = {} THEN "empty" ELSE "success"
      <3>1. runs'[Id(k)] = Result(k)
        BY <1>0, <1>10, RunOutcome DEF Result
      <3> QED
        BY <1>10, <3>1 DEF Result, FinishRun
    <2>2. /\ Pending(k).any = 1
          /\ st = "success" => Pending(k).success = 1
          /\ st = "empty" => Pending(k).empty = 1
      BY <2>1 DEF Pending
    <2>3. CASE NextSymbol(k) /\ UNCHANGED summary
      <3>1. Credit(k, 0, 0, 0) /\ st \notin Open
        BY <1>0, <2>1, <2>3, Credits DEF Open
      <3> QED
        BY <1>0, <2>2, <2>3, <3>1, PendingType, TallyMovesOn
    <2> QED
      BY <1>2, <1>4, <1>10, <2>1, <2>2, <2>3 DEF FinishRun, Retried
  <1>11. CASE CallFails(k)
    <2>1. st = runs[Id(k)].status /\ pc[k] \in {"start", "fetch", "upsert", "finish"}
      BY <1>11 DEF CallFails
    <2>2. pc[k] = "start" => st \in Open
      BY <1>0, <2>1 DEF ThreadRow, Open
    <2>3. pc[k] # "start" => /\ st = "success" => Pending(k).success = 1
                             /\ st = "empty" => Pending(k).empty = 1
      <3>1. CASE pc[k] = "finish"
        BY <1>0, <2>1, <3>1 DEF Settled, Result, Pending
      <3>2. CASE pc[k] \in {"fetch", "upsert"}
        BY <1>0, <2>1, <3>2 DEF ThreadRow
      <3> QED
        BY <2>1, <3>1, <3>2
    <2> QED
      BY <1>2, <1>3, <1>4, <1>11, <2>1, <2>2, <2>3 DEF CallFails
  <1>12. CASE RecordFailure(k) \/ RecordFails(k)
    <2>1. pc[k] = "record" /\ UNCHANGED summary /\ st \in {runs[Id(k)].status, "failed"}
      <3>1. ASSUME RecordFailure(k) PROVE st = "failed"
        <4>1. runs'[Id(k)] = Failed
          BY <1>0, <3>1, RunOutcome
        <4> QED
          BY <4>1 DEF Failed
      <3> QED
        BY <1>12, <3>1 DEF RecordFailure, RecordFails
    <2>2. CASE NextSymbol(k)
      <3>1. Credit(k, 0, 0, 0)
        BY <1>0, <2>1, Credits
      <3>2. /\ Pending(k).any = 1 /\ Pending(k).failed = 1
            /\ st = "success" => Pending(k).success = 1
            /\ st = "empty" => Pending(k).empty = 1
        BY <2>1 DEF Pending
      <3> QED
        BY <1>0, <2>2, <3>1, <3>2, PendingType, TallyMovesOn
    <2> QED
      BY <1>2, <1>12, <2>1, <2>2 DEF RecordFailure, RecordFails, GiveUp
  <1> QED
    BY <1>6, <1>7, <1>8, <1>9, <1>10, <1>11, <1>12 DEF Step

\* What is about to be written was delivered.
LEMMA NextDelivered ==
  ASSUME SumInv, NEW k \in Jobs, Step(k), pc'[k] = "upsert"
  PROVE  Delivered(k)' # {}
  <1> USE DEF SumInv, RawInv, TypeOK, ThreadOK
  <1>1. pc[k] = "upsert" \/ Fetch(k)
    BY DEF Step, StartRun, Fetch, FetchNothing, Upsert, FinishRun, CallFails, RecordFailure,
           RecordFails, Retried, Raise, Again, Goto, NextSymbol, GiveUp
  <1>2. CASE Fetch(k)
    <2>1. PICK t \in Window(k) : TRUE
      BY <1>2 DEF Fetch
    <2>2. t \in Ts /\ view[Ser(k)][t] > 0
      BY DEF Window, Published
    <2>3. bars'[k] = Served(k)
      BY <1>2 DEF Fetch
    <2>4. bars'[k][t] > 0
      BY <2>1, <2>2, <2>3 DEF Served
    <2> QED
      BY <2>2, <2>4 DEF Delivered
  <1>3. CASE pc[k] = "upsert"
    <2>1. UNCHANGED bars
      BY <1>3 DEF Step, StartRun, Fetch, FetchNothing, Upsert, FinishRun, CallFails,
           RecordFailure, RecordFails, Retried, Raise, Again, Goto, NextSymbol, GiveUp, local
    <2> QED
      BY <1>3, <2>1 DEF Tally, Delivered
  <1> QED
    BY <1>1, <1>2, <1>3

LEMMA NextTally ==
  ASSUME SumInv, [Next]_vars, NEW k \in Jobs
  PROVE  Tally(k)'
  <1> USE DEF SumInv, RawInv, TypeOK, ThreadOK, PassOK
  <1>0. Tally(k) /\ died \subseteq died'
    BY Forward
  <1>1. CASE Step(k)
    <2>1. pc[k] # "idle" /\ UNCHANGED <<pass, died>> /\ pass[k] > 0
      BY <1>1, StepFrame
    <2> QED
      BY <1>0, <1>1, <2>1, StepTallied, NextDelivered DEF Tally
  <1>2. CASE Trigger(k)
    <2>1. /\ pc'[k] = "start" /\ idx'[k] = 1 /\ summary'[k] = EmptySummary
      BY <1>2 DEF Trigger
    <2>2. Past(k)' = {}
      <3>1. Past(k)' = {i \in Symbols : i < 1}
        BY <2>1 DEF Past
      <3> QED
        BY <3>1 DEF Symbols
    <2>3. Cardinality({}) = 0
      BY FS_EmptySet
    <2>4. Cardinality(Past(k))' = 0 /\ \A S : Visited(k, S)' = 0
      BY <2>2, <2>3 DEF Visited
    <2>5. /\ Pending(k)'.success = 0 /\ Pending(k)'.empty = 0
          /\ Pending(k)'.failed = 0 /\ Pending(k)'.any = 0
      BY <2>1 DEF Pending
    <2> QED
      BY <2>1, <2>4, <2>5 DEF Tally, Tallied, EmptySummary
  <1>3. CASE Crash
    <2>1. CASE pc[k] = "idle"
      <3>1. /\ pc'[k] = "idle" /\ UNCHANGED <<idx, pass, runs, summary>>
        BY <1>3 DEF Crash
      <3>2. Cardinality(Past(k))' = Cardinality(Past(k)) /\ \A S : Visited(k, S)' = Visited(k, S)
        BY <2>1, <3>1, Stays
      <3>3. /\ Pending(k)'.success = Pending(k).success /\ Pending(k)'.empty = Pending(k).empty
            /\ Pending(k)'.failed = Pending(k).failed /\ Pending(k)'.any = Pending(k).any
        BY <2>1, <3>1 DEF Pending
      <3> QED
        BY <1>0, <2>1, <3>1, <3>2, <3>3 DEF Tally, Tallied
    <2>2. CASE pc[k] # "idle"
      BY <1>3, <2>2 DEF Crash, Tally
    <2> QED
      BY <2>1, <2>2
  <1>4. CASE /\ pc'[k] = pc[k] /\ idx'[k] = idx[k] /\ pass'[k] = pass[k] /\ bars'[k] = bars[k]
             /\ summary'[k] = summary[k]
             /\ \A r \in RunIds : r[1] = k => runs'[r] = runs[r]
    <2>1. Delivered(k)' = Delivered(k) /\ Id(k)' = Id(k)
      BY <1>4 DEF Delivered, Id
    <2>2. CASE pass[k] > 0
      <3>1. ASSUME NEW i \in Symbols
            PROVE  runs'[<<k, pass[k], i>>] = runs[<<k, pass[k], i>>]
        <4>1. pass[k] \in 1..MaxPasses
          BY <2>2, IngestAssumption
        <4>2. <<k, pass[k], i>> \in RunIds /\ <<k, pass[k], i>>[1] = k
          BY <4>1 DEF RunIds
        <4> QED
          BY <1>4, <4>2
      <3>2. Cardinality(Past(k))' = Cardinality(Past(k)) /\ \A S : Visited(k, S)' = Visited(k, S)
        BY <1>4, <3>1, Stays DEF Past
      <3>3. runs'[Id(k)] = runs[Id(k)]
        BY <3>1 DEF Id
      <3>4. /\ Pending(k)'.success = Pending(k).success /\ Pending(k)'.empty = Pending(k).empty
            /\ Pending(k)'.failed = Pending(k).failed /\ Pending(k)'.any = Pending(k).any
        BY <1>4, <2>1, <3>3 DEF Pending
      <3> QED
        BY <1>0, <1>4, <2>1, <3>2, <3>4 DEF Tally, Tallied
    <2>3. CASE ~(pass[k] > 0)
      BY <1>0, <1>4, <2>1, <2>3 DEF Tally
    <2> QED
      BY <2>2, <2>3
  <1>5. ASSUME NEW j \in Jobs, Step(j), j # k
        PROVE  /\ pc'[k] = pc[k] /\ idx'[k] = idx[k] /\ pass'[k] = pass[k] /\ bars'[k] = bars[k]
               /\ summary'[k] = summary[k]
               /\ \A r \in RunIds : r[1] = k => runs'[r] = runs[r]
    <2>1. pc'[k] = pc[k] /\ idx'[k] = idx[k] /\ pass'[k] = pass[k] /\ bars'[k] = bars[k]
      BY <1>5, StepFrame, StepLocals DEF Id
    <2>2. \A r \in RunIds : r[1] = k => runs'[r] = runs[r]
      BY <1>5, StepFrame DEF Id
    <2>3. summary'[k] = summary[k]
      BY <1>5 DEF Step, StartRun, Fetch, FetchNothing, Upsert, FinishRun, CallFails,
           RecordFailure, RecordFails, Retried, Raise
    <2> QED
      BY <2>1, <2>2, <2>3
  <1>6. ASSUME NEW j \in Jobs, Trigger(j), j # k
        PROVE  /\ pc'[k] = pc[k] /\ idx'[k] = idx[k] /\ pass'[k] = pass[k] /\ bars'[k] = bars[k]
               /\ summary'[k] = summary[k] /\ runs' = runs
    BY <1>6 DEF Trigger, local
  <1>7. ASSUME (\E s \in Series, t \in Ts : Publish(s, t)) \/ UNCHANGED vars
        PROVE  UNCHANGED <<pc, idx, pass, bars, summary, runs>>
    BY <1>7 DEF Publish, vars, control, local
  <1> QED
    BY <1>1, <1>2, <1>3, <1>4, <1>5, <1>6, <1>7 DEF Next

\* The summary of a pass that returned hides no failure: every symbol without a row
\* closed as success or empty is counted as failed, and none is left out.
THEOREM EveryFailureCounts == Spec => []FailuresReported
  <1>1. Init => SumInv
    <2>1. Init => \A j \in Jobs : pc[j] = "idle" /\ ~(pass[j] > 0)
      BY DEF Init
    <2> QED
      BY <2>1, InitRawInv DEF SumInv, Tally
  <1>2. SumInv /\ [Next]_vars => SumInv'
    <2> SUFFICES ASSUME SumInv, [Next]_vars PROVE SumInv'
      OBVIOUS
    <2>1. RawInv' /\ \A k \in Jobs : Tally(k)'
      BY NextRawInv, NextTally DEF SumInv
    <2> QED
      BY <2>1 DEF SumInv
  <1>3. SumInv => FailuresReported
    <2> SUFFICES ASSUME SumInv, NEW j \in Jobs, Returned(j)
                 PROVE  /\ summary[j].failed >= Cardinality(Symbols \ Rows(j, {"success", "empty"}))
                        /\ summary[j].succeeded >= Cardinality(Rows(j, {"success"}))
                        /\ summary[j].empty >= Cardinality(Rows(j, {"empty"}))
                        /\ summary[j].succeeded + summary[j].empty <= SymbolCount
                        /\ summary[j].succeeded + summary[j].empty + summary[j].failed >= SymbolCount
      BY DEF FailuresReported
    <2>1. Tallied(j) /\ TypeOK
      BY DEF SumInv, Tally, Returned, RawInv
    <2>2. Past(j) = Symbols
      BY DEF Past, Returned
    <2>3. \A S : Visited(j, S) = Cardinality(Rows(j, S))
      <3>1. \A S : Past(j) \cap Rows(j, S) = Rows(j, S)
        BY <2>2 DEF Rows
      <3> QED
        BY <3>1 DEF Visited
    <2>4. Rows(j, Open) = Symbols \ Rows(j, {"success", "empty"})
      <3>1. \A i \in Symbols : <<j, pass[j], i>> \in RunIds
        BY <2>1, IngestAssumption DEF RunIds, Returned, TypeOK, PassOK
      <3>2. \A i \in Symbols : runs[<<j, pass[j], i>>].status \in Open \cup {"success", "empty"}
        BY <2>1, <3>1 DEF TypeOK, DataOK, Row, Final, Open
      <3> QED
        BY <3>2 DEF Rows, Open
    <2>5. Cardinality(Past(j)) = SymbolCount
      BY <2>2, FS_Interval, IngestAssumption DEF Symbols
    <2>6. /\ Pending(j).success = 0 /\ Pending(j).empty = 0
          /\ Pending(j).failed = 0 /\ Pending(j).any = 0
      BY DEF Pending, Returned
    <2> QED
      BY <2>1, <2>3, <2>4, <2>5, <2>6, TallyTypes DEF Tallied
  <1> QED
    BY <1>1, <1>2, <1>3, PTL DEF Spec

-----------------------------------------------------------------------------
(* A pass comes to its end.  That each thread is scheduled is fairness; that *)
(* its steps lead to the end, and nothing leads back, is proved here.        *)

\* Fewer calls outweigh the attempts of the next one.
LEMMA FewerCalls ==
  ASSUME NEW a \in Nat \ {0}, NEW x \in Int, NEW y \in Int, x < y, NEW p \in 1..a, NEW q \in 1..a
  PROVE  a * x - (p - 1) < a * y - (q - 1)
  <1> DEFINE d == y - x - 1
  <1>1. d \in Nat /\ y = x + d + 1
    OBVIOUS
  <1> HIDE DEF d
  <1>2. a * y = a * x + a * d + a /\ a * d \in Nat /\ a * x \in Int
    BY <1>1
  <1> QED
    BY <1>2

LEMMA CallsType ==
  ASSUME TypeOK, NEW j \in Jobs, pc[j] # "idle"
  PROVE  /\ CallsHere(j) \in Nat \ {0} /\ Lookback[j] + 4 \in Nat \ {0}
         /\ SymbolCount - idx[j] \in Nat /\ (SymbolCount - idx[j]) * (Lookback[j] + 4) \in Nat
         /\ MaxAttempts \in Nat \ {0} /\ attempt[j] \in 1..MaxAttempts
  <1>1. Lookback[j] + 4 \in Nat \ {0} /\ SymbolCount - idx[j] \in Nat
    BY IngestAssumption DEF TypeOK, ThreadOK, Symbols
  <1>2. CallsHere(j) \in Nat \ {0}
    <2>1. Cardinality(todo[j]) \in Nat
      BY TsFinite DEF TypeOK, ThreadOK
    <2>2. Lookback[j] \in Nat
      BY IngestAssumption
    <2> QED
      BY <2>1, <2>2 DEF CallsHere, TypeOK, ThreadOK
  <1> QED
    BY <1>1, <1>2, IngestAssumption DEF TypeOK, ThreadOK

LEMMA LeftType ==
  ASSUME TypeOK, NEW j \in Jobs
  PROVE  Left(j) \in Nat /\ (pc[j] # "idle" => Left(j) > 0)
  <1>1. CASE pc[j] # "idle"
    <2> DEFINE n == (SymbolCount - idx[j]) * (Lookback[j] + 4) + CallsHere(j)
    <2>1. n \in Int /\ 0 < n /\ MaxAttempts \in Nat \ {0} /\ attempt[j] \in 1..MaxAttempts
      BY <1>1, CallsType
    <2> HIDE DEF n
    <2>2. MaxAttempts * 0 - (MaxAttempts - 1) < MaxAttempts * n - (attempt[j] - 1)
      BY <2>1, FewerCalls
    <2>3. MaxAttempts * n - (attempt[j] - 1) \in Int
      BY <2>1
    <2>4. Left(j) = MaxAttempts * n - (attempt[j] - 1)
      BY <1>1 DEF Left, n
    <2>5. 1 - MaxAttempts < Left(j) /\ Left(j) \in Int
      BY <2>1, <2>2, <2>3, <2>4
    <2>6. MaxAttempts * 1 <= MaxAttempts * n
      <3> DEFINE d == n - 1
      <3>1. d \in Nat /\ n = d + 1
        BY <2>1
      <3> HIDE DEF d
      <3> QED
        BY <2>1, <3>1
    <2> QED
      BY <2>1, <2>3, <2>4, <2>6
  <1>2. CASE pc[j] = "idle"
    BY <1>2 DEF Left
  <1> QED
    BY <1>1, <1>2

LEMMA FewerHere ==
  ASSUME TypeOK, TypeOK', NEW j \in Jobs, pc[j] # "idle", pc'[j] # "idle",
         idx'[j] = idx[j], CallsHere(j)' < CallsHere(j)
  PROVE  Left(j)' < Left(j)
  <1> DEFINE w == (SymbolCount - idx[j]) * (Lookback[j] + 4)
  <1>1. /\ w \in Nat /\ CallsHere(j) \in Nat
        /\ MaxAttempts \in Nat \ {0} /\ attempt[j] \in 1..MaxAttempts
    BY CallsType
  <1>2. CallsHere(j)' \in Nat /\ attempt'[j] \in 1..MaxAttempts
    <2>1. Cardinality(todo'[j]) \in Nat
      BY TsFinite DEF TypeOK, ThreadOK
    <2>2. Lookback[j] \in Nat
      BY IngestAssumption
    <2> QED
      BY <2>1, <2>2 DEF CallsHere, TypeOK, ThreadOK
  <1>3. Left(j) = MaxAttempts * (w + CallsHere(j)) - (attempt[j] - 1)
    BY DEF Left
  <1>4. Left(j)' = MaxAttempts * (w + CallsHere(j)') - (attempt'[j] - 1)
    BY DEF Left
  <1> HIDE DEF w
  <1>5. w + CallsHere(j)' \in Int /\ w + CallsHere(j) \in Int /\ w + CallsHere(j)' < w + CallsHere(j)
    BY <1>1, <1>2
  <1> QED
    BY <1>1, <1>2, <1>3, <1>4, <1>5, FewerCalls

LEMMA NextSymbolLeft ==
  ASSUME TypeOK, TypeOK', NEW j \in Jobs, pc[j] # "idle", NextSymbol(j)
  PROVE  Left(j)' < Left(j)
  <1>1. CASE pc'[j] = "idle"
    <2>1. Left(j)' = 0
      BY <1>1 DEF Left
    <2> QED
      BY <2>1, LeftType
  <1>2. CASE pc'[j] # "idle"
    <2> DEFINE b == Lookback[j] + 4
               s == SymbolCount - idx[j]
    <2>1. pc'[j] = "start" /\ idx'[j] = idx[j] + 1 /\ attempt'[j] = 1
      BY <1>2 DEF NextSymbol, TypeOK, ThreadOK
    <2>2. /\ s \in Nat /\ b \in Nat /\ s * b \in Nat /\ CallsHere(j) \in Nat \ {0}
          /\ MaxAttempts \in Nat \ {0} /\ attempt[j] \in 1..MaxAttempts
      BY CallsType
    <2>3. Left(j) = MaxAttempts * (s * b + CallsHere(j)) - (attempt[j] - 1)
      BY DEF Left
    <2>4. CallsHere(j)' = b
      BY <2>1 DEF CallsHere
    <2>5. SymbolCount - idx'[j] = s - 1
      BY <2>1, IngestAssumption DEF TypeOK, ThreadOK, Symbols
    <2>6. Left(j)' = MaxAttempts * ((s - 1) * b + b) - (1 - 1)
      BY <1>2, <2>1, <2>4, <2>5 DEF Left
    <2> HIDE DEF b, s
    <2>7. (s - 1) * b + b = s * b
      BY <2>2
    <2>8. 1 \in 1..MaxAttempts /\ s * b < s * b + CallsHere(j)
      BY <2>2
    <2> DEFINE w == s * b
    <2>9. /\ w \in Int /\ w + CallsHere(j) \in Int /\ w < w + CallsHere(j)
          /\ Left(j) = MaxAttempts * (w + CallsHere(j)) - (attempt[j] - 1)
          /\ Left(j)' = MaxAttempts * w - (1 - 1)
      BY <2>2, <2>3, <2>6, <2>7, <2>8
    <2> HIDE DEF w
    <2> QED
      BY <2>2, <2>8, <2>9, FewerCalls
  <1> QED
    BY <1>1, <1>2

LEMMA AgainLeft ==
  ASSUME TypeOK, NEW j \in Jobs, pc[j] # "idle", Again(j)
  PROVE  Left(j)' < Left(j)
  <1> DEFINE m == MaxAttempts * ((SymbolCount - idx[j]) * (Lookback[j] + 4) + CallsHere(j))
  <1>1. /\ pc'[j] = pc[j] /\ idx'[j] = idx[j] /\ todo'[j] = todo[j]
        /\ attempt'[j] = attempt[j] + 1
    BY DEF Again, local, TypeOK, ThreadOK
  <1>2. CallsHere(j)' = CallsHere(j)
    BY <1>1 DEF CallsHere
  <1>3. Left(j) = m - (attempt[j] - 1) /\ Left(j)' = m - attempt[j]
    BY <1>1, <1>2, CallsType DEF Left
  <1>4. m \in Int /\ attempt[j] \in Int
    BY CallsType
  <1> HIDE DEF m
  <1> QED
    BY <1>3, <1>4

LEMMA RaiseLeft ==
  ASSUME TypeOK, TypeOK', NEW j \in Jobs, pc[j] \in {"start", "fetch", "upsert", "finish"}, Raise(j)
  PROVE  Left(j)' < Left(j)
  <1>1. CASE NextSymbol(j)
    BY <1>1, NextSymbolLeft
  <1>2. CASE pc[j] # "start" /\ Goto(j, "record") /\ UNCHANGED local
    <2>1. pc'[j] = "record" /\ idx'[j] = idx[j]
      BY <1>2 DEF Goto, TypeOK, ThreadOK
    <2>2. CallsHere(j)' = 1
      BY <2>1 DEF CallsHere
    <2>3. CallsHere(j) > 1
      <3>1. Cardinality(todo[j]) \in Nat /\ Lookback[j] \in Nat
        BY TsFinite, IngestAssumption DEF TypeOK, ThreadOK
      <3> QED
        BY <1>2, <3>1 DEF CallsHere
    <2> QED
      BY <2>1, <2>2, <2>3, FewerHere
  <1> QED
    BY <1>1, <1>2 DEF Raise

LEMMA RetriedLeft ==
  ASSUME TypeOK, TypeOK', NEW j \in Jobs, pc[j] \in {"start", "fetch", "upsert", "finish"}, Retried(j)
  PROVE  Left(j)' < Left(j)
  BY AgainLeft, RaiseLeft DEF Retried

\* A window has no more bars than the lookback: all but its oldest come after that one.
LEMMA WindowSmall ==
  ASSUME TypeOK, NEW j \in Jobs
  PROVE  Window(j) \in SUBSET Ts /\ Cardinality(Window(j)) <= Lookback[j]
  <1>1. Window(j) \in SUBSET Ts /\ Ts \in SUBSET Nat
    BY DEF Window, Published, Ts
  <1>2. IsFiniteSet(Window(j)) /\ Cardinality(Window(j)) \in Nat /\ Lookback[j] \in Nat \ {0}
    BY <1>1, TsFinite, IngestAssumption
  <1>3. CASE Window(j) = {}
    BY <1>1, <1>2, <1>3, FS_EmptySet
  <1>4. CASE Window(j) # {}
    <2>1. PICK m \in Window(j) : \A t \in Window(j) : m <= t
      BY <1>1, <1>4, LeastExists
    <2> DEFINE after == {u \in Published(Ser(j)) : u > m}
    <2>2. Cardinality(after) < Lookback[j]
      BY <2>1 DEF Window
    <2>3. after \in SUBSET Ts
      BY DEF Published
    <2>4. Window(j) \ {m} \subseteq after
      <3> SUFFICES ASSUME NEW t \in Window(j), t # m PROVE t \in Published(Ser(j)) /\ t > m
        OBVIOUS
      <3>1. t \in Nat /\ m \in Nat /\ m <= t
        BY <1>1, <2>1
      <3> QED
        BY <3>1 DEF Window
    <2> HIDE DEF after
    <2>5. Cardinality(Window(j) \ {m}) = Cardinality(Window(j)) - 1
      BY <1>2, <2>1, FS_RemoveElement
    <2>6. Cardinality(Window(j) \ {m}) <= Cardinality(after) /\ Cardinality(after) \in Nat
      BY <2>3, <2>4, TsFinite, FS_Subset
    <2> QED
      BY <1>1, <1>2, <2>2, <2>5, <2>6
  <1> QED
    BY <1>3, <1>4

\* A batch has at least the first of the bars that are left.
LEMMA BatchMoves ==
  ASSUME TypeOK, NEW j \in Jobs, Remaining(j) # {}
  PROVE  Cardinality(Remaining(j)) < Cardinality(todo[j])
  <1>1. todo[j] \in SUBSET Ts /\ Ts \in SUBSET Nat /\ todo[j] # {}
    BY DEF TypeOK, ThreadOK, Ts, Remaining
  <1>2. PICK m \in todo[j] : \A t \in todo[j] : m <= t
    BY <1>1, LeastExists
  <1>3. {u \in todo[j] : u < m} = {}
    <2> SUFFICES ASSUME NEW u \in todo[j], u < m PROVE FALSE
      OBVIOUS
    <2>1. u \in Nat /\ m \in Nat /\ m <= u
      BY <1>1, <1>2
    <2> QED
      BY <2>1
  <1>4. m \in Batch(j)
    <2>1. Cardinality({u \in todo[j] : u < m}) = 0
      BY <1>3, FS_EmptySet
    <2> QED
      BY <2>1, IngestAssumption DEF Batch
  <1>5. Remaining(j) \in SUBSET (todo[j] \ {m})
    BY <1>4 DEF Remaining
  <1>6. IsFiniteSet(todo[j]) /\ Cardinality(todo[j]) \in Nat /\ Cardinality(Remaining(j)) \in Nat
    BY <1>1, <1>5, TsFinite
  <1>7. /\ IsFiniteSet(todo[j] \ {m})
        /\ Cardinality(todo[j] \ {m}) = Cardinality(todo[j]) - 1
    BY <1>2, <1>6, FS_RemoveElement
  <1>8. Cardinality(Remaining(j)) <= Cardinality(todo[j] \ {m})
    BY <1>5, <1>7, FS_Subset
  <1> QED
    BY <1>6, <1>7, <1>8

\* A thread that writes has something to write.
BarsToWrite == \A j \in Jobs : pc[j] = "upsert" => todo[j] # {}

LEMMA NextBarsToWrite ==
  ASSUME TypeOK, BarsToWrite, [Next]_vars
  PROVE  BarsToWrite'
  <1> USE DEF TypeOK, ThreadOK
  <1> SUFFICES ASSUME NEW k \in Jobs, pc'[k] = "upsert" PROVE todo'[k] # {}
    BY DEF BarsToWrite
  <1>0. pc[k] = "upsert" => todo[k] # {}
    BY DEF BarsToWrite
  <1>1. ASSUME NEW j \in Jobs, NextSymbol(j) \/ Keeps(j) PROVE todo'[k] # {}
    BY <1>0, <1>1 DEF NextSymbol, Keeps, local
  <1>2. ASSUME NEW j \in Jobs, Retried(j) PROVE todo'[k] # {}
    BY <1>1, <1>2, RetriedOutcome
  <1>3. ASSUME NEW j \in Jobs, Step(j) PROVE todo'[k] # {}
    <2>1. CASE StartRun(j)
      BY <1>0, <1>2, <2>1 DEF StartRun, Goto, local
    <2>2. CASE Fetch(j)
      BY <1>0, <2>2 DEF Fetch, Goto
    <2>3. CASE FetchNothing(j)
      BY <1>0, <2>3 DEF FetchNothing, Goto, local
    <2>4. CASE Upsert(j)
      BY <1>0, <1>2, <2>4 DEF Upsert, Goto
    <2>5. CASE FinishRun(j)
      BY <1>1, <1>2, <2>5 DEF FinishRun
    <2>6. CASE CallFails(j)
      BY <1>1, <2>6, AgainOutcome, RaiseOutcome DEF CallFails
    <2>7. CASE RecordFailure(j) \/ RecordFails(j)
      BY <1>1, <2>7, AgainOutcome DEF RecordFailure, RecordFails, GiveUp
    <2> QED
      BY <1>3, <2>1, <2>2, <2>3, <2>4, <2>5, <2>6, <2>7 DEF Step
  <1>4. CASE Crash
    BY <1>4 DEF Crash
  <1>5. CASE \/ \E j \in Jobs : Trigger(j)
             \/ \E s \in Series, t \in Ts : Publish(s, t)
             \/ UNCHANGED vars
    BY <1>0, <1>5 DEF Trigger, Publish, vars, control, local
  <1> HIDE DEF TypeOK, ThreadOK
  <1>6. \/ \E j \in Jobs : Step(j)
        \/ Crash
        \/ \E j \in Jobs : Trigger(j)
        \/ \E s \in Series, t \in Ts : Publish(s, t)
        \/ UNCHANGED vars
    BY DEF Next
  <1> QED
    BY <1>3, <1>4, <1>5, <1>6

LEMMA StepLeft ==
  ASSUME TypeOK, TypeOK', BarsToWrite, NEW j \in Jobs, Step(j)
  PROVE  Left(j)' < Left(j)
  <1>0. Cardinality(todo[j]) \in Nat /\ Lookback[j] \in Nat
    BY TsFinite, IngestAssumption DEF TypeOK, ThreadOK
  <1>1. ASSUME NEW label, Goto(j, label) PROVE pc'[j] = label /\ idx'[j] = idx[j]
    BY <1>1 DEF Goto, TypeOK, ThreadOK
  <1>2. CASE StartRun(j)
    <2>1. CASE Goto(j, "fetch")
      <3>1. CallsHere(j) = Lookback[j] + 4 /\ CallsHere(j)' = Lookback[j] + 3
        BY <1>1, <1>2, <2>1 DEF CallsHere, StartRun
      <3> QED
        BY <1>0, <1>1, <1>2, <2>1, <3>1, FewerHere DEF StartRun
    <2>2. CASE Retried(j)
      BY <1>2, <2>2, RetriedLeft DEF StartRun
    <2> QED
      BY <1>2, <2>1, <2>2 DEF StartRun
  <1>3. CASE Fetch(j)
    <2>1. pc[j] = "fetch" /\ pc'[j] = "upsert" /\ idx'[j] = idx[j] /\ todo'[j] = Window(j)
      BY <1>1, <1>3 DEF Fetch, TypeOK, ThreadOK
    <2>2. CallsHere(j) = Lookback[j] + 3 /\ CallsHere(j)' = Cardinality(Window(j)) + 2
      BY <2>1 DEF CallsHere
    <2>3. Cardinality(Window(j)) \in Nat /\ Cardinality(Window(j)) <= Lookback[j]
      BY WindowSmall, TsFinite
    <2> QED
      BY <1>0, <2>1, <2>2, <2>3, FewerHere
  <1>4. CASE FetchNothing(j)
    <2>1. pc[j] = "fetch" /\ pc'[j] = "finish" /\ idx'[j] = idx[j]
      BY <1>1, <1>4 DEF FetchNothing
    <2>2. CallsHere(j) = Lookback[j] + 3 /\ CallsHere(j)' = 2
      BY <2>1 DEF CallsHere
    <2>3. Lookback[j] # 0
      BY IngestAssumption
    <2> QED
      BY <1>0, <2>1, <2>2, <2>3, FewerHere
  <1>5. CASE Upsert(j)
    <2>0. pc[j] = "upsert" /\ CallsHere(j) = Cardinality(todo[j]) + 2
      BY <1>5 DEF Upsert, CallsHere
    <2>1. CASE Remaining(j) # {} /\ Goto(j, "upsert") /\ todo' = [todo EXCEPT ![j] = Remaining(j)]
      <3>1. pc'[j] = "upsert" /\ idx'[j] = idx[j] /\ todo'[j] = Remaining(j)
        BY <1>1, <2>1 DEF TypeOK, ThreadOK
      <3>2. CallsHere(j)' = Cardinality(Remaining(j)) + 2
        BY <3>1 DEF CallsHere
      <3>3. Cardinality(Remaining(j)) < Cardinality(todo[j]) /\ Cardinality(Remaining(j)) \in Nat
        BY <2>1, BatchMoves, BatchCount
      <3> QED
        BY <1>0, <2>0, <3>1, <3>2, <3>3, FewerHere
    <2>2. CASE Remaining(j) = {} /\ Goto(j, "finish") /\ todo' = [todo EXCEPT ![j] = Remaining(j)]
      <3>1. pc'[j] = "finish" /\ idx'[j] = idx[j]
        BY <1>1, <2>2
      <3>2. CallsHere(j)' = 2
        BY <3>1 DEF CallsHere
      <3>3. Cardinality(todo[j]) # 0
        BY <2>0, FS_EmptySet, TsFinite DEF BarsToWrite, TypeOK, ThreadOK
      <3> QED
        BY <1>0, <2>0, <3>1, <3>2, <3>3, FewerHere
    <2>3. CASE Retried(j)
      BY <2>0, <2>3, RetriedLeft
    <2> QED
      BY <1>5, <2>1, <2>2, <2>3 DEF Upsert
  <1>6. CASE FinishRun(j)
    BY <1>6, NextSymbolLeft, RetriedLeft DEF FinishRun
  <1>7. CASE CallFails(j)
    BY <1>7, AgainLeft, RaiseLeft DEF CallFails
  <1>8. CASE RecordFailure(j) \/ RecordFails(j)
    BY <1>8, NextSymbolLeft, AgainLeft DEF RecordFailure, RecordFails, GiveUp
  <1> QED
    BY <1>2, <1>3, <1>4, <1>5, <1>6, <1>7, <1>8 DEF Step

\* What one thread does leaves the others as near to their ends as they were.
LEMMA OthersLeft ==
  ASSUME TypeOK, NEW j \in Jobs, Step(j) \/ Trigger(j), NEW k \in Jobs, k # j
  PROVE  Left(k)' = Left(k)
  <1> USE DEF TypeOK, ThreadOK
  <1> DEFINE Same == pc'[k] = pc[k] /\ idx'[k] = idx[k] /\ attempt'[k] = attempt[k] /\ todo'[k] = todo[k]
  <1>1. ASSUME NextSymbol(j) \/ (Again(j) \/ \E l : Goto(j, l) /\ UNCHANGED local) PROVE Same
    BY <1>1 DEF NextSymbol, Again, Goto, local
  <1>2. ASSUME Raise(j) \/ Retried(j) PROVE Same
    BY <1>1, <1>2 DEF Raise, Retried
  <1>3. ASSUME \/ StartRun(j) \/ FetchNothing(j) \/ FinishRun(j) \/ CallFails(j)
               \/ RecordFailure(j) \/ RecordFails(j)
        PROVE  Same
    BY <1>1, <1>2, <1>3
       DEF StartRun, FetchNothing, FinishRun, CallFails, RecordFailure, RecordFails, GiveUp
  <1>4. ASSUME Fetch(j) PROVE Same
    BY <1>4 DEF Fetch, Goto
  <1>5. ASSUME Upsert(j) PROVE Same
    BY <1>2, <1>5 DEF Upsert, Goto
  <1>6. ASSUME Trigger(j) PROVE Same
    BY <1>6 DEF Trigger, local
  <1> HIDE DEF Same
  <1>7. Same
    BY <1>3, <1>4, <1>5, <1>6 DEF Step
  <1> QED
    BY <1>7 DEF Same, Left, CallsHere

\* Whatever the source, the database and the other jobs do, each step of a thread brings
\* its pass nearer to the end, and no other step takes it back.  Left is a natural number
\* (LeftType), so a pass has at most retry_max_attempts times (lookback + 4) steps for
\* each symbol.
THEOREM PassesShrink == Spec => PassShrinks
  <1> DEFINE Nearer == \A j \in Jobs : /\ Step(j) => Left(j)' < Left(j)
                                       /\ pc[j] # "idle" => Left(j)' <= Left(j)
             Counts == \A j \in Jobs : Left(j) \in Nat
             IInv   == TypeOK /\ BarsToWrite /\ Counts
  <1>1. TypeOK => Counts
    BY LeftType
  <1>2. Init => BarsToWrite
    BY DEF Init, BarsToWrite
  <1>3. TypeOK /\ BarsToWrite /\ [Next]_vars => BarsToWrite'
    BY NextBarsToWrite
  <1>4. ASSUME IInv, IInv', Next PROVE Nearer
    <2> SUFFICES ASSUME NEW j \in Jobs
                 PROVE  /\ Step(j) => Left(j)' < Left(j)
                        /\ pc[j] # "idle" => Left(j)' <= Left(j)
      OBVIOUS
    <2>1. Step(j) => Left(j)' < Left(j)
      BY <1>4, StepLeft
    <2>2. Left(j) \in Nat /\ Left(j)' \in Nat
      BY <1>4
    <2>3. ASSUME pc[j] # "idle" PROVE Left(j)' <= Left(j)
      <3>1. CASE \E s \in Series, t \in Ts : Publish(s, t)
        <4>1. Left(j)' = Left(j)
          BY <3>1 DEF Publish, control, local, Left, CallsHere
        <4> QED
          BY <2>2, <4>1
      <3>2. ASSUME NEW k \in Jobs, Trigger(k) \/ Step(k) PROVE Left(j)' <= Left(j)
        <4>1. CASE k = j
          <5>1. Left(j)' < Left(j)
            BY <2>1, <2>3, <3>2, <4>1 DEF Trigger
          <5> QED
            BY <2>2, <5>1
        <4>2. CASE k # j
          <5>1. Left(j)' = Left(j)
            BY <1>4, <3>2, <4>2, OthersLeft
          <5> QED
            BY <2>2, <5>1
        <4> QED
          BY <4>1, <4>2
      <3>3. CASE Crash
        <4>1. Left(j)' = 0
          BY <3>3 DEF Crash, Left
        <4> QED
          BY <2>2, <4>1
      <3> QED
        BY <1>4, <3>1, <3>2, <3>3 DEF Next
    <2> QED
      BY <2>1, <2>3
  <1> HIDE DEF Counts, Nearer
  <1>5. IInv /\ IInv' /\ [Next]_vars => [Nearer]_vars
    BY <1>4
  <1>6. Spec => [][Nearer]_vars
    BY <1>1, <1>2, <1>3, <1>5, TypeCorrect, PTL DEF Spec
  <1> QED
    BY <1>6, PTL DEF PassShrinks, Nearer
=============================================================================
