--------------------------- MODULE IngestHealing ---------------------------
(***************************************************************************)
(* Does a restart heal the gap it leaves?  Nothing of the schedule is      *)
(* persisted: a job asks for its lookback window whenever it runs, and     *)
(* what was published while nothing ran is only asked for again if it is   *)
(* still in a window.  A history variable is added to Ingest:              *)
(*                                                                         *)
(*   healed   the bars that, going by the lookback windows, must be stored *)
(*            after the successes so far                                   *)
(***************************************************************************)
EXTENDS IngestProperties

VARIABLE healed

allVars == <<vars, healed>>

HInit == Init /\ healed = [s \in Series |-> {}]

\* The bars up to the latest one that was delivered, and those of them that
\* nothing before this pass accounts for.
UpTo(j)   == {t \in Ts : \E u \in Delivered(j) : t <= u}
Missed(j) == UpTo(j) \ healed[Ser(j)]

\* FinishRun commits a success: a gap no longer than the lookback is closed.
Heal(j) ==
  healed' = IF Cardinality(Missed(j)) <= Lookback[j]
            THEN [healed EXCEPT ![Ser(j)] = @ \cup UpTo(j)] ELSE healed

HPublish(s, t) == Publish(s, t) /\ UNCHANGED healed
HTrigger(j)    == Trigger(j) /\ UNCHANGED healed
HCrash         == Crash /\ UNCHANGED healed
HFinish(j)     == FinishRun(j) /\ Heal(j)
HStep(j)       == /\ StartRun(j) \/ Fetch(j) \/ FetchNothing(j) \/ Upsert(j)
                     \/ CallFails(j) \/ RecordFailure(j) \/ RecordFails(j)
                  /\ UNCHANGED healed

HNext ==
  \/ \E s \in Series, t \in Ts : HPublish(s, t)
  \/ \E j \in Jobs : HTrigger(j) \/ HStep(j) \/ HFinish(j)
  \/ HCrash

HSpec == HInit /\ [][HNext]_allVars
-----------------------------------------------------------------------------
\* A gap is healed by one success of a job whose lookback is as long as the gap,
\* whatever was lost, retried or interrupted in the passes before, and whichever of
\* the jobs on the series made it: no bar up to the newest is left out of the table.
GapsHeal ==
  \A s \in Series :
    /\ healed[s] \subseteq Stored(s)
    /\ \A t \in healed[s], u \in Ts : u < t => u \in healed[s]
-----------------------------------------------------------------------------
(* The inductive invariants behind it. *)

\* The source has no gaps of its own.
PublishedInOrder ==
  \A s \in Series : \A t \in Published(s), u \in Ts : u < t => u \in Published(s)

\* A bar older than one that was delivered was delivered too, or as many newer ones
\* were as the lookback asks for.
WindowFull ==
  \A j \in Jobs : \A t \in Ts : \A u \in Delivered(j) :
    t < u /\ t \notin Delivered(j) => Cardinality({v \in UpTo(j) : v > t}) >= Lookback[j]
=============================================================================
