------------------------- MODULE YahooSourceProofs -------------------------
(* What TLAPS proves of YahooSource.fetch, for every number of attempts and *)
(* every frame.                                                            *)
EXTENDS YahooSource, SequenceTheorems, TLAPS

Transient == {"network", "rate_limit"}

\* What the frame at hand can be, given the cause of the latest attempt.
Answered ==
  \/ LastCause = "no_prices" /\ frame = NoFrame
  \/ LastCause = "data"

\* How many attempts were made, and why the next one is.
Attempts ==
  /\ phase = "download" => Len(asked) = attempt - 1
  /\ phase # "download" => Len(asked) = attempt
  /\ \A i \in 1..(Len(asked) - 1) : asked[i] \in Transient
  /\ phase = "download" => \A i \in 1..Len(asked) : asked[i] \in Transient

\* How each phase after the attempts was reached.
Outcome ==
  /\ phase = "normalise" => Answered
  /\ phase = "returned" => Answered /\ bars = [t \in Kept(frame.rows) |-> frame.rows[t]]
  /\ phase = "raised" =>
       \/ LastCause \in Failures \ {"no_prices"}
       \/ LastCause = "data" /\ ~frame.aware
  /\ phase = "raised" /\ LastCause \in Transient => attempt = MaxAttempts

IInv == TypeOK /\ Attempts /\ Outcome

\* The rows of a frame, one at a time.
LEMMA RowsType ==
  /\ \A rows \in Rows : /\ DOMAIN rows \subseteq Ts
                        /\ \A t \in DOMAIN rows : rows[t] \subseteq Fields
  /\ \A rows \in Rows : [t \in Kept(rows) |-> rows[t]] \in Rows
  /\ [t \in {} |-> {}] \in Rows
  /\ NoFrame \in Frames
  <1>1. ASSUME NEW rows \in Rows
        PROVE  /\ DOMAIN rows \subseteq Ts
               /\ \A t \in DOMAIN rows : rows[t] \subseteq Fields
               /\ [t \in Kept(rows) |-> rows[t]] \in Rows
    <2>1. PICK D \in SUBSET Ts : rows \in [D -> SUBSET Fields]
      BY DEF Rows
    <2>2. Kept(rows) \in SUBSET Ts /\ Kept(rows) \subseteq D
      BY <2>1 DEF Kept
    <2>3. [t \in Kept(rows) |-> rows[t]] \in [Kept(rows) -> SUBSET Fields]
      BY <2>1, <2>2
    <2> QED
      BY <2>1, <2>2, <2>3 DEF Rows
  <1>2. [t \in {} |-> {}] \in Rows
    <2>1. [t \in {} |-> {}] \in [{} -> SUBSET Fields]
      OBVIOUS
    <2> QED
      BY <2>1 DEF Rows
  <1>3. NoFrame \in Frames
    BY <1>2 DEF NoFrame, Frames
  <1> QED
    BY <1>1, <1>2, <1>3

LEMMA FrameType == ASSUME TypeOK PROVE frame.rows \in Rows /\ frame.aware \in BOOLEAN
  BY DEF TypeOK, Frames

LEMMA InitInv == Init => IInv
  <1> SUFFICES ASSUME Init PROVE IInv
    OBVIOUS
  <1>1. TypeOK
    BY YahooAssumption, RowsType DEF Init, TypeOK
  <1>2. Attempts /\ Outcome
    BY YahooAssumption DEF Init, Attempts, Outcome
  <1> QED
    BY <1>1, <1>2 DEF IInv

\* An attempt adds its cause at the end, and moves no other.
LEMMA AskAppends ==
  ASSUME TypeOK, Attempts, NEW c \in Causes, Ask(c)
  PROVE  /\ asked' \in Seq(Causes)
         /\ Len(asked') = Len(asked) + 1 /\ Len(asked') = attempt
         /\ asked'[Len(asked')] = c
         /\ \A i \in 1..Len(asked) : asked'[i] = asked[i] /\ asked[i] \in Transient
  BY DEF TypeOK, Attempts, Ask

LEMMA AnswerInv == ASSUME IInv, NEW c \in Causes, Answer(c) PROVE IInv'
  <1> USE AskAppends DEF Answer, IInv
  <1>1. Ask(c) /\ phase = "download" /\ bars' = bars /\ phase' = "normalise" /\ attempt' = attempt
    BY DEF Ask
  <1>2. \/ c = "data" /\ frame' \in Frames
        \/ c = "no_prices" /\ frame' = NoFrame
    BY DEF Class, Classes, Hidden, Causes, Failures
  <1>3. TypeOK'
    BY <1>1, <1>2, RowsType DEF TypeOK
  <1>4. Attempts'
    BY <1>1, <1>3 DEF Attempts, TypeOK
  <1>5. Outcome'
    BY <1>1, <1>2 DEF Outcome, Answered, LastCause
  <1> QED
    BY <1>3, <1>4, <1>5

LEMMA RetryInv == ASSUME IInv, NEW c \in Causes, Retry(c) PROVE IInv'
  <1> USE AskAppends DEF Retry, IInv
  <1>1. Ask(c) /\ phase = "download" /\ bars' = bars /\ phase' = phase
        /\ attempt' = attempt + 1 /\ frame' = frame
    BY DEF Ask
  <1>2. c \in Transient
    BY DEF Retried, Class, Classes, Failures, Transient
  <1>3. attempt + 1 \in 1..MaxAttempts
    BY YahooAssumption DEF TypeOK, LastAttempt
  <1>4. TypeOK'
    BY <1>1, <1>3 DEF TypeOK
  <1>5. Attempts'
    <2>1. \A i \in 1..Len(asked') : asked'[i] \in Transient
      BY <1>1, <1>2 DEF TypeOK
    <2> QED
      BY <1>1, <2>1, <1>3 DEF Attempts, TypeOK
  <1>6. Outcome'
    BY <1>1 DEF Outcome
  <1> QED
    BY <1>4, <1>5, <1>6

LEMMA RaiseInv == ASSUME IInv, NEW c \in Causes, Raise(c) PROVE IInv'
  <1> USE AskAppends DEF Raise, IInv
  <1>1. Ask(c) /\ phase = "download" /\ bars' = bars /\ phase' = "raised"
        /\ attempt' = attempt /\ frame' = frame
    BY DEF Ask
  <1>2. c \in Failures \ {"no_prices"}
    BY DEF Class, Classes, Failures
  <1>3. c \in Transient => attempt = MaxAttempts
    BY DEF Retried, Class, Classes, Transient, LastAttempt
  <1>4. TypeOK'
    BY <1>1 DEF TypeOK
  <1>5. Attempts'
    BY <1>1, <1>4 DEF Attempts, TypeOK
  <1>6. Outcome'
    BY <1>1, <1>2, <1>3 DEF Outcome, LastCause
  <1> QED
    BY <1>4, <1>5, <1>6

LEMMA NormaliseInv == ASSUME IInv, Normalise PROVE IInv'
  <1> USE DEF Normalise, IInv
  <1>1. TypeOK'
    BY RowsType, FrameType DEF TypeOK
  <1>2. Attempts'
    BY DEF Attempts
  <1>3. phase = "normalise" /\ LastCause' = LastCause /\ Answered
    BY DEF Outcome, LastCause
  <1>4. Outcome'
    <2>1. CASE phase' = "returned"
      BY <1>3, <2>1 DEF Outcome, Answered, Kept
    <2>2. CASE phase' = "raised"
      <3>1. ~frame.aware /\ DOMAIN frame.rows # {}
        BY <2>2
      <3>2. LastCause = "data"
        BY <1>3, <3>1 DEF Answered, NoFrame
      <3> QED
        BY <1>3, <2>2, <3>1, <3>2 DEF Outcome, Transient
    <2> QED
      BY <2>1, <2>2
  <1> QED
    BY <1>1, <1>2, <1>4

LEMMA StutterInv == ASSUME IInv, UNCHANGED vars PROVE IInv'
  BY DEF IInv, TypeOK, Attempts, Outcome, Answered, LastCause, Kept, vars

\* The inductive invariant of one call of fetch.
THEOREM Invariant == Spec => []IInv
  <1>1. IInv /\ [Next]_vars => IInv'
    BY AnswerInv, RetryInv, RaiseInv, NormaliseInv, StutterInv DEF Next
  <1> QED
    BY InitInv, <1>1, PTL DEF Spec

\* Type correctness: fetch never asks more often than retry_max_attempts.
THEOREM TypeCorrect == Spec => []TypeOK
  <1>1. IInv => TypeOK
    BY DEF IInv
  <1> QED
    BY Invariant, <1>1, PTL

\* An empty list from fetch means that there are no data, never a failure.
THEOREM EmptyAnswers == Spec => []EmptyMeansNoData
  <1>1. IInv => EmptyMeansNoData
    <2> SUFFICES ASSUME IInv, phase = "returned", DOMAIN bars = {},
                        LastCause # "no_prices", NEW t \in DOMAIN frame.rows
                 PROVE  LastCause = "data" /\ frame.rows[t] = {}
      BY DEF IInv, Outcome, Answered, EmptyMeansNoData
    <2>1. Answered /\ DOMAIN bars = Kept(frame.rows)
      BY DEF IInv, Outcome
    <2> QED
      BY <2>1 DEF Answered, Kept
  <1> QED
    BY Invariant, <1>1, PTL

\* An error from fetch means a failure, never a closed market or a gap.
THEOREM Errors == Spec => []RaisedMeansFailure
  <1>1. IInv => RaisedMeansFailure
    BY DEF IInv, Outcome, RaisedMeansFailure, Failures
  <1> QED
    BY Invariant, <1>1, PTL

\* What is transient is tried again, to the last attempt, and nothing else is.
THEOREM Retries == Spec => []RetriesWhatIsTransient
  <1>1. IInv => RetriesWhatIsTransient
    BY DEF IInv, Attempts, Outcome, Transient, RetriesWhatIsTransient
  <1> QED
    BY Invariant, <1>1, PTL
=============================================================================
