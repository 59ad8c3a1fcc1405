---------------------------- MODULE YahooSource ----------------------------
(***************************************************************************)
(* YahooSource.fetch: ask yfinance, sort what it does into an answer or an *)
(* error of the source, retry the errors worth it, and turn the answer     *)
(* into bars.                                                              *)
(*                                                                         *)
(* The state is one call of fetch.  Each attempt has one cause, which the  *)
(* environment chooses: Yahoo delivers data, or something goes wrong.  A   *)
(* row of the data is the set of fields that have a value (not NaN).       *)
(*                                                                         *)
(* Bug... definitions are mistakes, to be put in place of the next one.    *)
(***************************************************************************)
EXTENDS Naturals, Sequences

CONSTANTS
  MaxAttempts,   \* settings.retry_max_attempts
  Ts,            \* timestamps of rows
  Fields         \* FLOAT_FIELDS and volume

ASSUME YahooAssumption == MaxAttempts \in Nat \ {0}

VARIABLES
  phase,     \* where fetch is
  attempt,   \* which attempt of the retryer this is
  frame,     \* the DataFrame _download returned
  bars,      \* the bars fetch returned
  asked      \* history: the cause of each attempt's outcome

vars == <<phase, attempt, frame, bars, asked>>

\* What can come of Ticker.history: data, one of the YF...Errors, an error of
\* the network libraries, or an exception nobody expects.
Failures == {"rate_limit", "no_prices", "no_ticker", "bad_period", "network", "other"}
Causes   == Failures \cup {"data"}

\* A frame without rows, and the frames with the wrong kind of index too.
Rows    == UNION {[D -> SUBSET Fields] : D \in SUBSET Ts}
Frames  == [aware : BOOLEAN, rows : Rows]
NoFrame == [aware |-> TRUE, rows |-> [t \in {} |-> {}]]

\* configure_yfinance.  Hidden, these failures come as an empty frame.
BugHidden == {"no_prices", "no_ticker", "bad_period"}
Hidden    == {}

\* The except clauses of _download.  YFPricesMissingError is a subclass of
\* YFTickerMissingError: the mistake is to catch the superclass first.
Classes ==
  [rate_limit |-> "RateLimitedError",
   no_prices  |-> "none",
   no_ticker  |-> "PermanentSourceError",
   bad_period |-> "PermanentSourceError",
   network    |-> "TransientSourceError",
   other      |-> "Exception"]

BugClass(c) == IF c = "no_prices" THEN "PermanentSourceError" ELSE Classes[c]
Class(c)    == Classes[c]

\* The retryer.  The mistakes: it retries every error of the source, and it
\* stops an attempt late.
BugRetried(c) == Class(c) \in {"TransientSourceError", "RateLimitedError", "PermanentSourceError"}
Retried(c)    == Class(c) \in {"TransientSourceError", "RateLimitedError"}

BugLastAttempt == attempt > MaxAttempts
LastAttempt    == attempt = MaxAttempts

\* Rows that become bars.
Kept(rows) == {t \in DOMAIN rows : rows[t] # {}}

Init ==
  /\ phase = "download"
  /\ attempt = 1
  /\ frame = NoFrame
  /\ bars = [t \in {} |-> {}]
  /\ asked = <<>>
-----------------------------------------------------------------------------
Ask(c) ==
  /\ phase = "download"
  /\ asked' = Append(asked, c)
  /\ UNCHANGED bars

\* _download returns a frame ...
Answer(c) ==
  /\ Ask(c)
  /\ \/ c = "data" /\ frame' \in Frames
     \/ c # "data" /\ (c \in Hidden \/ Class(c) = "none") /\ frame' = NoFrame
  /\ phase' = "normalise"
  /\ UNCHANGED attempt

\* ... or raises, and the retryer calls it again ...
Retry(c) ==
  /\ c \in Failures \ Hidden
  /\ Ask(c)
  /\ Retried(c) /\ ~LastAttempt
  /\ attempt' = attempt + 1
  /\ UNCHANGED <<phase, frame>>

\* ... or lets the error through.
Raise(c) ==
  /\ c \in Failures \ Hidden
  /\ Ask(c)
  /\ Class(c) # "none"
  /\ Retried(c) => LastAttempt
  /\ phase' = "raised"
  /\ UNCHANGED <<attempt, frame>>

\* _normalise refuses an index without a timezone, unless there is nothing in it.
Normalise ==
  /\ phase = "normalise"
  /\ \/ /\ frame.aware \/ DOMAIN frame.rows = {}
        /\ bars' = [t \in Kept(frame.rows) |-> frame.rows[t]]
        /\ phase' = "returned"
     \/ /\ ~frame.aware /\ DOMAIN frame.rows # {}
        /\ phase' = "raised"
        /\ UNCHANGED bars
  /\ UNCHANGED <<attempt, frame, asked>>

Next == Normalise \/ \E c \in Causes : Answer(c) \/ Retry(c) \/ Raise(c)

Spec == Init /\ [][Next]_vars
-----------------------------------------------------------------------------
\* Type correctness; no more calls than retry_max_attempts.
TypeOK ==
  /\ phase \in {"download", "normalise", "returned", "raised"}
  /\ attempt \in 1..MaxAttempts
  /\ frame \in Frames
  /\ bars \in Rows
  /\ asked \in Seq(Causes) /\ Len(asked) <= MaxAttempts

LastCause == asked[Len(asked)]

\* No bars means that there are no data: a failure of any kind is never returned
\* as an empty list, which a job would record as empty instead of failed.
EmptyMeansNoData ==
  phase = "returned" /\ DOMAIN bars = {} =>
    \/ LastCause = "no_prices"
    \/ LastCause = "data" /\ \A t \in DOMAIN frame.rows : frame.rows[t] = {}

\* An error means a failure: a closed market (YFPricesMissingError), a gap or a
\* row with values missing never is one, and an earlier failed attempt does not
\* fail a call that was answered in the end.
RaisedMeansFailure ==
  phase = "raised" =>
    \/ LastCause \in {"rate_limit", "no_ticker", "bad_period", "network", "other"}
    \/ LastCause = "data" /\ ~frame.aware

\* Exactly what is transient is retried, to the last attempt: a call made again
\* follows a network failure or a rate limit, and one of these reaches the job
\* only when the attempts are used up.
RetriesWhatIsTransient ==
  /\ \A i \in 1..(Len(asked) - 1) : asked[i] \in {"network", "rate_limit"}
  /\ phase = "raised" /\ LastCause \in {"network", "rate_limit"} =>
       Len(asked) = MaxAttempts
=============================================================================
