------------------------------- MODULE Charts -------------------------------
(***************************************************************************)
(* The computations of charts.py: which dates a page opens on, and the     *)
(* axis of a chart.  A day is a number, and NULL is None or NaN.  Prices   *)
(* are integers; a bound of an axis is given times Pad, so that the        *)
(* padding of one Pad-th of the range (PRICE_PADDING) stays an integer.    *)
(***************************************************************************)
EXTENDS Integers, FiniteSets, FiniteSetsExt

CONSTANTS
  Window,  \* DEFAULT_WINDOW_DAYS
  Pad,     \* 1 / PRICE_PADDING
  NULL

ASSUME ChartsAssumption == Window \in Nat /\ Pad \in Nat \ {0} /\ NULL \notin Int

Or(value, default) == IF value = NULL THEN default ELSE value
Abs(x)             == IF x < 0 THEN -x ELSE x

\* default_date_range, of the days of the first and the last bar.
DefaultRange(first, last, today) ==
  LET lastDay  == Or(last, today)
      firstDay == Or(first, lastDay)
  IN  <<Max({firstDay, lastDay - Window}), lastDay>>

\* The values of a column, a function from timestamps; dropna.
Values(column) == {column[t] : t \in DOMAIN column} \ {NULL}

\* The padding of a flat series, and of one that moves, both times Pad.  The
\* mistakes: a flat series at zero, or a negative one, gets no room.
BugPadding(low, high) == IF low = high THEN low ELSE high - low
Padding(low, high)    == IF low # high THEN high - low
                         ELSE IF low = 0 THEN Pad ELSE Abs(low)

\* price_domain of the values of all columns together.
PriceDomain(values) ==
  IF values = {} THEN <<0, Pad>>
  ELSE LET low == Min(values)  high == Max(values)
       IN  <<low * Pad - Padding(low, high), high * Pad + Padding(low, high)>>

\* percent_domain: zero is always one of the values.
PercentDomain(values) ==
  IF values = {} THEN <<-Pad, Pad>>
  ELSE LET low  == Min(values \cup {0})
           high == Max(values \cup {0})
           room == IF high = low THEN Pad ELSE high - low
       IN  <<low * Pad - room, high * Pad + room>>

\* needs_adjusted_line
NeedsAdjusted(close, adjusted) ==
  \E t \in DOMAIN close : close[t] # NULL /\ adjusted[t] # NULL /\ close[t] # adjusted[t]

\* What price_chart draws of a frame with the columns close and adj_close.
PriceChart(f) ==
  LET points == Values(f.close) \cup IF NeedsAdjusted(f.close, f.adjusted)
                                      THEN Values(f.adjusted) ELSE {}
  IN  [points |-> points, axis |-> PriceDomain(points)]

\* What percent_change_chart draws: the lines and the rule at zero.
PercentChart(column) ==
  [points |-> Values(column) \cup {0}, axis |-> PercentDomain(Values(column))]
=============================================================================
