----------------------------- MODULE Comparison -----------------------------
(***************************************************************************)
(* The Compare tab of the dashboard: comparison.compare rebases every      *)
(* selected series to a common baseline and names the leader, and          *)
(* ratio_series prices one instrument in another.                          *)
(*                                                                         *)
(* A symbol is its position in the selection.  A series maps the           *)
(* timestamps it has a bar at to a close, an integer or NULL for NaN.      *)
(* Percentages are exact: (close - baseline) / baseline, as a pair of an   *)
(* integer and a positive one.                                             *)
(*                                                                         *)
(* Bug... definitions are mistakes, to be put in place of the next one.    *)
(***************************************************************************)
EXTENDS Integers, FiniteSets

CONSTANTS
  SymbolCount,   \* how many symbols are selected
  Times,         \* timestamps, a set of integers
  Closes,        \* closes, a set of integers
  MinCompare,    \* MIN_COMPARE_SYMBOLS
  NULL

\* A frame has finitely many rows.  render_ratio unpacks MIN_COMPARE_SYMBOLS symbols
\* into a pair.
ASSUME ComparisonAssumption ==
  /\ SymbolCount \in Nat
  /\ IsFiniteSet(Times) /\ Times \subseteq Int
  /\ Closes \subseteq Int
  /\ MinCompare = 2
  /\ NULL \notin Int

Symbols == 1..SymbolCount
Series  == UNION {[D -> Closes \cup {NULL}] : D \in SUBSET Times}

Earliest(ts) == CHOOSE t \in ts : \A u \in ts : t <= u
Latest(ts)   == CHOOSE t \in ts : \A u \in ts : u <= t

\* _bars(frame).dropna: the timestamps that have a price.
Priced(s) == {t \in DOMAIN s : s[t] # NULL}

\* first_valid_ts.  The mistake is to take the first bar, priced or not.
BugFirst(s) == IF DOMAIN s = {} THEN NULL ELSE Earliest(DOMAIN s)
First(s)    == IF Priced(s) = {} THEN NULL ELSE Earliest(Priced(s))

\* common_start
Start(frames) ==
  LET starts == {First(frames[i]) : i \in DOMAIN frames} \ {NULL}
  IN  IF starts = {} THEN NULL ELSE Latest(starts)

\* baseline_close.  The mistakes: each series has a baseline of its own, and a
\* baseline of zero is divided by.
After(s, start)    == {t \in Priced(s) : start # NULL => t >= start}
BugBase(s, start)  == Priced(s)
Base(s, start)     == After(s, start)
BugBaseline(s, start) ==
  IF Base(s, start) = {} THEN NULL ELSE s[Earliest(Base(s, start))]
Baseline(s, start) ==
  IF Base(s, start) = {} \/ s[Earliest(Base(s, start))] = 0
  THEN NULL ELSE s[Earliest(Base(s, start))]

\* The percentage of a close against a baseline that is not zero.
Percent(close, baseline) ==
  IF baseline > 0 THEN <<close - baseline, baseline>> ELSE <<baseline - close, -baseline>>
AtMost(p, q) == p[1] * q[2] <= q[1] * p[2]

\* compare.  A series without a baseline is dropped, and the frame has a line of
\* every priced bar of each other one.
Compare(frames) ==
  LET start   == Start(frames)
      base(i) == Baseline(frames[i], start)
      kept    == {i \in DOMAIN frames : base(i) # NULL}
  IN  [start    |-> start,
       baseline |-> [i \in kept |-> base(i)],
       lines    |-> [i \in kept |-> [t \in Priced(frames[i]) |-> Percent(frames[i][t], base(i))]],
       dropped  |-> DOMAIN frames \ kept]

\* SeriesSummary.percent_change.  The mistake is the highest bar for the last one.
BugChange(line) == line[CHOOSE t \in DOMAIN line : \A u \in DOMAIN line : AtMost(line[u], line[t])]
Change(line)    == line[Latest(DOMAIN line)]

\* Comparison.leader: max() takes the first of several.
Leader(c) ==
  LET kept == DOMAIN c.lines
  IN  IF kept = {} THEN NULL
      ELSE CHOOSE i \in kept : \A k \in kept :
             /\ AtMost(Change(c.lines[k]), Change(c.lines[i]))
             /\ AtMost(Change(c.lines[i]), Change(c.lines[k])) => i <= k

\* ratio_series: an inner join on the timestamp, as pairs, without zero divisors.
Ratio(num, den) == [t \in {u \in Priced(num) \cap Priced(den) : den[u] # 0}
                      |-> <<num[t], den[t]>>]

VARIABLES
  loaded,   \* what load_prices returned for each selected symbol
  page      \* what is drawn: a comparison, its leader and perhaps a ratio

vars == <<loaded, page>>

Blank == [shown |-> "nothing"]

Init ==
  /\ loaded \in [Symbols -> Series]
  /\ page = Blank

\* render_compare, from the loaded frames on: the empty ones are left out, and
\* with two lines the ratio of the first to the second is drawn as well.
Frames == [i \in {k \in Symbols : DOMAIN loaded[k] # {}} |-> loaded[i]]

TooFew ==
  /\ page = Blank
  /\ Cardinality(DOMAIN Frames) < MinCompare
  /\ page' = [shown |-> "too few"]
  /\ UNCHANGED loaded

Nothing ==
  /\ page = Blank
  /\ Cardinality(DOMAIN Frames) >= MinCompare
  /\ Leader(Compare(Frames)) = NULL
  /\ page' = [shown |-> "nothing comparable"]
  /\ UNCHANGED loaded

Draw ==
  /\ page = Blank
  /\ Cardinality(DOMAIN Frames) >= MinCompare
  /\ LET c    == Compare(Frames)
         kept == DOMAIN c.lines
     IN  /\ Leader(c) # NULL
         /\ page' = [shown  |-> "comparison",
                     result |-> c,
                     leader |-> Leader(c),
                     ratio  |-> IF Cardinality(kept) = MinCompare
                                THEN Ratio(Frames[Earliest(kept)], Frames[Latest(kept)])
                                ELSE [t \in {} |-> {}]]
  /\ UNCHANGED loaded

Next == TooFew \/ Nothing \/ Draw

Spec == Init /\ [][Next]_vars
-----------------------------------------------------------------------------
Shown == page.shown = "comparison"
Kept  == DOMAIN page.result.lines

\* Type correctness: a comparison that is drawn has at least one line, every line
\* has a bar, and its ratio never divides by zero.
TypeOK ==
  /\ loaded \in [Symbols -> Series]
  /\ page.shown \in {"nothing", "too few", "nothing comparable", "comparison"}
  /\ Shown =>
       /\ page.leader \in Kept
       /\ \A i \in Kept : DOMAIN page.result.lines[i] # {} /\ page.result.baseline[i] # 0
       /\ \A t \in DOMAIN page.ratio : page.ratio[t][2] # 0

\* A longer history is no head start: every line reads 0% at its first bar from
\* the common start on, whatever it has before, and its headline change is that
\* of a bar at or after the same start.
NoHeadStart ==
  Shown => \A i \in Kept :
    LET line == page.result.lines[i]
        from == {t \in DOMAIN line : t >= page.result.start}
    IN  /\ from # {} /\ line[Earliest(from)][1] = 0
        /\ \E t \in from : Change(line) = line[t] /\ \A u \in DOMAIN line : u <= t

\* Every symbol that was asked for is accounted for, and one without a usable
\* price changes nothing for the others: not the start, a line or the leader.
UselessSeriesIgnored ==
  Shown =>
    LET usable == {i \in DOMAIN Frames : Priced(Frames[i]) # {}}
        rest   == Compare([i \in usable |-> Frames[i]])
    IN  /\ Kept \cup page.result.dropped = DOMAIN Frames /\ Kept \cap page.result.dropped = {}
        /\ rest.start = page.result.start /\ rest.lines = page.result.lines
        /\ Leader(rest) = page.leader

\* The two panels agree: when two instruments have positive prices at the same
\* instants, the ratio has risen over the range exactly when the first of them
\* leads, and it is where it was exactly when they changed alike.
RatioAgrees ==
  Shown /\ Cardinality(Kept) = MinCompare =>
    LET a    == Earliest(Kept)
        b    == Latest(Kept)
        both == DOMAIN page.result.lines[a]
        top  == page.ratio[Latest(both)]
        low  == page.ratio[page.result.start]
    IN  /\ both = DOMAIN page.result.lines[b] /\ page.result.start \in both
        /\ \A t \in both : Frames[a][t] > 0 /\ Frames[b][t] > 0
        => /\ DOMAIN page.ratio = both
           /\ AtMost(low, top) <=> AtMost(Change(page.result.lines[b]), Change(page.result.lines[a]))
           /\ ~AtMost(top, low) => page.leader = a
           /\ ~AtMost(low, top) => page.leader = b
-----------------------------------------------------------------------------
(* A statement of a docstring that the code does not keep. *)

\* leader: the instrument that gained most.  One that gained is worth more at the
\* end than its baseline.
LeaderGained ==
  Shown =>
    LET line == page.result.lines[page.leader]
    IN  Change(line)[1] > 0 =>
          Frames[page.leader][Latest(DOMAIN line)] > page.result.baseline[page.leader]
=============================================================================
