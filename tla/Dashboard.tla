----------------------------- MODULE Dashboard -----------------------------
(***************************************************************************)
(* The Streamlit page (app.py) with its queries, between two transactions  *)
(* of the ingestor.  The database does what RawLayer promises and nothing  *)
(* else is known of it.                                                    *)
(*                                                                         *)
(* Every query result is cached under the arguments of its loader for TTL  *)
(* units of time, for all sessions together, and each loader on its own:   *)
(* one page can be made of results of different ages.  An entry of a cache *)
(* is the age of the snapshot it was read from; log holds the snapshots    *)
(* of the last units, the current one first.  At most one transaction      *)
(* commits per unit.                                                       *)
(*                                                                         *)
(* A bar is its timestamp here.  What is computed from the values of bars  *)
(* is in Comparison and Charts.                                            *)
(***************************************************************************)
EXTENDS Charts, Instruments

CONSTANTS
  Symbols, Intervals,  \* of the series of market_prices
  RunIds, RunSeries,   \* the rows of ingestion_runs, numbered as they are opened
  Old,                 \* series that were complete before the dashboard started
  Ts, Day,             \* [Ts -> Nat]: bars and the day of each
  Today,               \* the day on the dashboard's clock
  BatchSize, MaxRev,   \* see RawLayer
  TTL,                 \* dashboard_cache_ttl_seconds
  MaxRows,             \* dashboard_max_rows
  RunLimit,            \* DEFAULT_RUN_LIMIT
  Hours,               \* the window of run_status_counts, in units of time
  MinCompare,          \* MIN_COMPARE_SYMBOLS
  Picks,               \* BOUND: ranges of days a user picks
  Columns,             \* BOUND: columns of a frame whose charts are checked
  MaxEntries           \* BOUND: price results that are cached at the same time

\* A table has finitely many rows, and so does a frame.
ASSUME DashboardAssumption ==
  /\ IsFiniteSet(Symbols) /\ IsFiniteSet(RunIds) /\ IsFiniteSet(Ts)
  /\ RunIds \subseteq Nat /\ Ts \subseteq Nat
  /\ RunSeries \in [RunIds -> Symbols \X Intervals]
  /\ Old \subseteq Symbols \X Intervals
  /\ Day \in [Ts -> Nat] /\ Today \in Nat
  /\ \A t, u \in Ts : t < u => Day[t] <= Day[u]
  /\ \A t \in Ts : Day[t] <= Today
  /\ {MaxRev, TTL, MaxRows, RunLimit, Hours, MinCompare, MaxEntries} \subseteq Nat \ {0}
  /\ \A s \in Symbols : NameOf[s] \in Nat
  /\ Picks \subseteq Int \X Int
  /\ \A c \in Columns : IsFiniteSet(DOMAIN c) /\ \A t \in DOMAIN c : c[t] \in Int \cup {NULL}

Series == Symbols \X Intervals

VARIABLES
  prices, runs,   \* the tables
  log,            \* the tables as they were 0, 1, .. TTL + 1 units ago, and how long
                  \* before that each run had been opened
  covered,        \* the age of load_coverage's entry; NULL if there is none
  loaded,         \* the age of each entry of load_prices, by its arguments
  listed,         \* the age of load_runs's entry
  counted,        \* the age of load_run_status_counts's entry
  page,           \* what the latest script run shows, until time passes
  subject         \* the table this behaviour is about, see Init

caches == <<covered, loaded, listed, counted>>
vars   == <<prices, runs, log, caches, page, subject>>

Raw == INSTANCE RawLayer WITH Runs <- RunIds

Nothing == [tab |-> "none"]

Stored(db, s) == {t \in Ts : db.prices[s][t] > 0}

\* queries.coverage, as the series that have a row in it, and the span of one.
Covered(db) == {s \in Series : Stored(db, s) # {}}
Span(db, s) == IF s \in Covered(db)
               THEN <<Day[Min(Stored(db, s))], Day[Max(Stored(db, s))]>> ELSE <<NULL, NULL>>

\* union_span
UnionSpan(db, some) ==
  LET rows == some \cap Covered(db)
  IN  IF rows = {} THEN <<NULL, NULL>>
      ELSE <<Min({Span(db, s)[1] : s \in rows}), Max({Span(db, s)[2] : s \in rows})>>

Opening(span) == DefaultRange(span[1], span[2], Today)

\* queries.price_history: from start to before end, oldest first, at most MaxRows.
InRange(db, s, start, end) == {t \in Stored(db, s) : start <= Day[t] /\ Day[t] < end}
History(db, s, start, end) ==
  {t \in InRange(db, s, start, end) :
     Cardinality({u \in InRange(db, s, start, end) : u < t}) < MaxRows}

\* The date picker's end is a day the user wants to see, the query's end is not.
\* The mistake is to pass the one for the other.
BugEnd(picked) == picked
End(picked)    == picked + 1

\* The warning that a result is cut off.  The mistake: more rows than the limit.
BugAtLimit(rows) == Cardinality(rows) > MaxRows
AtLimit(rows)    == Cardinality(rows) >= MaxRows

\* queries.recent_runs
Opened(db)     == {r \in RunIds : db.runs[r].status # "absent"}
RecentRuns(db) == {r \in Opened(db) : Cardinality({q \in Opened(db) : q > r}) < RunLimit}

\* queries.run_status_counts: of the runs opened in the last Hours.  The mistake: of
\* those on the list.
InWindow(db) == {r \in Opened(db) : db.ago[r] <= Hours}
BugCount(db, status) ==
  Cardinality({r \in InWindow(db) \cap RecentRuns(db) : db.runs[r].status = status})
Count(db, status) == Cardinality({r \in InWindow(db) : db.runs[r].status = status})

\* One unit later, as long as a cached count can still tell.
Oldest   == Hours + TTL + 1
Older(a) == IF a = Oldest THEN a ELSE a + 1

\* The health page reads ingestion_runs only and the others market_prices only, so a
\* behaviour follows one of them; a transaction on the other one is a quiet unit.  A
\* chart is drawn of any frame.
\* Bars are written once rows of their series have been opened; the dashboard can
\* start at any time, when some series have been collected long ago.
Init ==
  /\ \/ subject \in {"ingestion_runs", "frame"} /\ Raw!RawInit
     \/ /\ subject = "market_prices"
        /\ prices = [s \in Series |-> [t \in Ts |-> IF s \in Old THEN 1 ELSE 0]]
        /\ runs = [r \in RunIds |-> [Raw!Absent EXCEPT !.status = "running"]]
  /\ log = [i \in 1..(TTL + 2) |->
              [prices |-> prices, runs |-> runs, ago |-> [r \in RunIds |-> Oldest]]]
  /\ covered = NULL /\ loaded = <<>> /\ listed = NULL /\ counted = NULL
  /\ page = Nothing
-----------------------------------------------------------------------------
\* An entry lives for TTL units.  The mistake is to let it live one longer.
BugAged(age) == IF age = NULL \/ age = TTL + 1 THEN NULL ELSE age + 1
Aged(age)    == IF age = NULL \/ age = TTL THEN NULL ELSE age + 1

\* One unit of time, in which the ingestor commits a transaction or does nothing.
Pass ==
  /\ LET ago == [r \in RunIds |-> IF r \in Opened(log[1]) THEN Older(log[1].ago[r]) ELSE 0]
     IN  log' = <<[prices |-> prices', runs |-> runs', ago |-> ago]>> \o SubSeq(log, 1, TTL + 1)
  /\ covered' = Aged(covered) /\ listed' = Aged(listed) /\ counted' = Aged(counted)
  /\ loaded' = [k \in {q \in DOMAIN loaded : Aged(loaded[q]) # NULL} |-> Aged(loaded[k])]
  /\ page' = Nothing
  /\ UNCHANGED subject

Quiet     == subject # "frame" /\ UNCHANGED <<prices, runs>> /\ Pass
Commit(s) == subject = "market_prices" /\ Raw!Write(s) /\ Pass
Audit(r) ==
  /\ subject = "ingestion_runs"
  /\ \/ Raw!Open(r) /\ \A q \in RunIds : q < r => runs[q].status # "absent"
     \/ Raw!Close(r) \/ Raw!Reclose(r)
  /\ Pass

\* A cached result is used while it lives, otherwise the query is made now.
Age(entry) == IF entry = NULL THEN 0 ELSE entry
Snapshot(age) == log[age + 1]

Key(s, range) == [series |-> s, start |-> range[1], end |-> End(range[2])]
PriceAge(k)   == IF k \in DOMAIN loaded THEN loaded[k] ELSE 0
Load(keys) ==
  /\ loaded' = [k \in DOMAIN loaded \cup keys |-> PriceAge(k)]
  /\ Cardinality(DOMAIN loaded') <= MaxEntries

\* instruments.ordered_symbols and the interval select box, of the coverage.
Offered(cov)   == OrderedSymbols({s[1] : s \in Covered(cov)})
OfferedIntervals(cov) == {s[2] : s \in Covered(cov)}

\* render_prices: any symbol, any interval, the opening window or, if the user has
\* picked one, any range within the bounds of the date picker.
RenderPrices(s, picked) ==
  LET age   == Age(covered)
      cov   == Snapshot(age)
      range == IF picked = NULL THEN Opening(Span(cov, s)) ELSE picked
      k     == Key(s, range)
      rows  == History(Snapshot(PriceAge(k)), s, k.start, k.end)
  IN  /\ subject = "market_prices"
      /\ s[1] \in {Offered(cov)[i] : i \in 1..Len(Offered(cov))}
      /\ s[2] \in OfferedIntervals(cov)
      /\ picked # NULL => /\ Or(Span(cov, s)[1], 0) <= range[1] /\ range[1] <= range[2]
                          /\ range[2] <= Opening(Span(cov, s))[2]
      /\ covered' = age
      /\ Load({k})
      /\ page' = [tab |-> "prices", series |-> s, range |-> range, opening |-> picked = NULL,
                  offered |-> Offered(cov), ages |-> <<age, PriceAge(k)>>,
                  rows |-> rows, warned |-> AtLimit(rows)]
      /\ UNCHANGED <<prices, runs, log, listed, counted, subject>>

\* render_compare up to the frames, with the selection it opens on.  A series without
\* bars is named and left out, and with too few that have some the page ends there.
RenderCompare(interval) ==
  LET age      == Age(covered)
      cov      == Snapshot(age)
      symbols  == DefaultSelection(Offered(cov), MinCompare)
      selected == {<<symbols[i], interval>> : i \in 1..Len(symbols)}
      range    == Opening(UnionSpan(cov, selected))
      results  == [s \in selected |->
                     LET k == Key(s, range) IN History(Snapshot(PriceAge(k)), s, k.start, k.end)]
      empty    == {s \in selected : results[s] = {}}
  IN  /\ interval \in OfferedIntervals(cov)
      /\ covered' = age
      /\ \/ /\ Len(symbols) < MinCompare
            /\ page' = [tab |-> "too few"]
            /\ UNCHANGED loaded
         \/ /\ Len(symbols) >= MinCompare
            /\ Load({Key(s, range) : s \in selected})
            /\ \/ /\ Cardinality(selected \ empty) < MinCompare
                  /\ page' = [tab |-> "not enough", selected |-> selected, range |-> range,
                              empty |-> empty]
               \/ /\ Cardinality(selected \ empty) >= MinCompare
                  /\ page' = [tab |-> "compare", selected |-> selected, range |-> range,
                              empty |-> empty, frames |-> [s \in selected \ empty |-> results[s]],
                              warned |-> \E s \in selected \ empty : AtLimit(results[s])]
      /\ UNCHANGED <<prices, runs, log, listed, counted, subject>>

\* render_health
RenderHealth ==
  LET tiles == Snapshot(Age(counted))
      rows  == RecentRuns(Snapshot(Age(listed)))
  IN  /\ subject = "ingestion_runs"
      /\ counted' = Age(counted)
      /\ listed' = Age(listed)
      /\ page' = [tab |-> "health", failures |-> Count(tiles, "failed"), rows |-> rows]
      /\ UNCHANGED <<prices, runs, log, covered, loaded, subject>>

\* price_chart and percent_change_chart
RenderChart(close, adjusted) ==
  /\ subject = "frame"
  /\ page' = [tab |-> "chart", price |-> PriceChart([close |-> close, adjusted |-> adjusted]),
              percent |-> PercentChart(close)]
  /\ UNCHANGED <<prices, runs, log, caches, subject>>

Next ==
  \/ Quiet
  \/ \E s \in Series : Commit(s)
  \/ \E r \in RunIds : Audit(r)
  \/ \E s \in Series : RenderPrices(s, NULL) \/ \E range \in Picks : RenderPrices(s, range)
  \/ \E i \in Intervals : RenderCompare(i)
  \/ RenderHealth
  \/ \E c, d \in Columns : RenderChart(c, d)

Spec == Init /\ [][Next]_vars
-----------------------------------------------------------------------------
TypeOK ==
  /\ prices \in [Series -> [Ts -> 0..MaxRev]]
  /\ \A i \in 1..Len(log) : log[i].prices \in [Series -> [Ts -> 0..MaxRev]]
  /\ {covered, listed, counted} \subseteq 0..TTL \cup {NULL}
  /\ \A k \in DOMAIN loaded : k.series \in Series /\ loaded[k] \in 0..TTL
  /\ page.tab \in {"none", "prices", "too few", "not enough", "compare", "health", "chart"}

\* What was stored one time to live ago is on the page: coverage and prices are
\* cached one after the other, but their ages do not add up.  Only bars before the
\* opening window, or ones cut off with a warning, may be missing.
ShowsWhatIsOld ==
  page.tab = "prices" /\ page.opening =>
    \A t \in Stored(log[TTL + 1], page.series) :
      \/ Day[t] < Opening(Span(log[1], page.series))[1]
      \/ t \in page.rows \/ page.warned

\* A page that says "no bars in this range" of an opening window the coverage lists
\* has prices that were loaded before the coverage: the window, built from the days
\* of the first and last bar, never misses the bars it was built from.
ListedIsShown ==
  (/\ page.tab = "prices" /\ page.opening /\ page.rows = {}
   /\ page.series \in Covered(Snapshot(page.ages[1])))
  => page.ages[2] > page.ages[1]

\* Rows are left out of no page, of one series or of several, without a warning, and
\* the series that are named as having no bars in the range are those that have none.
WholeRangeOrWarned ==
  LET Whole(s) == {t \in Stored(Snapshot(PriceAge(Key(s, page.range))), s) :
                     Day[t] \in page.range[1]..page.range[2]}
  IN  /\ page.tab = "prices" => page.warned \/ page.rows = Whole(page.series)
      /\ page.tab = "compare" =>
           page.warned \/ \A s \in page.selected \ page.empty : page.frames[s] = Whole(s)
      /\ page.tab \in {"compare", "not enough"} =>
           page.empty = {s \in page.selected : Whole(s) = {}}

\* Each symbol that has bars can be picked, once, and known or not it stands with
\* its asset class.
PickerComplete ==
  page.tab = "prices" =>
    LET list == page.offered
        Place(s) == CHOOSE i \in 1..Len(ClassOrder) : ClassOrder[i] = AssetClass(s)
    IN  /\ {list[i] : i \in 1..Len(list)} = {s[1] : s \in Covered(Snapshot(page.ages[1]))}
        /\ \A i, k \in 1..Len(list) : i < k =>
             /\ list[i] # list[k]
             /\ Place(list[i]) <= Place(list[k])

\* A run that failed one time to live ago is on the health page: in the count as long
\* as it was opened within the last Hours, and in the table unless RunLimit later ones
\* have been opened.  The count is of failures, and none has been out of its window for
\* longer than a time to live.
FailuresShown ==
  page.tab = "health" =>
    LET failed(db) == {r \in RunIds : db.runs[r].status = "failed"}
        since(age) == {r \in RunIds : log[1].ago[r] <= age}
    IN  /\ Cardinality(failed(log[TTL + 1]) \cap since(Hours)) <= page.failures
        /\ page.failures <= Cardinality(failed(log[1]) \cap since(Hours + TTL))
        /\ failed(log[TTL + 1]) \cap RecentRuns(log[1]) \subseteq page.rows

\* Every point that is drawn is inside its axis and not on the edge, flat series,
\* zeros and negative prices included, and zero is inside that of the percentages.
ChartsFrame ==
  LET Inside(chart) == \A p \in chart.points : chart.axis[1] < p * Pad /\ p * Pad < chart.axis[2]
  IN  page.tab = "chart" => Inside(page.price) /\ Inside(page.percent) /\ 0 \in page.percent.points
=============================================================================
