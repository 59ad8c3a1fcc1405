-------------------------- MODULE ComparisonProofs --------------------------
(* What TLAPS proves of the Compare tab, for any number of symbols and for *)
(* series of any length and any integer prices, zero and negative ones     *)
(* included.                                                               *)
EXTENDS Comparison, FiniteLemmas

LEMMA Extremes ==
  ASSUME NEW S \in SUBSET Int, IsFiniteSet(S), S # {}
  PROVE  /\ Earliest(S) \in S /\ \A u \in S : Earliest(S) <= u
         /\ Latest(S) \in S /\ \A u \in S : u <= Latest(S)
  BY FiniteExtremes DEF Earliest, Latest

\* An earliest element is known by its being one.
LEMMA EarliestIs ==
  ASSUME NEW S \in SUBSET Int, NEW m \in S, \A u \in S : m <= u
  PROVE  Earliest(S) = m
  <1>1. Earliest(S) \in S /\ \A u \in S : Earliest(S) <= u
    BY DEF Earliest
  <1>2. Earliest(S) <= m /\ m <= Earliest(S) /\ Earliest(S) \in Int /\ m \in Int
    BY <1>1
  <1> QED
    BY <1>2

\* The frames of the page: of each selected symbol that has bars, with prices that are
\* integers where there are any.
LEMMA SeriesType ==
  ASSUME NEW s \in Series
  PROVE  /\ DOMAIN s \subseteq Times
         /\ Priced(s) \subseteq Times /\ Priced(s) \in SUBSET Int /\ IsFiniteSet(Priced(s))
         /\ \A t \in Priced(s) : s[t] \in Int
  <1>1. PICK D \in SUBSET Times : s \in [D -> Closes \cup {NULL}]
    BY DEF Series
  <1>2. Priced(s) \subseteq Times /\ \A t \in Priced(s) : s[t] \in Closes
    BY <1>1 DEF Priced
  <1> QED
    BY <1>1, <1>2, FS_Subset, ComparisonAssumption

LEMMA FramesType ==
  ASSUME loaded \in [Symbols -> Series]
  PROVE  /\ DOMAIN Frames \subseteq Symbols /\ IsFiniteSet(DOMAIN Frames)
         /\ DOMAIN Frames \in SUBSET Int
         /\ \A i \in DOMAIN Frames : Frames[i] \in Series
  <1>1. Symbols \in SUBSET Int /\ IsFiniteSet(Symbols)
    BY FS_Interval, ComparisonAssumption DEF Symbols
  <1>2. DOMAIN Frames \subseteq Symbols /\ \A i \in DOMAIN Frames : Frames[i] \in Series
    BY DEF Frames
  <1> QED
    BY <1>1, <1>2, FS_Subset

LEMMA FirstType ==
  ASSUME NEW s \in Series
  PROVE  /\ First(s) = NULL <=> Priced(s) = {}
         /\ First(s) # NULL => First(s) \in Priced(s) /\ \A t \in Priced(s) : First(s) <= t
  BY SeriesType, Extremes, ComparisonAssumption DEF First

\* The common start is a bar of a series that has prices, and no series has its first
\* one later.
LEMMA StartType ==
  ASSUME NEW f, IsFiniteSet(DOMAIN f), \A i \in DOMAIN f : f[i] \in Series
  PROVE  /\ Start(f) = NULL <=> \A i \in DOMAIN f : Priced(f[i]) = {}
         /\ Start(f) # NULL => /\ Start(f) \in Int
                               /\ \A i \in DOMAIN f : First(f[i]) # NULL => First(f[i]) <= Start(f)
  <1> DEFINE all    == {First(f[i]) : i \in DOMAIN f}
             starts == all \ {NULL}
  <1>1. \A i \in DOMAIN f : First(f[i]) # NULL => First(f[i]) \in Int
    BY FirstType, SeriesType
  <1>2. starts \in SUBSET Int
    BY <1>1
  <1>3. IsFiniteSet(starts)
    <2>1. \A i \in DOMAIN f : First(f[i]) # NULL => First(f[i]) \in Times
      BY FirstType, SeriesType
    <2>2. starts \subseteq Times
      BY <2>1
    <2> QED
      BY <2>2, FS_Subset, ComparisonAssumption
  <1>4. starts = {} <=> \A i \in DOMAIN f : Priced(f[i]) = {}
    BY FirstType
  <1>5. Start(f) = IF starts = {} THEN NULL ELSE Latest(starts)
    BY DEF Start
  <1>6. \A i \in DOMAIN f : First(f[i]) # NULL => First(f[i]) \in starts
    OBVIOUS
  <1> HIDE DEF starts
  <1>7. starts # {} => Latest(starts) \in Int /\ \A u \in starts : u <= Latest(starts)
    BY <1>2, <1>3, Extremes
  <1> QED
    BY <1>4, <1>5, <1>6, <1>7, ComparisonAssumption
-----------------------------------------------------------------------------
(* Percentages. *)

Percents == {p \in Int \X Int : p[2] > 0}

LEMMA Cancel ==
  ASSUME NEW a \in Int, NEW b \in Int, NEW c \in Int, c > 0, a * c <= b * c
  PROVE  a <= b
  <1>1. ASSUME a >= b + 1 PROVE FALSE
    <2>1. (a - b) * c >= c
      BY <1>1
    <2>2. (a - b) * c = a * c - b * c
      OBVIOUS
    <2> QED
      BY <2>1, <2>2
  <1> QED
    BY <1>1

LEMMA AtMostTotal ==
  ASSUME NEW p \in Percents, NEW q \in Percents
  PROVE  AtMost(p, q) \/ AtMost(q, p)
  BY DEF Percents, AtMost

LEMMA AtMostTransitive ==
  ASSUME NEW p \in Percents, NEW q \in Percents, NEW r \in Percents,
         AtMost(p, q), AtMost(q, r)
  PROVE  AtMost(p, r)
  <1> DEFINE a == p[1] b == p[2] c == q[1] d == q[2] e == r[1] g == r[2]
  <1>1. a \in Int /\ b \in Int /\ c \in Int /\ d \in Int /\ e \in Int /\ g \in Int
        /\ b > 0 /\ d > 0 /\ g > 0 /\ a * d <= c * b /\ c * g <= e * d
    BY DEF Percents, AtMost
  <1>2. SUFFICES a * g <= e * b
    BY DEF AtMost
  <1> HIDE DEF a, b, c, d, e, g
  <1>3. (a * d) * g <= (c * b) * g
    BY <1>1
  <1>4. (c * g) * b <= (e * d) * b
    BY <1>1
  <1>5. (a * g) * d = (a * d) * g /\ (c * b) * g = (c * g) * b /\ (e * d) * b = (e * b) * d
    BY <1>1
  <1>6. (a * g) * d <= (e * b) * d
    BY <1>1, <1>3, <1>4, <1>5
  <1> QED
    BY <1>1, <1>6, Cancel

LEMMA PercentType ==
  ASSUME NEW close \in Int, NEW baseline \in Int, baseline # 0
  PROVE  /\ Percent(close, baseline) \in Percents
         /\ close = baseline => Percent(close, baseline)[1] = 0
  BY DEF Percent, Percents

\* Of a comparison with finitely many lines, each with a change, one leads.
Leads(lines, i) == \A k \in DOMAIN lines :
  /\ AtMost(Change(lines[k]), Change(lines[i]))
  /\ AtMost(Change(lines[i]), Change(lines[k])) => i <= k

LEMMA LeaderExists ==
  ASSUME NEW c, DOMAIN c.lines \in SUBSET Int, IsFiniteSet(DOMAIN c.lines),
         \A i \in DOMAIN c.lines : Change(c.lines[i]) \in Percents,
         NULL \notin DOMAIN c.lines, Leader(c) # NULL
  PROVE  Leader(c) \in DOMAIN c.lines /\ Leads(c.lines, Leader(c))
  <1> DEFINE kept  == DOMAIN c.lines
             ch(i) == Change(c.lines[i])
             Below(k, i) == AtMost(ch(k), ch(i)) /\ (AtMost(ch(i), ch(k)) => i <= k)
             R     == {x \in kept \X kept : Below(x[1], x[2])}
  <1>1. \A x, y \in kept : <<x, y>> \in R <=> Below(x, y)
    OBVIOUS
  <1>2. kept # {} /\ Leader(c) = CHOOSE i \in kept : \A k \in kept : Below(k, i)
    BY DEF Leader
  <1>3. \A x, y \in kept : Below(x, y) \/ Below(y, x)
    <2> TAKE x, y \in kept
    <2>1. ch(x) \in Percents /\ ch(y) \in Percents /\ x \in Int /\ y \in Int
      OBVIOUS
    <2>2. AtMost(ch(x), ch(y)) \/ AtMost(ch(y), ch(x))
      BY <2>1, AtMostTotal
    <2> QED
      BY <2>1, <2>2
  <1>4. \A x, y, z \in kept : Below(x, y) /\ Below(y, z) => Below(x, z)
    <2> SUFFICES ASSUME NEW x \in kept, NEW y \in kept, NEW z \in kept, Below(x, y), Below(y, z)
                 PROVE  Below(x, z)
      OBVIOUS
    <2>1. ch(x) \in Percents /\ ch(y) \in Percents /\ ch(z) \in Percents
          /\ x \in Int /\ y \in Int /\ z \in Int
      OBVIOUS
    <2> HIDE DEF ch
    <2>2. AtMost(ch(x), ch(z))
      BY <2>1, AtMostTransitive
    <2>3. ASSUME AtMost(ch(z), ch(x)) PROVE z <= x
      <3>1. AtMost(ch(z), ch(y))
        BY <2>1, <2>3, AtMostTransitive
      <3>2. AtMost(ch(y), ch(x))
        BY <2>1, <2>3, AtMostTransitive
      <3> QED
        BY <2>1, <3>1, <3>2
    <2> QED
      BY <2>2, <2>3
  <1> HIDE DEF R, Below
  <1>5. \E m \in kept : \A x \in kept : Below(x, m)
    <2>1. \E m \in kept : \A x \in kept : <<x, m>> \in R
      BY <1>1, <1>2, <1>3, <1>4, TopExists
    <2> QED
      BY <1>1, <2>1
  <1>6. Leader(c) \in kept /\ \A k \in kept : Below(k, Leader(c))
    BY <1>2, <1>5
  <1> QED
    BY <1>6 DEF Below, Leads
-----------------------------------------------------------------------------
(* What compare returns, of finitely many series. *)

\* A series that is kept has a bar at or after the common start, and is rebased to
\* its first one, which is not zero.
LEMMA BaselineType ==
  ASSUME NEW s \in Series, NEW start \in Int \cup {NULL}, Baseline(s, start) # NULL
  PROVE  /\ After(s, start) # {} /\ After(s, start) \subseteq Priced(s)
         /\ Earliest(After(s, start)) \in After(s, start)
         /\ Baseline(s, start) = s[Earliest(After(s, start))]
         /\ Baseline(s, start) \in Int /\ Baseline(s, start) # 0
  <1>1. After(s, start) \subseteq Priced(s)
    BY DEF After
  <1>2. After(s, start) # {} /\ Baseline(s, start) = s[Earliest(After(s, start))]
        /\ Baseline(s, start) # 0
    BY DEF Baseline, Base
  <1>3. After(s, start) \in SUBSET Int /\ IsFiniteSet(After(s, start))
    BY <1>1, SeriesType, FS_Subset
  <1>4. Earliest(After(s, start)) \in After(s, start)
    BY <1>2, <1>3, Extremes
  <1> QED
    BY <1>1, <1>2, <1>4, SeriesType

LEMMA CompareType ==
  ASSUME NEW f, IsFiniteSet(DOMAIN f), DOMAIN f \in SUBSET Int,
         \A i \in DOMAIN f : f[i] \in Series,
         NEW c, c = Compare(f)
  PROVE  /\ c.start = Start(f) /\ c.dropped = DOMAIN f \ DOMAIN c.lines
         /\ DOMAIN c.lines \subseteq DOMAIN f /\ IsFiniteSet(DOMAIN c.lines)
         /\ \A i \in DOMAIN c.lines :
              /\ c.start \in Int
              /\ c.baseline[i] = Baseline(f[i], c.start) /\ c.baseline[i] # NULL
              /\ c.baseline[i] \in Int /\ c.baseline[i] # 0
              /\ DOMAIN c.lines[i] = Priced(f[i]) /\ Priced(f[i]) # {}
              /\ \A t \in Priced(f[i]) : /\ c.lines[i][t] = Percent(f[i][t], c.baseline[i])
                                         /\ c.lines[i][t] \in Percents
  <1> DEFINE kept == {i \in DOMAIN f : Baseline(f[i], Start(f)) # NULL}
  <1>1. /\ c.start = Start(f) /\ DOMAIN c.lines = kept /\ c.dropped = DOMAIN f \ kept
        /\ \A i \in kept : /\ c.baseline[i] = Baseline(f[i], Start(f))
                           /\ c.lines[i] = [t \in Priced(f[i]) |-> Percent(f[i][t], c.baseline[i])]
    BY DEF Compare
  <1>2. IsFiniteSet(kept)
    BY FS_Subset
  <1>3. Start(f) \in Int \cup {NULL}
    BY StartType
  <1>4. ASSUME NEW i \in kept
        PROVE  /\ Start(f) \in Int
               /\ c.baseline[i] \in Int /\ c.baseline[i] # 0 /\ c.baseline[i] # NULL
               /\ DOMAIN c.lines[i] = Priced(f[i]) /\ Priced(f[i]) # {}
               /\ \A t \in Priced(f[i]) : /\ c.lines[i][t] = Percent(f[i][t], c.baseline[i])
                                          /\ c.lines[i][t] \in Percents
    <2> DEFINE s == f[i]
               start == Start(f)
    <2>0. s \in Series /\ start \in Int \cup {NULL} /\ Baseline(s, start) # NULL
      BY <1>3
    <2> HIDE DEF s, start
    <2>1. c.baseline[i] \in Int /\ c.baseline[i] # 0 /\ Priced(f[i]) # {}
      <3>1. Baseline(s, start) \in Int /\ Baseline(s, start) # 0 /\ Priced(s) # {}
        BY <2>0, BaselineType
      <3>2. c.baseline[i] = Baseline(f[i], Start(f))
        BY <1>1
      <3> QED
        BY <3>1, <3>2 DEF s, start
    <2>2. Start(f) \in Int
      BY <1>3, <2>1, StartType
    <2>3. \A t \in Priced(f[i]) : Percent(f[i][t], c.baseline[i]) \in Percents
      BY <2>0, <2>1, SeriesType, PercentType DEF s
    <2> QED
      BY <1>1, <2>1, <2>2, <2>3
  <1> QED
    BY <1>1, <1>2, <1>4

\* The change of a line is that of its last bar, which is at or after the start.
LEMMA ChangeType ==
  ASSUME NEW f, IsFiniteSet(DOMAIN f), DOMAIN f \in SUBSET Int,
         \A i \in DOMAIN f : f[i] \in Series,
         NEW c, c = Compare(f), NEW i \in DOMAIN c.lines
  PROVE  LET last == Latest(Priced(f[i]))
         IN  /\ last \in After(f[i], c.start) /\ \A u \in Priced(f[i]) : u <= last
             /\ Change(c.lines[i]) = c.lines[i][last] /\ Change(c.lines[i]) \in Percents
  <1> DEFINE last == Latest(Priced(f[i]))
  <1>1. /\ i \in DOMAIN f /\ c.start \in Int /\ Baseline(f[i], c.start) # NULL
        /\ DOMAIN c.lines[i] = Priced(f[i]) /\ Priced(f[i]) # {}
        /\ \A t \in Priced(f[i]) : c.lines[i][t] \in Percents
    BY CompareType
  <1>2. last \in Priced(f[i]) /\ \A u \in Priced(f[i]) : u <= last
    BY <1>1, SeriesType, Extremes
  <1>3. PICK t \in After(f[i], c.start) : t \in Priced(f[i])
    BY <1>1, BaselineType
  <1>4. t >= c.start /\ t <= last /\ t \in Int /\ last \in Int
    BY <1>1, <1>2, <1>3, SeriesType, ComparisonAssumption DEF After
  <1>5. last \in After(f[i], c.start)
    BY <1>1, <1>2, <1>4 DEF After
  <1> QED
    BY <1>1, <1>2, <1>5 DEF Change
-----------------------------------------------------------------------------
(* The page. *)

\* With exactly two lines, the earliest and the latest are the two.
LEMMA TwoKept ==
  ASSUME NEW S \in SUBSET Int, IsFiniteSet(S), Cardinality(S) = 2
  PROVE  Earliest(S) # Latest(S) /\ S = {Earliest(S), Latest(S)}
  <1> DEFINE a == Earliest(S)
             b == Latest(S)
  <1>1. S # {}
    BY FS_EmptySet
  <1>2. a \in S /\ b \in S /\ a \in Int /\ b \in Int /\ \A u \in S : a <= u /\ u <= b
    BY <1>1, Extremes
  <1> HIDE DEF a, b
  <1>3. a # b
    <2>1. ASSUME a = b PROVE FALSE
      <3>1. S = {a}
        <4>1. \A u \in S : u \in Int /\ u <= a /\ a <= u
          BY <1>2, <2>1
        <4>2. \A u \in S : u = a
          BY <1>2, <4>1
        <4> QED
          BY <1>2, <4>2
      <3> QED
        BY <3>1, FS_Singleton
    <2> QED
      BY <2>1
  <1>4. Cardinality({a, b}) = 2 /\ IsFiniteSet({a, b})
    <2>1. IsFiniteSet({a}) /\ Cardinality({a}) = 1
      BY FS_Singleton
    <2>2. IsFiniteSet({a} \cup {b}) /\ Cardinality({a} \cup {b}) = Cardinality({a}) + 1
      BY <1>3, <2>1, FS_AddElement
    <2>3. {a} \cup {b} = {a, b}
      OBVIOUS
    <2> QED
      BY <2>1, <2>2, <2>3
  <1>5. S = {a, b}
    BY <1>2, <1>4, FS_Subset
  <1> QED
    BY <1>3, <1>5 DEF a, b

Result == Compare(Frames)

\* A comparison is drawn of the frames that are loaded, with its leader and, of two
\* lines, the ratio of the first to the second.
Drawn ==
  Shown =>
    /\ page.result = Result
    /\ page.leader = Leader(Result) /\ page.leader # NULL
    /\ page.ratio = IF Cardinality(DOMAIN Result.lines) = MinCompare
                    THEN Ratio(Frames[Earliest(DOMAIN Result.lines)],
                               Frames[Latest(DOMAIN Result.lines)])
                    ELSE [t \in {} |-> {}]

IInv ==
  /\ loaded \in [Symbols -> Series]
  /\ page.shown \in {"nothing", "too few", "nothing comparable", "comparison"}
  /\ Drawn

LEMMA InitIInv == Init => IInv
  BY DEF Init, IInv, Drawn, Shown, Blank

LEMMA NextIInv == IInv /\ [Next]_vars => IInv'
  <1> SUFFICES ASSUME IInv, [Next]_vars PROVE IInv'
    OBVIOUS
  <1>1. loaded' = loaded /\ Frames' = Frames /\ Result' = Result
    BY DEF Next, TooFew, Nothing, Draw, vars, Frames, Result
  <1>2. CASE TooFew
    BY <1>1, <1>2 DEF TooFew, IInv, Drawn, Shown
  <1>3. CASE Nothing
    BY <1>1, <1>3 DEF Nothing, IInv, Drawn, Shown
  <1>4. CASE Draw
    <2>1. /\ page'.shown = "comparison" /\ page'.result = Result
          /\ page'.leader = Leader(Result) /\ page'.leader # NULL
          /\ page'.ratio = IF Cardinality(DOMAIN Result.lines) = MinCompare
                           THEN Ratio(Frames[Earliest(DOMAIN Result.lines)],
                                      Frames[Latest(DOMAIN Result.lines)])
                           ELSE [t \in {} |-> {}]
      BY <1>4 DEF Draw, Result
    <2> QED
      BY <1>1, <2>1 DEF IInv, Drawn, Shown
  <1>5. CASE UNCHANGED vars
    BY <1>1, <1>5 DEF vars, IInv, Drawn, Shown
  <1> QED
    BY <1>2, <1>3, <1>4, <1>5 DEF Next

LEMMA SpecIInv == Spec => []IInv
  BY InitIInv, NextIInv, PTL DEF Spec

\* The page shows, of each line that is kept, what compare returns of its frame.
LEMMA ShownType ==
  ASSUME IInv, Shown
  PROVE  LET c == page.result
         IN  /\ IsFiniteSet(DOMAIN Frames) /\ DOMAIN Frames \in SUBSET Int
             /\ \A i \in DOMAIN Frames : Frames[i] \in Series
             /\ c = Compare(Frames) /\ Kept \subseteq DOMAIN Frames
             /\ IsFiniteSet(Kept) /\ Kept \in SUBSET Int
             /\ page.leader \in Kept /\ Leads(c.lines, page.leader)
  <1> DEFINE c == page.result
  <1>1. /\ IsFiniteSet(DOMAIN Frames) /\ DOMAIN Frames \in SUBSET Int
        /\ \A i \in DOMAIN Frames : Frames[i] \in Series
    BY FramesType DEF IInv
  <1>2. c = Compare(Frames) /\ page.leader = Leader(c) /\ page.leader # NULL
    BY DEF IInv, Drawn, Result
  <1>3. Kept \subseteq DOMAIN Frames /\ IsFiniteSet(Kept) /\ Kept \in SUBSET Int
    BY <1>1, <1>2, CompareType DEF Kept
  <1>4. \A i \in DOMAIN c.lines : Change(c.lines[i]) \in Percents
    BY <1>1, <1>2, ChangeType
  <1>5. page.leader \in Kept /\ Leads(c.lines, page.leader)
    <2> HIDE DEF c
    <2>1. Kept = DOMAIN c.lines /\ NULL \notin DOMAIN c.lines
      BY <1>3, ComparisonAssumption DEF Kept, c
    <2> QED
      BY <1>2, <1>3, <1>4, <2>1, LeaderExists
  <1> QED
    BY <1>1, <1>2, <1>3, <1>5

\* A drawn comparison has a line, every line has a bar, no baseline is zero and no
\* ratio divides by zero: TypeOK of compare, leader and ratio_series.
THEOREM TypeCorrect == Spec => []TypeOK
  <1>1. ASSUME IInv PROVE TypeOK
    <2>1. ASSUME Shown
          PROVE  /\ page.leader \in Kept
                 /\ \A i \in Kept : DOMAIN page.result.lines[i] # {} /\ page.result.baseline[i] # 0
                 /\ \A t \in DOMAIN page.ratio : page.ratio[t][2] # 0
      <3>1. page.leader \in Kept
        BY <1>1, <2>1, ShownType
      <3>2. \A i \in Kept : DOMAIN page.result.lines[i] # {} /\ page.result.baseline[i] # 0
        BY <1>1, <2>1, ShownType, CompareType DEF Kept
      <3>3. \A num, den : \A t \in DOMAIN Ratio(num, den) : Ratio(num, den)[t][2] # 0
        BY DEF Ratio
      <3>4. \A t \in DOMAIN page.ratio : page.ratio[t][2] # 0
        BY <1>1, <2>1, <3>3 DEF IInv, Drawn
      <3> QED
        BY <3>1, <3>2, <3>4
    <2> QED
      BY <1>1, <2>1 DEF IInv, TypeOK
  <1> QED
    BY <1>1, SpecIInv, PTL

\* Every line reads 0% at its first bar from the common start on, and its headline
\* change is that of a bar at or after the same start.
THEOREM FairStart == Spec => []NoHeadStart
  <1>1. ASSUME IInv PROVE NoHeadStart
    <2> DEFINE c    == page.result
               line(i) == c.lines[i]
               from(i) == {t \in DOMAIN line(i) : t >= c.start}
    <2>1. SUFFICES ASSUME Shown, NEW i \in Kept
                   PROVE  /\ from(i) # {} /\ line(i)[Earliest(from(i))][1] = 0
                          /\ \E t \in from(i) : Change(line(i)) = line(i)[t]
                                                /\ \A u \in DOMAIN line(i) : u <= t
      BY DEF NoHeadStart
    <2> DEFINE s == Frames[i]
    <2>2. /\ IsFiniteSet(DOMAIN Frames) /\ DOMAIN Frames \in SUBSET Int
          /\ \A k \in DOMAIN Frames : Frames[k] \in Series
          /\ c = Compare(Frames) /\ i \in DOMAIN c.lines /\ i \in DOMAIN Frames
      BY <1>1, <2>1, ShownType DEF Kept
    <2>3. /\ c.start \in Int /\ Baseline(s, c.start) # NULL
          /\ c.baseline[i] = Baseline(s, c.start) /\ c.baseline[i] \in Int /\ c.baseline[i] # 0
          /\ DOMAIN line(i) = Priced(s)
          /\ \A t \in Priced(s) : line(i)[t] = Percent(s[t], c.baseline[i])
      BY <2>2, CompareType
    <2>4. from(i) = After(s, c.start)
      BY <2>3, ComparisonAssumption DEF After
    <2>5. /\ from(i) # {} /\ Earliest(from(i)) \in Priced(s)
          /\ c.baseline[i] = s[Earliest(from(i))]
      BY <2>2, <2>3, <2>4, BaselineType
    <2>6. line(i)[Earliest(from(i))][1] = 0
      BY <2>3, <2>5, PercentType
    <2>7. /\ Latest(Priced(s)) \in from(i) /\ \A u \in DOMAIN line(i) : u <= Latest(Priced(s))
          /\ Change(line(i)) = line(i)[Latest(Priced(s))]
      BY <2>2, <2>3, <2>4, ChangeType
    <2> QED
      BY <2>5, <2>6, <2>7
  <1> QED
    BY <1>1, SpecIInv, PTL

\* A symbol without a usable price changes no start, no line and no leader, and every
\* symbol that has bars is either drawn or reported as dropped.
THEOREM UselessIsIgnored == Spec => []UselessSeriesIgnored
  <1>1. ASSUME IInv PROVE UselessSeriesIgnored
    <2> DEFINE f      == Frames
               usable == {i \in DOMAIN f : Priced(f[i]) # {}}
               g      == [i \in usable |-> f[i]]
               rest   == Compare(g)
    <2>1. SUFFICES ASSUME Shown
                   PROVE  /\ Kept \cup page.result.dropped = DOMAIN f
                          /\ Kept \cap page.result.dropped = {}
                          /\ rest.start = page.result.start /\ rest.lines = page.result.lines
                          /\ Leader(rest) = page.leader
      BY DEF UselessSeriesIgnored
    <2>2. /\ IsFiniteSet(DOMAIN f) /\ DOMAIN f \in SUBSET Int
          /\ \A i \in DOMAIN f : f[i] \in Series
          /\ page.result = Compare(f) /\ Kept \subseteq DOMAIN f
      BY <1>1, <2>1, ShownType
    <2>3. /\ Kept \cup page.result.dropped = DOMAIN f /\ Kept \cap page.result.dropped = {}
      <3>1. page.result.dropped = DOMAIN f \ Kept
        BY <2>2 DEF Kept, Compare
      <3> QED
        BY <2>2, <3>1
    <2>4. Start(g) = Start(f)
      <3>1. \A i \in DOMAIN f : First(f[i]) = NULL <=> i \notin usable
        BY <2>2, FirstType
      <3>2. {First(g[i]) : i \in DOMAIN g} \ {NULL} = {First(f[i]) : i \in DOMAIN f} \ {NULL}
        BY <3>1
      <3> QED
        BY <3>2 DEF Start
    <2>5. \A i \in DOMAIN f : Baseline(f[i], Start(f)) # NULL => i \in usable
      BY DEF Baseline, Base, After
    <2>6. rest.start = page.result.start /\ rest.lines = page.result.lines
      <3> DEFINE start == Start(f)
                 kept  == {i \in DOMAIN f : Baseline(f[i], start) # NULL}
                 Lines(h, D) == [i \in D |-> [t \in Priced(h[i]) |->
                                                Percent(h[i][t], Baseline(h[i], start))]]
      <3>1. Compare(f).start = start /\ Compare(f).lines = Lines(f, kept)
        BY DEF Compare
      <3>2. {i \in DOMAIN g : Baseline(g[i], start) # NULL} = kept
        BY <2>5
      <3>3. rest.start = start /\ rest.lines = Lines(g, kept)
        BY <2>4, <3>2 DEF Compare
      <3>4. Lines(g, kept) = Lines(f, kept)
        BY <2>5
      <3> QED
        BY <2>2, <3>1, <3>3, <3>4
    <2>7. Leader(rest) = Leader(page.result) /\ page.leader = Leader(page.result)
      <3> HIDE DEF rest
      <3>1. Leader(rest) = Leader(page.result)
        BY <2>6 DEF Leader
      <3>2. page.leader = Leader(page.result)
        BY <1>1, <2>1 DEF IInv, Drawn
      <3> QED
        BY <3>1, <3>2
    <2> QED
      BY <2>3, <2>6, <2>7
  <1> QED
    BY <1>1, SpecIInv, PTL

\* Two lines of positive prices at the same instants: the second's share of what the
\* pair was worth compares as their changes do.
LEMMA RatioOrder ==
  ASSUME NEW n \in Int, NEW d \in Int, NEW p \in Int, NEW q \in Int
  PROVE  /\ AtMost(<<n, d>>, <<p, q>>) <=> AtMost(<<q - d, d>>, <<p - n, n>>)
         /\ AtMost(<<p, q>>, <<n, d>>) <=> AtMost(<<p - n, n>>, <<q - d, d>>)
  <1>1. (q - d) * n = q * n - d * n /\ (p - n) * d = p * d - n * d
        /\ d * n = n * d /\ q * n = n * q /\ {n * q, p * d, n * d} \subseteq Int
    OBVIOUS
  <1> QED
    BY <1>1 DEF AtMost

\* The ratio of two instruments with positive prices at the same instants has risen
\* exactly when the first of them leads: render_ratio and SeriesSummary.leader agree.
THEOREM RatiosAgree == Spec => []RatioAgrees
  <1>1. ASSUME IInv PROVE RatioAgrees
    <2> DEFINE c    == page.result
               a    == Earliest(Kept)
               b    == Latest(Kept)
               both == DOMAIN c.lines[a]
               last == Latest(both)
               first == c.start
               top  == page.ratio[last]
               low  == page.ratio[first]
    <2>1. SUFFICES ASSUME Shown, Cardinality(Kept) = MinCompare,
                          both = DOMAIN c.lines[b], first \in both,
                          \A t \in both : Frames[a][t] > 0 /\ Frames[b][t] > 0
                   PROVE  /\ DOMAIN page.ratio = both
                          /\ AtMost(low, top) <=> AtMost(Change(c.lines[b]), Change(c.lines[a]))
                          /\ ~AtMost(top, low) => page.leader = a
                          /\ ~AtMost(low, top) => page.leader = b
      BY DEF RatioAgrees
    <2>2. /\ IsFiniteSet(DOMAIN Frames) /\ DOMAIN Frames \in SUBSET Int
          /\ \A k \in DOMAIN Frames : Frames[k] \in Series
          /\ c = Compare(Frames) /\ Kept = DOMAIN c.lines /\ Kept \subseteq DOMAIN Frames
          /\ IsFiniteSet(Kept) /\ Kept \in SUBSET Int
          /\ page.leader \in Kept /\ Leads(c.lines, page.leader)
      BY <1>1, <2>1, ShownType DEF Kept
    <2>3. a # b /\ Kept = {a, b}
      BY <2>1, <2>2, TwoKept, ComparisonAssumption
    <2>4. page.ratio = Ratio(Frames[a], Frames[b])
      BY <1>1, <2>1 DEF IInv, Drawn, Kept
    <2> HIDE DEF c, a, b
    <2>5. ASSUME NEW i \in Kept
          PROVE  /\ DOMAIN c.lines[i] = Priced(Frames[i]) /\ c.start \in Int
                 /\ \A t \in Priced(Frames[i]) : c.lines[i][t] = Percent(Frames[i][t], c.baseline[i])
                 /\ c.baseline[i] = Baseline(Frames[i], c.start) /\ c.baseline[i] # NULL
                 /\ Change(c.lines[i]) = c.lines[i][Latest(Priced(Frames[i]))]
                 /\ Latest(Priced(Frames[i])) \in Priced(Frames[i])
                 /\ Priced(Frames[i]) \in SUBSET Int /\ \A t \in Priced(Frames[i]) : Frames[i][t] \in Int
      <3>1. Frames[i] \in Series
        BY <2>2
      <3>2. /\ DOMAIN c.lines[i] = Priced(Frames[i]) /\ c.start \in Int
            /\ \A t \in Priced(Frames[i]) : c.lines[i][t] = Percent(Frames[i][t], c.baseline[i])
            /\ c.baseline[i] = Baseline(Frames[i], c.start) /\ c.baseline[i] # NULL
        BY <2>2, CompareType
      <3>3. /\ Change(c.lines[i]) = c.lines[i][Latest(Priced(Frames[i]))]
            /\ Latest(Priced(Frames[i])) \in After(Frames[i], c.start)
        BY <2>2, ChangeType
      <3> QED
        BY <3>1, <3>2, <3>3, SeriesType DEF After
    <2>6. both = Priced(Frames[a]) /\ both = Priced(Frames[b])
      BY <2>1, <2>3, <2>5
    <2>7. DOMAIN page.ratio = both /\ \A t \in both : page.ratio[t] = <<Frames[a][t], Frames[b][t]>>
      BY <2>1, <2>4, <2>6 DEF Ratio
    <2>8. last \in both
      BY <2>3, <2>5, <2>6
    <2>9. ASSUME NEW i \in {a, b}
          PROVE  Change(c.lines[i]) = <<Frames[i][last] - Frames[i][first], Frames[i][first]>>
      <3>1. both = Priced(Frames[i]) /\ first \in both /\ Frames[i][first] > 0
            /\ Frames[i][first] \in Int /\ first \in Int /\ both \in SUBSET Int
        BY <2>1, <2>3, <2>5, <2>6
      <3>2. After(Frames[i], first) = {t \in both : t >= first}
        BY <3>1, ComparisonAssumption DEF After
      <3>3. After(Frames[i], first) \in SUBSET Int /\ first \in After(Frames[i], first)
            /\ \A u \in After(Frames[i], first) : first <= u
        BY <3>1, <3>2
      <3>4. Earliest(After(Frames[i], first)) = first
        BY <3>3, EarliestIs
      <3>5. c.baseline[i] = Frames[i][first]
        BY <2>3, <2>5, <3>4 DEF Baseline, Base
      <3>6. Change(c.lines[i]) = Percent(Frames[i][last], c.baseline[i])
        BY <2>3, <2>5, <2>8, <3>1
      <3> QED
        BY <3>1, <3>5, <3>6 DEF Percent
    <2>10. /\ Frames[a][first] \in Int /\ Frames[b][first] \in Int
           /\ Frames[a][last] \in Int /\ Frames[b][last] \in Int
      BY <2>1, <2>3, <2>5, <2>6, <2>8
    <2>11. /\ AtMost(low, top) <=> AtMost(Change(c.lines[b]), Change(c.lines[a]))
           /\ AtMost(top, low) <=> AtMost(Change(c.lines[a]), Change(c.lines[b]))
      <3>1. low = <<Frames[a][first], Frames[b][first]>> /\ top = <<Frames[a][last], Frames[b][last]>>
        BY <2>1, <2>7, <2>8
      <3>2. /\ Change(c.lines[a]) = <<Frames[a][last] - Frames[a][first], Frames[a][first]>>
            /\ Change(c.lines[b]) = <<Frames[b][last] - Frames[b][first], Frames[b][first]>>
        BY <2>9
      <3> HIDE DEF low, top, first, last
      <3> QED
        BY <2>10, <3>1, <3>2, RatioOrder
    <2>12. /\ AtMost(Change(c.lines[a]), Change(c.lines[page.leader]))
           /\ AtMost(Change(c.lines[b]), Change(c.lines[page.leader]))
      BY <2>2, <2>3 DEF Leads
    <2>13. page.leader = a \/ page.leader = b
      BY <2>2, <2>3
    <2> QED
      BY <2>7, <2>11, <2>12, <2>13
  <1> QED
    BY <1>1, SpecIInv, PTL
=============================================================================
