-------------------------- MODULE DashboardProofs --------------------------
(* What TLAPS proves of the dashboard, for any tables, cache entries, times *)
(* to live and limits: what is on a page, whatever the ages of the results  *)
(* it is made of.                                                          *)
EXTENDS Dashboard, FiniteLemmas

Ages == 0..TTL

Row == [status   : {"absent", "running", "success", "empty", "failed"},
        received : Int \cup {NULL},
        upserted : Int \cup {NULL}]

Tables == [prices : [Series -> [Ts -> 0..MaxRev]], runs : [RunIds -> Row]]
Db     == [prices : [Series -> [Ts -> 0..MaxRev]], runs : [RunIds -> Row],
           ago : [RunIds -> 0..Oldest]]

Failed(db) == {r \in RunIds : db.runs[r].status = "failed"}

\* Bars are not deleted, rows stay, and what has failed has failed.
Extends(new, old) ==
  /\ \A s \in Series : Stored(old, s) \subseteq Stored(new, s)
  /\ Opened(old) \subseteq Opened(new) /\ Failed(old) \subseteq Failed(new)

\* A run is older in a later snapshot, by no more than the time in between.
Grown(new, old, time) ==
  \A r \in Opened(old) : old.ago[r] <= new.ago[r] /\ new.ago[r] <= old.ago[r] + time

Now == [prices |-> prices, runs |-> runs]

\* The log begins with the tables and goes back in time.
LogOK ==
  /\ log \in Seq(Db) /\ Len(log) = TTL + 2
  /\ log[1].prices = prices /\ log[1].runs = runs
  /\ \A i, k \in 1..(TTL + 2) : i <= k => Extends(log[i], log[k]) /\ Grown(log[i], log[k], k - i)

AgesOK ==
  /\ {covered, listed, counted} \subseteq Ages \cup {NULL}
  /\ \A k \in DOMAIN loaded : k.series \in Series /\ loaded[k] \in Ages

\* The rows of a frame are those of a query of the snapshot it was loaded from.
FrameOf(s, range) ==
  History(Snapshot(PriceAge(Key(s, range))), s, range[1], End(range[2]))

PricesPage ==
  page.tab = "prices" =>
    /\ page.series \in Series /\ page.range \in Int \X Int
    /\ page.ages[1] \in Ages /\ page.ages[2] = PriceAge(Key(page.series, page.range))
    /\ page.opening => page.range = Opening(Span(Snapshot(page.ages[1]), page.series))
    /\ page.offered = Offered(Snapshot(page.ages[1]))
    /\ page.rows = FrameOf(page.series, page.range)
    /\ page.warned = AtLimit(page.rows)

ComparePage ==
  page.tab \in {"compare", "not enough"} =>
    /\ page.range \in Int \X Int
    /\ page.empty = {s \in page.selected : FrameOf(s, page.range) = {}}
    /\ page.tab = "compare" =>
         /\ \A s \in page.selected \ page.empty : page.frames[s] = FrameOf(s, page.range)
         /\ page.warned = \E s \in page.selected \ page.empty : AtLimit(page.frames[s])

HealthPage ==
  page.tab = "health" =>
    \E a, b \in Ages : /\ page.failures = Count(Snapshot(a), "failed")
                       /\ page.rows = RecentRuns(Snapshot(b))

ChartPage ==
  page.tab = "chart" =>
    \E c, d \in Columns : /\ page.price = PriceChart([close |-> c, adjusted |-> d])
                          /\ page.percent = PercentChart(c)

TabOK == page.tab \in {"none", "prices", "too few", "not enough", "compare", "health", "chart"}

IInv ==
  /\ LogOK /\ AgesOK /\ TabOK
  /\ PricesPage /\ ComparePage /\ HealthPage /\ ChartPage
-----------------------------------------------------------------------------
(* The log. *)

LEMMA Constants ==
  /\ TTL \in Nat \ {0} /\ MaxRev \in Nat \ {0} /\ MaxRows \in Nat \ {0} /\ RunLimit \in Nat \ {0}
  /\ Hours \in Nat \ {0} /\ Oldest = Hours + TTL + 1 /\ Oldest \in Nat
  /\ NULL \notin Int
  BY DashboardAssumption, ChartsAssumption DEF Oldest

LEMMA ExtendsItself == \A db : Extends(db, db)
  BY DEF Extends

LEMMA ExtendsTransitive ==
  ASSUME NEW a, NEW b, NEW c, Extends(a, b), Extends(b, c)
  PROVE  Extends(a, c)
  BY DEF Extends

\* The snapshots, as functions of their ages.
LEMMA LogType ==
  ASSUME LogOK
  PROVE  /\ \A a \in 0..(TTL + 1) : Snapshot(a) \in Db
         /\ \A a, b \in 0..(TTL + 1) :
              a <= b => Extends(Snapshot(a), Snapshot(b)) /\ Grown(Snapshot(a), Snapshot(b), b - a)
         /\ Now \in Tables
  <1>1. \A a \in 0..(TTL + 1) : a + 1 \in 1..(TTL + 2)
    BY Constants
  <1>2. \A i \in 1..(TTL + 2) : log[i] \in Db
    BY DEF LogOK
  <1>3. 1 \in 1..(TTL + 2)
    BY Constants
  <1>4. Now \in Tables
    BY <1>2, <1>3 DEF LogOK, Now, Db, Tables
  <1>5. ASSUME NEW a \in 0..(TTL + 1), NEW b \in 0..(TTL + 1), a <= b
        PROVE  Extends(Snapshot(a), Snapshot(b)) /\ Grown(Snapshot(a), Snapshot(b), b - a)
    <2>1. a + 1 <= b + 1 /\ (b + 1) - (a + 1) = b - a
      BY <1>5, Constants
    <2> QED
      BY <1>1, <2>1 DEF LogOK, Snapshot
  <1> QED
    BY <1>1, <1>2, <1>4, <1>5 DEF Snapshot

LEMMA GrownItself == \A db \in Db : Grown(db, db, 0)
  <1> SUFFICES ASSUME NEW db \in Db, NEW r \in RunIds
               PROVE  db.ago[r] <= db.ago[r] /\ db.ago[r] <= db.ago[r] + 0
    BY DEF Grown, Opened
  <1>1. db.ago[r] \in Nat
    BY Constants DEF Db
  <1> QED
    BY <1>1

LEMMA InitLog == Init => LogOK
  <1> SUFFICES ASSUME Init PROVE LogOK
    OBVIOUS
  <1> DEFINE first == [prices |-> prices, runs |-> runs, ago |-> [r \in RunIds |-> Oldest]]
  <1>1. Raw!Absent \in Row /\ [Raw!Absent EXCEPT !.status = "running"] \in Row
    BY DEF Raw!Absent, Row
  <1>2. prices \in [Series -> [Ts -> 0..MaxRev]]
    <2>1. 0 \in 0..MaxRev /\ 1 \in 0..MaxRev
      BY Constants
    <2> QED
      BY <2>1 DEF Init, Raw!RawInit
  <1>3. runs \in [RunIds -> Row]
    BY <1>1 DEF Init, Raw!RawInit
  <1>4. first \in Db
    <2>1. Oldest \in 0..Oldest
      BY Constants
    <2> QED
      BY <1>2, <1>3, <2>1 DEF Db
  <1>5. log = [i \in 1..(TTL + 2) |-> first]
    BY DEF Init
  <1>6. log \in Seq(Db) /\ Len(log) = TTL + 2 /\ \A i \in 1..(TTL + 2) : log[i] = first
    <2> HIDE DEF first
    <2> QED
      BY <1>4, <1>5, Constants
  <1>7. 1 \in 1..(TTL + 2)
    BY Constants
  <1>8. ASSUME NEW i \in 1..(TTL + 2), NEW k \in 1..(TTL + 2), i <= k
        PROVE  Extends(log[i], log[k]) /\ Grown(log[i], log[k], k - i)
    <2>1. k - i \in Nat
      BY <1>8, Constants
    <2>2. \A r \in RunIds : first.ago[r] = Oldest
      OBVIOUS
    <2> HIDE DEF first
    <2>3. Grown(first, first, k - i)
      BY <2>1, <2>2, Constants DEF Grown, Opened
    <2> QED
      BY <1>6, <2>3, ExtendsItself
  <1> QED
    BY <1>6, <1>7, <1>8 DEF LogOK

\* One unit more for each run that had been opened.
LEMMA PassGrows ==
  ASSUME LogOK, Pass, Now' \in Tables
  PROVE  /\ log'[1] \in Db /\ log'[1].prices = prices' /\ log'[1].runs = runs'
         /\ Grown(log'[1], log[1], 1)
         /\ log' \in Seq(Db) /\ Len(log') = TTL + 2
         /\ \A i \in 2..(TTL + 2) : log'[i] = log[i - 1]
  <1> DEFINE ago == [r \in RunIds |-> IF r \in Opened(log[1]) THEN Older(log[1].ago[r]) ELSE 0]
             new == [prices |-> prices', runs |-> runs', ago |-> ago]
  <1>1. log' = <<new>> \o SubSeq(log, 1, TTL + 1)
    BY DEF Pass
  <1>2. log[1] \in Db
    BY Constants DEF LogOK
  <1>3. \A r \in RunIds : log[1].ago[r] \in 0..Oldest
    BY <1>2 DEF Db
  <1>4. \A a \in 0..Oldest : Older(a) \in 0..Oldest /\ a <= Older(a) /\ Older(a) <= a + 1
    BY Constants DEF Older
  <1>5. \A r \in RunIds : ago[r] \in 0..Oldest
    BY <1>3, <1>4, Constants
  <1>6. new \in Db
    BY <1>5 DEF Now, Tables, Db
  <1>7. Grown(new, log[1], 1)
    BY <1>3, <1>4 DEF Grown, Opened
  <1>8. new.prices = prices' /\ new.runs = runs'
    OBVIOUS
  <1> HIDE DEF new
  <1>9. SubSeq(log, 1, TTL + 1) \in Seq(Db) /\ Len(SubSeq(log, 1, TTL + 1)) = TTL + 1
        /\ \A i \in 1..(TTL + 1) : SubSeq(log, 1, TTL + 1)[i] = log[i]
    BY Constants DEF LogOK
  <1>10. log' \in Seq(Db) /\ Len(log') = TTL + 2 /\ log'[1] = new
         /\ \A i \in 2..(TTL + 2) : log'[i] = log[i - 1]
    BY <1>1, <1>6, <1>9, Constants
  <1> QED
    BY <1>6, <1>7, <1>8, <1>10

LEMMA PassLog ==
  ASSUME LogOK, Pass, Now' \in Tables, Extends(Now', Now)
  PROVE  LogOK'
  <1>1. log' \in Seq(Db) /\ Len(log') = TTL + 2
        /\ log'[1].prices = prices' /\ log'[1].runs = runs'
        /\ \A i \in 2..(TTL + 2) : log'[i] = log[i - 1]
    BY PassGrows
  <1>2. log'[1] \in Db /\ Extends(log'[1], log[1]) /\ Grown(log'[1], log[1], 1)
    BY PassGrows DEF LogOK, Extends, Now, Stored, Opened, Failed
  <1>3. \A i \in 1..(TTL + 2) : log[i] \in Db
    BY DEF LogOK
  <1>4. ASSUME NEW i \in 1..(TTL + 2), NEW k \in 1..(TTL + 2), i <= k
        PROVE  Extends(log'[i], log'[k]) /\ Grown(log'[i], log'[k], k - i)
    <2>1. CASE i = 1 /\ k = 1
      BY <1>2, <2>1, ExtendsItself, GrownItself
    <2>2. CASE i = 1 /\ k # 1
      <3>1. k \in 2..(TTL + 2) /\ k - 1 \in 1..(TTL + 2) /\ 1 \in 1..(TTL + 2) /\ 1 <= k - 1
        BY <2>2, Constants
      <3>2. Extends(log[1], log[k - 1]) /\ Grown(log[1], log[k - 1], (k - 1) - 1)
        BY <3>1 DEF LogOK
      <3>3. log'[k] = log[k - 1]
        BY <1>1, <3>1
      <3>4. Extends(log'[1], log[k - 1])
        BY <1>2, <3>2, ExtendsTransitive
      <3>5. Grown(log'[1], log[k - 1], k - 1)
        <4> SUFFICES ASSUME NEW r \in Opened(log[k - 1])
                     PROVE  /\ log[k - 1].ago[r] <= log'[1].ago[r]
                            /\ log'[1].ago[r] <= log[k - 1].ago[r] + (k - 1)
          BY DEF Grown
        <4>1. r \in RunIds /\ r \in Opened(log[1])
          BY <3>2 DEF Extends, Opened
        <4>2. log[k - 1].ago[r] \in Nat /\ log[1].ago[r] \in Nat /\ log'[1].ago[r] \in Nat
          BY <1>2, <1>3, <3>1, <4>1, Constants DEF Db
        <4>3. /\ log[k - 1].ago[r] <= log[1].ago[r]
              /\ log[1].ago[r] <= log[k - 1].ago[r] + ((k - 1) - 1)
          BY <3>2 DEF Grown
        <4>4. log[1].ago[r] <= log'[1].ago[r] /\ log'[1].ago[r] <= log[1].ago[r] + 1
          BY <1>2, <4>1 DEF Grown
        <4> QED
          BY <3>1, <4>2, <4>3, <4>4
      <3> QED
        BY <2>2, <3>3, <3>4, <3>5
    <2>3. CASE i # 1
      <3>1. i \in 2..(TTL + 2) /\ k \in 2..(TTL + 2) /\ i - 1 <= k - 1
            /\ i - 1 \in 1..(TTL + 2) /\ k - 1 \in 1..(TTL + 2) /\ (k - 1) - (i - 1) = k - i
        BY <1>4, <2>3, Constants
      <3> QED
        BY <1>1, <3>1 DEF LogOK
    <2> QED
      BY <2>1, <2>2, <2>3
  <1> QED
    BY <1>1, <1>4 DEF LogOK

\* A transaction of the raw layer extends the tables.
LEMMA WriteExtends ==
  ASSUME Now \in Tables, NEW s \in Series, Raw!Write(s)
  PROVE  Now' \in Tables /\ Extends(Now', Now)
  <1> USE DEF Now, Tables
  <1>1. PICK new \in [Ts -> 0..MaxRev] :
          prices' = [prices EXCEPT ![s] = new] /\ \A t \in Ts : new[t] = 0 => prices[s][t] = 0
    BY DEF Raw!Write
  <1>2. runs' = runs /\ prices' \in [Series -> [Ts -> 0..MaxRev]]
    BY <1>1 DEF Raw!Write
  <1>3. \A q \in Series, t \in Ts : prices[q][t] > 0 => prices'[q][t] > 0
    <2> SUFFICES ASSUME NEW q \in Series, NEW t \in Ts, prices[q][t] > 0
                 PROVE  prices'[q][t] > 0
      OBVIOUS
    <2>1. CASE q = s
      <3>1. prices'[q][t] = new[t] /\ new[t] \in 0..MaxRev /\ new[t] # 0
        BY <1>1, <2>1
      <3> QED
        BY <3>1, Constants
    <2>2. CASE q # s
      BY <1>1, <2>2
    <2> QED
      BY <2>1, <2>2
  <1> QED
    BY <1>2, <1>3 DEF Extends, Stored, Opened, Failed

LEMMA AuditExtends ==
  ASSUME Now \in Tables, NEW r \in RunIds, Raw!Open(r) \/ Raw!Close(r) \/ Raw!Reclose(r)
  PROVE  Now' \in Tables /\ Extends(Now', Now)
  <1> USE DEF Now, Tables
  <1>1. runs \in [RunIds -> Row]
    OBVIOUS
  <1>2. prices' = prices
    BY DEF Raw!Open, Raw!Close, Raw!Reclose
  <1>3. PICK row \in Row :
          /\ runs' = [runs EXCEPT ![r] = row]
          /\ row.status # "absent" /\ (runs[r].status = "failed" => row.status = "failed")
    <2>1. CASE Raw!Open(r)
      <3> DEFINE row == [runs[r] EXCEPT !.status = "running"]
      <3>1. row \in Row /\ row.status = "running" /\ runs[r].status # "failed"
        BY <1>1, <2>1 DEF Row, Raw!Open
      <3>2. runs' = [runs EXCEPT ![r] = row]
        BY <1>1, <2>1 DEF Raw!Open
      <3> QED
        BY <3>1, <3>2
    <2>2. CASE Raw!Close(r)
      BY <1>1, <2>2 DEF Raw!Close, Row
    <2>3. CASE Raw!Reclose(r)
      <3> DEFINE row == [status |-> "failed", received |-> NULL, upserted |-> NULL]
      <3>1. row \in Row /\ row.status = "failed"
        BY DEF Row
      <3>2. runs' = [runs EXCEPT ![r] = row]
        BY <2>3 DEF Raw!Reclose
      <3> QED
        BY <3>1, <3>2
    <2> QED
      BY <2>1, <2>2, <2>3
  <1>4. runs' \in [RunIds -> Row] /\ \A q \in RunIds \ {r} : runs'[q] = runs[q]
    BY <1>1, <1>3
  <1>5. runs'[r] = row
    BY <1>1, <1>3
  <1> QED
    BY <1>2, <1>3, <1>4, <1>5 DEF Extends, Stored, Opened, Failed
-----------------------------------------------------------------------------
(* The caches. *)

LEMMA AgedType ==
  ASSUME NEW e \in Ages \cup {NULL}
  PROVE  Aged(e) \in Ages \cup {NULL} /\ (Aged(e) # NULL => e # NULL)
  BY Constants DEF Aged, Ages

LEMMA AgeType ==
  ASSUME AgesOK
  PROVE  /\ Age(covered) \in Ages /\ Age(listed) \in Ages /\ Age(counted) \in Ages
         /\ \A k : PriceAge(k) \in Ages
  <1>1. 0 \in Ages
    BY Constants DEF Ages
  <1> QED
    BY <1>1 DEF AgesOK, Age, PriceAge

LEMMA PassAges ==
  ASSUME AgesOK, Pass
  PROVE  AgesOK'
  <1>1. \A k \in DOMAIN loaded' : k.series \in Series /\ loaded'[k] \in Ages
    <2>1. loaded' = [k \in {q \in DOMAIN loaded : Aged(loaded[q]) # NULL} |-> Aged(loaded[k])]
      BY DEF Pass
    <2>2. \A k \in DOMAIN loaded : k.series \in Series /\ Aged(loaded[k]) \in Ages \cup {NULL}
      BY AgedType DEF AgesOK
    <2> QED
      BY <2>1, <2>2
  <1>2. covered' \in Ages \cup {NULL} /\ listed' \in Ages \cup {NULL} /\ counted' \in Ages \cup {NULL}
    BY AgedType DEF AgesOK, Pass
  <1> QED
    BY <1>1, <1>2 DEF AgesOK

\* Loading makes no age but 0, and leaves the ages of what is loaded.
LEMMA LoadAges ==
  ASSUME AgesOK, NEW keys, \A k \in keys : k.series \in Series, Load(keys)
  PROVE  /\ \A k \in DOMAIN loaded' : k.series \in Series /\ loaded'[k] \in Ages
         /\ \A k \in keys : PriceAge(k)' = PriceAge(k)
  <1>1. loaded' = [k \in DOMAIN loaded \cup keys |-> PriceAge(k)]
    BY DEF Load
  <1>2. \A k : PriceAge(k) \in Ages
    BY AgeType
  <1>3. \A k \in keys : PriceAge(k)' = IF k \in DOMAIN loaded' THEN loaded'[k] ELSE 0
    BY DEF PriceAge
  <1>4. \A k \in DOMAIN loaded \cup keys : k.series \in Series
    BY DEF AgesOK
  <1> QED
    BY <1>1, <1>2, <1>3, <1>4
-----------------------------------------------------------------------------
(* Windows. *)

\* What the dates of a window are made of has a least and a greatest element.
LEMMA MinMax ==
  ASSUME NEW S \in SUBSET Int, IsFiniteSet(S), S # {}
  PROVE  /\ Min(S) \in S /\ \A x \in S : Min(S) <= x
         /\ Max(S) \in S /\ \A x \in S : x <= Max(S)
  <1>1. (\E m \in S : \A n \in S : m <= n) /\ \E m \in S : \A n \in S : m >= n
    BY FiniteExtremes
  <1> QED
    BY <1>1 DEF Min, Max

LEMMA StoredType ==
  ASSUME NEW db, NEW s
  PROVE  Stored(db, s) \in SUBSET Ts /\ Stored(db, s) \in SUBSET Int /\ IsFiniteSet(Stored(db, s))
  <1>1. Stored(db, s) \subseteq Ts /\ Ts \subseteq Int /\ IsFiniteSet(Ts)
    BY DashboardAssumption DEF Stored
  <1> QED
    BY <1>1, FS_Subset

LEMMA SpanType ==
  ASSUME NEW db, NEW s
  PROVE  /\ s \notin Covered(db) => Span(db, s) = <<NULL, NULL>>
         /\ s \in Covered(db) =>
              /\ Span(db, s) \in (0..Today) \X (0..Today)
              /\ Span(db, s)[1] <= Span(db, s)[2]
              /\ \A t \in Stored(db, s) : Span(db, s)[1] <= Day[t] /\ Day[t] <= Span(db, s)[2]
              /\ \E t \in Stored(db, s) : Day[t] = Span(db, s)[1]
              /\ \E t \in Stored(db, s) : Day[t] = Span(db, s)[2]
  <1> SUFFICES ASSUME s \in Covered(db)
               PROVE  /\ Span(db, s) \in (0..Today) \X (0..Today)
                      /\ Span(db, s)[1] <= Span(db, s)[2]
                      /\ \A t \in Stored(db, s) : Span(db, s)[1] <= Day[t] /\ Day[t] <= Span(db, s)[2]
                      /\ \E t \in Stored(db, s) : Day[t] = Span(db, s)[1]
                      /\ \E t \in Stored(db, s) : Day[t] = Span(db, s)[2]
    BY DEF Span
  <1> DEFINE S == Stored(db, s)
             a == Min(S)
             b == Max(S)
  <1>1. S # {} /\ Span(db, s) = <<Day[a], Day[b]>>
    BY DEF Span, Covered
  <1>2. S \in SUBSET Ts /\ S \in SUBSET Int /\ IsFiniteSet(S)
    BY StoredType
  <1> HIDE DEF S
  <1>3. a \in S /\ b \in S /\ \A t \in S : a <= t /\ t <= b
    BY <1>1, <1>2, MinMax
  <1> HIDE DEF a, b
  <1>4. \A t, u \in Ts : t <= u => Day[t] <= Day[u]
    <2> SUFFICES ASSUME NEW t \in Ts, NEW u \in Ts, t <= u PROVE Day[t] <= Day[u]
      OBVIOUS
    <2>1. CASE t = u
      BY <2>1, DashboardAssumption
    <2>2. CASE t # u
      <3>1. t < u
        BY <2>2, DashboardAssumption
      <3> QED
        BY <3>1, DashboardAssumption
    <2> QED
      BY <2>1, <2>2
  <1>5. \A t \in Ts : Day[t] \in 0..Today
    BY DashboardAssumption
  <1> QED
    BY <1>1, <1>2, <1>3, <1>4, <1>5 DEF S

LEMMA OpeningType ==
  ASSUME NEW a \in Int \cup {NULL}, NEW b \in Int \cup {NULL}
  PROVE  LET o == Opening(<<a, b>>)
         IN  /\ o \in Int \X Int
             /\ a # NULL /\ b # NULL => o = <<IF b - Window <= a THEN a ELSE b - Window, b>>
  <1> DEFINE last  == Or(b, Today)
             first == Or(a, last)
  <1>1. last \in Int /\ first \in Int /\ last - Window \in Int
    BY DashboardAssumption, ChartsAssumption DEF Or
  <1>2. Opening(<<a, b>>) = <<Max({first, last - Window}), last>>
    BY DEF Opening, DefaultRange
  <1>3. Max({first, last - Window}) = IF last - Window <= first THEN first ELSE last - Window
    <2> DEFINE S == {first, last - Window}
    <2>1. S \in SUBSET Int /\ S # {} /\ IsFiniteSet(S)
      <3>1. IsFiniteSet({first}) /\ IsFiniteSet({first} \cup {last - Window})
        BY FS_Singleton, FS_AddElement
      <3> QED
        BY <1>1, <3>1
    <2>2. Max(S) \in S /\ \A x \in S : x <= Max(S)
      BY <2>1, MinMax
    <2> QED
      BY <1>1, <2>2
  <1>4. a # NULL /\ b # NULL => first = a /\ last = b
    BY DEF Or
  <1> QED
    BY <1>1, <1>2, <1>3, <1>4

LEMMA WindowType ==
  ASSUME NEW db, NEW s
  PROVE  Opening(Span(db, s)) \in Int \X Int
  <1>1. PICK a \in Int \cup {NULL}, b \in Int \cup {NULL} : Span(db, s) = <<a, b>>
    <2>1. CASE s \notin Covered(db)
      BY <2>1, SpanType
    <2>2. CASE s \in Covered(db)
      <3>1. Span(db, s) \in (0..Today) \X (0..Today)
        BY <2>2, SpanType
      <3>2. Span(db, s) = <<Span(db, s)[1], Span(db, s)[2]>>
            /\ Span(db, s)[1] \in Int /\ Span(db, s)[2] \in Int
        BY <3>1
      <3> QED
        BY <3>2
    <2> QED
      BY <2>1, <2>2
  <1>2. Opening(<<a, b>>) \in Int \X Int
    BY OpeningType
  <1> QED
    BY <1>1, <1>2

LEMMA UnionWindowType ==
  ASSUME NEW db, NEW some
  PROVE  Opening(UnionSpan(db, some)) \in Int \X Int
  <1> DEFINE rows   == some \cap Covered(db)
             firsts == {Span(db, s)[1] : s \in rows}
             lasts  == {Span(db, s)[2] : s \in rows}
  <1>1. CASE rows = {}
    <2>1. UnionSpan(db, some) = <<NULL, NULL>>
      BY <1>1 DEF UnionSpan
    <2> QED
      BY <2>1, OpeningType
  <1>2. CASE rows # {}
    <2>1. UnionSpan(db, some) = <<Min(firsts), Max(lasts)>>
      BY <1>2 DEF UnionSpan
    <2>2. firsts \subseteq 0..Today /\ lasts \subseteq 0..Today /\ firsts # {} /\ lasts # {}
      BY <1>2, SpanType
    <2>3. IsFiniteSet(0..Today) /\ 0..Today \subseteq Int
      BY FS_Interval, DashboardAssumption
    <2>4. IsFiniteSet(firsts) /\ IsFiniteSet(lasts)
      BY <2>2, <2>3, FS_Subset
    <2> HIDE DEF firsts, lasts
    <2>5. Min(firsts) \in Int /\ Max(lasts) \in Int
      BY <2>2, <2>3, <2>4, MinMax
    <2> QED
      BY <2>1, <2>5, OpeningType
  <1> QED
    BY <1>1, <1>2
-----------------------------------------------------------------------------
(* Results. *)

LEMMA RangeType ==
  ASSUME NEW db, NEW s, NEW range \in Int \X Int
  PROVE  /\ InRange(db, s, range[1], End(range[2])) =
              {t \in Stored(db, s) : Day[t] \in range[1]..range[2]}
         /\ InRange(db, s, range[1], End(range[2])) \in SUBSET Nat
         /\ IsFiniteSet(InRange(db, s, range[1], End(range[2])))
  <1> DEFINE S == Stored(db, s)
  <1>1. S \subseteq Ts /\ IsFiniteSet(S) /\ S \subseteq Nat
    BY StoredType, DashboardAssumption
  <1>2. \A t \in S : Day[t] \in Int
    BY <1>1, DashboardAssumption
  <1> HIDE DEF S
  <1>3. \A t \in S : range[1] <= Day[t] /\ Day[t] < range[2] + 1 <=> Day[t] \in range[1]..range[2]
    BY <1>2
  <1>4. InRange(db, s, range[1], End(range[2])) =
          {t \in S : range[1] <= Day[t] /\ Day[t] < range[2] + 1}
    BY DEF InRange, End, S
  <1>5. InRange(db, s, range[1], End(range[2])) = {t \in S : Day[t] \in range[1]..range[2]}
    BY <1>3, <1>4
  <1>6. IsFiniteSet({t \in S : Day[t] \in range[1]..range[2]})
    BY <1>1, FS_Subset
  <1> QED
    BY <1>1, <1>5, <1>6 DEF S

\* LIMIT: a result is cut off only if it is as long as the limit, and not to nothing.
LEMMA HistoryType ==
  ASSUME NEW db, NEW s, NEW range \in Int \X Int
  PROVE  LET all  == InRange(db, s, range[1], End(range[2]))
             rows == History(db, s, range[1], End(range[2]))
         IN  /\ rows \subseteq all
             /\ AtLimit(rows) \/ rows = all
             /\ all # {} => rows # {}
  <1> DEFINE all  == InRange(db, s, range[1], End(range[2]))
             rows == History(db, s, range[1], End(range[2]))
             before(t) == {u \in all : u < t}
  <1>1. rows = {t \in all : Cardinality(before(t)) < MaxRows}
    BY DEF History
  <1>2. all \in SUBSET Nat /\ IsFiniteSet(all)
    BY RangeType
  <1> HIDE DEF all, rows
  <1>3. rows \subseteq all /\ IsFiniteSet(rows) /\ Cardinality(rows) \in Nat
    BY <1>1, <1>2, FS_Subset, FS_CardinalityType
  <1>4. \A t \in all : IsFiniteSet(before(t)) /\ Cardinality(before(t)) \in Nat
    BY <1>2, FS_Subset, FS_CardinalityType
  <1>5. ASSUME rows # all PROVE AtLimit(rows)
    <2>1. all \ rows \in SUBSET Nat /\ all \ rows # {}
      BY <1>2, <1>3, <1>5
    <2>2. PICK t \in all \ rows : \A u \in all \ rows : t <= u
      BY <2>1, LeastExists
    <2>3. before(t) \subseteq rows
      <3>1. ASSUME NEW u \in before(t), u \notin rows PROVE FALSE
        <4>1. u \in all \ rows /\ u < t /\ u \in Nat /\ t \in Nat
          BY <1>2, <3>1, <2>2
        <4>2. t <= u
          BY <2>2, <4>1
        <4> QED
          BY <4>1, <4>2
      <3> QED
        BY <3>1
    <2>4. Cardinality(before(t)) >= MaxRows
      BY <1>1, <1>4, <2>2, Constants
    <2>5. Cardinality(before(t)) <= Cardinality(rows)
      BY <1>3, <2>3, FS_Subset
    <2>6. Cardinality(before(t)) \in Nat
      BY <1>4, <2>2
    <2> QED
      BY <1>3, <2>4, <2>5, <2>6, Constants DEF AtLimit
  <1>6. ASSUME all # {} PROVE rows # {}
    <2>1. PICK t \in all : \A u \in all : t <= u
      BY <1>2, <1>6, LeastExists
    <2>2. before(t) = {}
      <3>1. \A u \in all : ~(u < t)
        BY <1>2, <2>1
      <3> QED
        BY <3>1
    <2>3. Cardinality(before(t)) = 0
      BY <2>2, FS_EmptySet
    <2> QED
      BY <1>1, <2>1, <2>3, Constants
  <1> QED
    BY <1>3, <1>5, <1>6 DEF all, rows
-----------------------------------------------------------------------------
(* The picker.  Parts of the code are folds over a sequence here, and each  *)
(* is known by its intermediate results.                                   *)

\* One group, sorted by name.
Sorted(group) == CHOOSE list \in SetToSeqs(group) :
                   \A i, k \in 1..Len(list) : i < k => NameOf[list[i]] <= NameOf[list[k]]

\* The members of a finite set can be listed in the order of their names: a last one
\* after a list of the others.
LEMMA SortedExists ==
  ASSUME NEW S \in SUBSET Symbols
  PROVE  \E list \in SetToSeqs(S) :
           \A i, k \in 1..Len(list) : i < k => NameOf[list[i]] <= NameOf[list[k]]
  <1> DEFINE ByName(list) == \A i, k \in 1..Len(list) : i < k => NameOf[list[i]] <= NameOf[list[k]]
             Sortable(R) == \E list \in SetToSeqs(R) : ByName(list)
             G == {n \in 0..Cardinality(S) : \A R \in SUBSET S : Cardinality(R) = n => Sortable(R)}
  <1>1. IsFiniteSet(S) /\ Cardinality(S) \in Nat /\ \A R \in SUBSET S : IsFiniteSet(R)
    BY FS_Subset, FS_CardinalityType, DashboardAssumption
  <1>2. 0 \in G
    <2>1. ASSUME NEW R \in SUBSET S, Cardinality(R) = 0 PROVE Sortable(R)
      <3>1. R = {}
        BY <1>1, <2>1, FS_EmptySet
      <3>2. <<>> \in [1..0 -> {}] /\ 1..0 = {} /\ Len(<<>>) = 0
        OBVIOUS
      <3>3. <<>> \in SetToSeqs({}) /\ ByName(<<>>)
        BY <3>2, FS_EmptySet DEF SetToSeqs
      <3> QED
        BY <3>1, <3>3
    <2> HIDE DEF Sortable
    <2> QED
      BY <1>1, <2>1
  <1>3. ASSUME NEW n \in 1..Cardinality(S), n - 1 \in G PROVE n \in G
    <2>1. ASSUME NEW R \in SUBSET S, Cardinality(R) = n PROVE Sortable(R)
      <3>1. R # {} /\ n \in Nat \ {0}
        BY <1>1, <2>1, FS_EmptySet
      <3>2. PICK m \in R : \A s \in R : NameOf[s] <= NameOf[m]
        <4> DEFINE Before == {p \in R \X R : NameOf[p[1]] <= NameOf[p[2]]}
        <4>1. \A x, y \in R : <<x, y>> \in Before <=> NameOf[x] <= NameOf[y]
          OBVIOUS
        <4>2. \A s \in R : NameOf[s] \in Nat
          BY DashboardAssumption
        <4> HIDE DEF Before
        <4>3. /\ \A x, y \in R : <<x, y>> \in Before \/ <<y, x>> \in Before
              /\ \A x, y, z \in R : <<x, y>> \in Before /\ <<y, z>> \in Before => <<x, z>> \in Before
          BY <4>1, <4>2
        <4>4. \E m \in R : \A x \in R : <<x, m>> \in Before
          BY <1>1, <3>1, <4>3, TopExists
        <4> QED
          BY <4>1, <4>4
      <3> DEFINE Rest == R \ {m}
      <3>3. Rest \in SUBSET S /\ Cardinality(Rest) = n - 1 /\ m \notin Rest
        BY <1>1, <2>1, FS_RemoveElement
      <3>4. PICK f \in SetToSeqs(Rest) : ByName(f)
        BY <1>3, <3>3
      <3> HIDE DEF Rest
      <3>5. f \in [1..(n - 1) -> Rest] /\ \A i, k \in 1..(n - 1) : i # k => f[i] # f[k]
        BY <3>3, <3>4 DEF SetToSeqs
      <3>6. Len(f) = n - 1
        BY <3>1, <3>5
      <3> DEFINE g == [i \in 1..n |-> IF i = n THEN m ELSE f[i]]
      <3>7. \A i \in 1..n : i = n \/ i \in 1..(n - 1)
        BY <3>1
      <3>8. Len(g) = n
        BY <3>1
      <3>9. g \in SetToSeqs(R)
        <4>1. \A i \in 1..(n - 1) : f[i] \in R /\ f[i] # m
          BY <3>3, <3>5 DEF Rest
        <4>2. g \in [1..n -> R]
          BY <3>7, <4>1
        <4>3. \A i, k \in 1..n : i # k => g[i] # g[k]
          BY <3>5, <3>7, <4>1
        <4> QED
          BY <2>1, <4>2, <4>3 DEF SetToSeqs
      <3>10. ASSUME NEW i \in 1..n, NEW k \in 1..n, i < k PROVE NameOf[g[i]] <= NameOf[g[k]]
        <4>1. i \in 1..(n - 1) /\ g[i] = f[i] /\ f[i] \in R
          BY <3>1, <3>3, <3>5, <3>7, <3>10 DEF Rest
        <4>2. CASE k = n
          BY <3>2, <4>1, <4>2
        <4>3. CASE k # n
          <5>1. k \in 1..(n - 1) /\ g[k] = f[k]
            BY <3>7, <4>3
          <5> QED
            BY <3>4, <3>6, <3>10, <4>1, <5>1
        <4> QED
          BY <4>2, <4>3
      <3>11. ByName(g)
        BY <3>8, <3>10
      <3> HIDE DEF ByName, g
      <3> QED
        BY <3>9, <3>11
    <2> HIDE DEF Sortable
    <2> QED
      BY <2>1
  <1> HIDE DEF G
  <1>4. Cardinality(S) \in G
    BY <1>1, <1>2, <1>3, CountUp
  <1> HIDE DEF Sortable
  <1>5. Sortable(S)
    BY <1>4 DEF G
  <1> QED
    BY <1>5 DEF Sortable

\* It has each of them once.
LEMMA SortedType ==
  ASSUME NEW S \in SUBSET Symbols
  PROVE  /\ Sorted(S) \in Seq(S)
         /\ \A s \in S : \E i \in 1..Len(Sorted(S)) : Sorted(S)[i] = s
         /\ \A i, k \in 1..Len(Sorted(S)) : i # k => Sorted(S)[i] # Sorted(S)[k]
  <1> DEFINE f == Sorted(S)
             n == Cardinality(S)
  <1>1. IsFiniteSet(S) /\ n \in Nat
    BY FS_Subset, FS_CardinalityType, DashboardAssumption
  <1>2. f \in SetToSeqs(S)
    BY SortedExists DEF Sorted
  <1> HIDE DEF f
  <1>3. f \in [1..n -> S] /\ \A i, k \in 1..n : i # k => f[i] # f[k]
    BY <1>2 DEF SetToSeqs
  <1>4. f \in Injection(1..n, S)
    BY <1>3 DEF Injection, IsInjective
  <1>5. Cardinality(1..n) = n
    BY <1>1, FS_Interval
  <1>6. f \in Surjection(1..n, S)
    BY <1>1, <1>4, <1>5, FS_Injection
  <1>7. \A s \in S : \E i \in 1..n : f[i] = s
    BY <1>6 DEF Surjection
  <1>8. f \in Seq(S) /\ Len(f) = n
    BY <1>1, <1>3
  <1> QED
    BY <1>3, <1>7, <1>8 DEF f

\* The picker's list after the first k classes.
LEMMA GroupsFold ==
  ASSUME NEW some \in SUBSET Symbols
  PROVE  \E list : /\ list[0] = <<>> /\ list[Len(ClassOrder)] = OrderedSymbols(some)
                   /\ \A k \in 1..Len(ClassOrder) : list[k] = list[k - 1] \o Sorted(Groups(some)[k])
  <1> DEFINE n == Len(ClassOrder)
             T == Seq(some)
             groups == Groups(some)
             step == [q \in T \X (1..n) |-> q[1] \o Sorted(groups[q[2]])]
             Eq(f) == f = [d \in SUBSET (DOMAIN groups) |->
                             IF d = {} THEN <<>>
                             ELSE LET x == Max(d) IN f[d \ {x}] \o Sorted(groups[x])]
             it == CHOOSE f : Eq(f)
             empty == <<>>
             list == [k \in 0..n |-> it[1..k]]
  <1>1. n \in Nat /\ DOMAIN groups = 1..n /\ \A k \in 1..n : groups[k] \in SUBSET some
    BY InstrumentsAssumption DEF Groups
  <1> HIDE DEF n, groups
  <1>2. step \in [T \X (1..n) -> T] /\ empty \in T
    <2>1. ASSUME NEW q \in T \X (1..n) PROVE q[1] \o Sorted(groups[q[2]]) \in T
      <3>1. q[1] \in Seq(some) /\ groups[q[2]] \in SUBSET some
        BY <1>1
      <3>2. Sorted(groups[q[2]]) \in Seq(groups[q[2]])
        BY <3>1, SortedType
      <3>3. Sorted(groups[q[2]]) \in Seq(some)
        BY <3>1, <3>2
      <3> QED
        BY <3>1, <3>3
    <2> QED
      BY <2>1
  <1> HIDE DEF T, step, empty
  <1>3. PICK h \in [SUBSET (1..n) -> T] : Folds(h, empty, step, n)
    BY <1>1, <1>2, FoldExists
  <1>4. \A d : Max(d) = Top(d)
    BY DEF Max, Top
  <1>5. Eq(h)
    <2>1. ASSUME NEW d \in SUBSET (1..n), d # {}
          PROVE  h[d] = h[d \ {Top(d)}] \o Sorted(groups[Top(d)])
      <3>1. Top(d) \in d
        BY <1>1, <2>1, FiniteTop
      <3>2. <<h[d \ {Top(d)}], Top(d)>> \in T \X (1..n)
        BY <3>1
      <3>3. h[d] = step[<<h[d \ {Top(d)}], Top(d)>>]
        BY <1>3, <2>1 DEF Folds
      <3> QED
        BY <3>2, <3>3 DEF step
    <2> QED
      BY <1>1, <1>3, <1>4, <2>1 DEF empty, Folds
  <1>6. Eq(it)
    BY <1>5
  <1>7. OrderedSymbols(some) = it[DOMAIN groups]
    BY DEF OrderedSymbols, FoldLeft, MapThenFoldSet, Sorted, groups
  <1> HIDE DEF it
  <1>8. \A d \in SUBSET (1..n) :
          it[d] = IF d = {} THEN <<>> ELSE it[d \ {Top(d)}] \o Sorted(groups[Top(d)])
    BY <1>1, <1>4, <1>6
  <1>9. ASSUME NEW k \in 1..n PROVE list[k] = list[k - 1] \o Sorted(groups[k])
    <2>1. 1..k \in SUBSET (1..n) /\ k \in Nat \ {0} /\ k - 1 \in 0..n /\ k \in 0..n
      BY <1>1
    <2>2. 1..k # {} /\ Top(1..k) = k /\ (1..k) \ {k} = 1..(k - 1)
      BY <2>1, TopOfPrefix
    <2> QED
      BY <1>8, <2>1, <2>2
  <1>10. list[0] = <<>> /\ list[n] = OrderedSymbols(some)
    <2>1. 1..0 = {} /\ 0 \in 0..n /\ n \in 0..n
      BY <1>1
    <2> QED
      BY <1>1, <1>7, <1>8, <2>1
  <1> HIDE DEF list
  <1> QED
    BY <1>9, <1>10 DEF n, groups

\* What the preset adds to a selection.
Picked(list, some, s) == IF s \in some THEN Append(list, s) ELSE list

\* The preset symbols among those that can be picked.
PresetOf(some) ==
  FoldLeft(LAMBDA list, s : IF s \in some THEN Append(list, s) ELSE list, <<>>, Preset)

LEMMA PresetType ==
  ASSUME NEW some
  PROVE  PresetOf(some) \in Seq(some)
  <1> DEFINE n == Len(Preset)
             T == Seq(some)
             step == [q \in T \X (1..n) |-> Picked(q[1], some, Preset[q[2]])]
             Eq(f) == f = [d \in SUBSET (DOMAIN Preset) |->
                             IF d = {} THEN <<>>
                             ELSE LET x == Max(d) IN Picked(f[d \ {x}], some, Preset[x])]
             it == CHOOSE f : Eq(f)
             empty == <<>>
  <1>1. n \in Nat /\ DOMAIN Preset = 1..n
    BY InstrumentsAssumption
  <1> HIDE DEF n
  <1>2. step \in [T \X (1..n) -> T] /\ empty \in T
    BY DEF Picked
  <1> HIDE DEF T, step, empty
  <1>3. PICK h \in [SUBSET (1..n) -> T] : Folds(h, empty, step, n)
    BY <1>1, <1>2, FoldExists
  <1>4. \A d : Max(d) = Top(d)
    BY DEF Max, Top
  <1>5. Eq(h)
    <2>1. ASSUME NEW d \in SUBSET (1..n), d # {}
          PROVE  h[d] = Picked(h[d \ {Top(d)}], some, Preset[Top(d)])
      <3>1. Top(d) \in d
        BY <1>1, <2>1, FiniteTop
      <3>2. <<h[d \ {Top(d)}], Top(d)>> \in T \X (1..n)
        BY <3>1
      <3>3. h[d] = step[<<h[d \ {Top(d)}], Top(d)>>]
        BY <1>3, <2>1 DEF Folds
      <3> QED
        BY <3>2, <3>3 DEF step
    <2> QED
      BY <1>1, <1>3, <1>4, <2>1 DEF empty, Folds
  <1>6. Eq(it)
    BY <1>5
  <1>7. PresetOf(some) = it[DOMAIN Preset]
    BY DEF PresetOf, FoldLeft, MapThenFoldSet, Picked
  <1> HIDE DEF it
  <1>8. \A d \in SUBSET (1..n) :
          it[d] = IF d = {} THEN <<>> ELSE Picked(it[d \ {Top(d)}], some, Preset[Top(d)])
    BY <1>1, <1>4, <1>6
  <1> DEFINE G == {k \in 0..n : it[1..k] \in T}
  <1>9. 0 \in G
    <2>1. 1..0 = {} /\ 0 \in 0..n
      BY <1>1
    <2> QED
      BY <1>2, <1>8, <2>1 DEF empty
  <1>10. ASSUME NEW k \in 1..n, k - 1 \in G PROVE k \in G
    <2>1. 1..k \in SUBSET (1..n) /\ k \in Nat \ {0} /\ k - 1 \in 0..n /\ k \in 0..n
      BY <1>1
    <2>2. 1..k # {} /\ Top(1..k) = k /\ (1..k) \ {k} = 1..(k - 1)
      BY <2>1, TopOfPrefix
    <2>3. it[1..k] = Picked(it[1..(k - 1)], some, Preset[k])
      BY <1>8, <2>1, <2>2
    <2>4. it[1..(k - 1)] \in T
      BY <1>10
    <2>5. it[1..k] \in T
      <3>1. CASE Preset[k] \in some
        <4>1. Append(it[1..(k - 1)], Preset[k]) \in T
          BY <2>4, <3>1 DEF T
        <4> QED
          BY <2>3, <3>1, <4>1 DEF Picked
      <3>2. CASE Preset[k] \notin some
        BY <2>3, <2>4, <3>2 DEF Picked
      <3> QED
        BY <3>1, <3>2
    <2> QED
      BY <2>1, <2>5
  <1> HIDE DEF G
  <1>11. n \in G
    BY <1>1, <1>9, <1>10, CountUp
  <1> QED
    BY <1>1, <1>7, <1>11 DEF G, T

\* A symbol's class is the one in place p.
Placed(s, p) == p \in 1..Len(ClassOrder) /\ ClassOrder[p] = AssetClass(s)

LEMMA PlacedOnce ==
  /\ \A s : \E p : Placed(s, p)
  /\ \A s, p, q : Placed(s, p) /\ Placed(s, q) => p = q
  <1>1. Len(ClassOrder) \in 1..Len(ClassOrder)
    BY InstrumentsAssumption
  <1> QED
    BY <1>1, InstrumentsAssumption DEF Placed, AssetClass, Other

\* The list has the symbols of the first n classes, once each, class by class.
Picker(list, some, n) ==
  /\ list \in Seq(some)
  /\ \A i \in 1..Len(list) : \E p \in 1..n : Placed(list[i], p)
  /\ \A s \in some, p \in 1..n : Placed(s, p) => \E i \in 1..Len(list) : list[i] = s
  /\ \A i, k \in 1..Len(list) : i < k =>
       /\ list[i] # list[k]
       /\ \A p, q : Placed(list[i], p) /\ Placed(list[k], q) => p <= q

LEMMA NextGroup ==
  ASSUME NEW some \in SUBSET Symbols, NEW n \in 1..Len(ClassOrder), NEW list, Picker(list, some, n - 1)
  PROVE  Picker(list \o Sorted(Groups(some)[n]), some, n)
  <1> DEFINE group == Groups(some)[n]
             new == Sorted(group)
             all == list \o new
  <1>1. n \in Nat \ {0} /\ Len(ClassOrder) \in Nat
    BY InstrumentsAssumption
  <1>2. group \in SUBSET some /\ \A s \in some : s \in group <=> Placed(s, n)
    BY DEF Groups, Placed
  <1>3. /\ new \in Seq(group)
        /\ \A s \in group : \E i \in 1..Len(new) : new[i] = s
        /\ \A i, k \in 1..Len(new) : i # k => new[i] # new[k]
    BY <1>2, SortedType
  <1> HIDE DEF group, new
  <1>4. list \in Seq(some) /\ new \in Seq(some) /\ Len(list) \in Nat /\ Len(new) \in Nat
    BY <1>2, <1>3 DEF Picker
  <1>5. /\ all \in Seq(some) /\ Len(all) = Len(list) + Len(new)
        /\ \A i \in 1..Len(list) : all[i] = list[i]
        /\ \A i \in 1..Len(new) : all[Len(list) + i] = new[i]
    BY <1>4
  <1> HIDE DEF all
  <1>6. ASSUME NEW i \in 1..Len(all)
        PROVE  \/ i \in 1..Len(list) /\ all[i] = list[i] /\ \E p \in 1..(n - 1) : Placed(all[i], p)
               \/ /\ i \notin 1..Len(list) /\ i - Len(list) \in 1..Len(new)
                  /\ all[i] = new[i - Len(list)] /\ Placed(all[i], n)
    <2>1. CASE i \in 1..Len(list)
      BY <1>5, <2>1 DEF Picker
    <2>2. CASE i \notin 1..Len(list)
      <3>1. i - Len(list) \in 1..Len(new) /\ i = Len(list) + (i - Len(list))
        BY <1>4, <1>5, <2>2
      <3>2. all[i] = new[i - Len(list)]
        BY <1>5, <3>1
      <3>3. new[i - Len(list)] \in group
        BY <1>3, <3>1
      <3> QED
        BY <1>2, <2>2, <3>1, <3>2, <3>3
    <2> QED
      BY <2>1, <2>2
  <1>7. \A p \in 1..(n - 1) : p \in 1..n /\ p < n
    BY <1>1
  <1>8. \A i \in 1..Len(all) : \E p \in 1..n : Placed(all[i], p)
    <2>1. n \in 1..n
      BY <1>1
    <2> QED
      BY <1>6, <1>7, <2>1
  <1>9. ASSUME NEW s \in some, NEW p \in 1..n, Placed(s, p)
        PROVE  \E i \in 1..Len(all) : all[i] = s
    <2>1. CASE p = n
      <3>1. PICK i \in 1..Len(new) : new[i] = s
        BY <1>2, <1>3, <1>9, <2>1
      <3>2. Len(list) + i \in 1..Len(all)
        BY <1>4, <1>5
      <3> QED
        BY <1>5, <3>1, <3>2
    <2>2. CASE p # n
      <3>1. p \in 1..(n - 1)
        BY <1>1, <2>2
      <3>2. PICK i \in 1..Len(list) : list[i] = s
        BY <1>9, <3>1 DEF Picker
      <3>3. i \in 1..Len(all)
        BY <1>4, <1>5
      <3> QED
        BY <1>5, <3>2, <3>3
    <2> QED
      BY <2>1, <2>2
  <1>10. ASSUME NEW i \in 1..Len(all), NEW k \in 1..Len(all), i < k
         PROVE  /\ all[i] # all[k]
                /\ \A p, q : Placed(all[i], p) /\ Placed(all[k], q) => p <= q
    <2>1. CASE k \in 1..Len(list)
      <3>1. i \in 1..Len(list) /\ all[i] = list[i] /\ all[k] = list[k]
        BY <1>4, <1>5, <1>10, <2>1
      <3> QED
        BY <1>10, <2>1, <3>1 DEF Picker
    <2>2. CASE k \notin 1..Len(list) /\ i \in 1..Len(list)
      <3>1. PICK p \in 1..(n - 1) : Placed(all[i], p)
        BY <1>6, <2>2
      <3>2. Placed(all[k], n) /\ p < n /\ p \in Int /\ n \in Int
        BY <1>1, <1>6, <2>2
      <3> QED
        BY <3>1, <3>2, PlacedOnce
    <2>3. CASE k \notin 1..Len(list) /\ i \notin 1..Len(list)
      <3> DEFINE a == i - Len(list)
                 b == k - Len(list)
      <3>1. a \in 1..Len(new) /\ b \in 1..Len(new) /\ all[i] = new[a] /\ all[k] = new[b]
        BY <1>6, <2>3
      <3>2. a # b
        BY <1>4, <1>10
      <3>3. Placed(all[i], n) /\ Placed(all[k], n) /\ n <= n
        BY <1>1, <1>6, <2>3
      <3> HIDE DEF a, b
      <3>4. all[i] # all[k]
        BY <1>3, <3>1, <3>2
      <3> QED
        BY <3>3, <3>4, PlacedOnce
    <2> QED
      BY <2>1, <2>2, <2>3
  <1>11. Picker(all, some, n)
    BY <1>5, <1>8, <1>9, <1>10 DEF Picker
  <1> QED
    BY <1>11 DEF all, new, group

LEMMA OrderedType ==
  ASSUME NEW some \in SUBSET Symbols
  PROVE  Picker(OrderedSymbols(some), some, Len(ClassOrder))
  <1>1. PICK list : /\ list[0] = <<>> /\ list[Len(ClassOrder)] = OrderedSymbols(some)
                    /\ \A k \in 1..Len(ClassOrder) : list[k] = list[k - 1] \o Sorted(Groups(some)[k])
    BY GroupsFold
  <1> DEFINE n == Len(ClassOrder)
             G == {k \in 0..n : Picker(list[k], some, k)}
  <1>2. n \in Nat
    BY InstrumentsAssumption
  <1>3. 0 \in G
    <2>1. <<>> \in Seq(some) /\ 1..Len(<<>>) = {} /\ 1..0 = {} /\ 0 \in 0..n
      BY <1>2
    <2>2. Picker(<<>>, some, 0)
      BY <2>1 DEF Picker
    <2> QED
      BY <1>1, <2>1, <2>2
  <1>4. ASSUME NEW k \in 1..n, k - 1 \in G PROVE k \in G
    <2>1. k \in 0..n
      BY <1>2
    <2> QED
      BY <1>1, <1>4, <2>1, NextGroup
  <1> HIDE DEF G, n
  <1>5. n \in G
    BY <1>2, <1>3, <1>4, CountUp
  <1> QED
    BY <1>1, <1>5 DEF G, n

\* The page to compare on opens with symbols that can be picked.
LEMMA SelectionType ==
  ASSUME NEW some, NEW list \in Seq(some)
  PROVE  DefaultSelection(list, MinCompare) \in Seq(some)
  <1> DEFINE those == {list[i] : i \in 1..Len(list)}
             preset == PresetOf(those)
             n == IF Len(list) < MinCompare THEN Len(list) ELSE MinCompare
  <1>1. preset \in Seq(those) /\ those \subseteq some
    BY PresetType
  <1> HIDE DEF those, preset
  <1>2. preset \in Seq(some)
    BY <1>1
  <1>3. SubSeq(list, 1, n) \in Seq(some)
    <2>1. n \in 0..Len(list)
      BY DashboardAssumption
    <2> HIDE DEF n
    <2> QED
      BY <2>1
  <1>4. DefaultSelection(list, MinCompare) = IF Len(preset) = MinCompare THEN preset ELSE SubSeq(list, 1, n)
    BY DEF DefaultSelection, PresetOf, preset, those
  <1> HIDE DEF n
  <1> QED
    BY <1>2, <1>3, <1>4
-----------------------------------------------------------------------------
(* The inductive invariant. *)

LEMMA InitIInv == Init => IInv
  <1> SUFFICES ASSUME Init PROVE IInv
    OBVIOUS
  <1>1. AgesOK
    BY DEF Init, AgesOK
  <1>2. page.tab = "none"
    BY DEF Init, Nothing
  <1> QED
    BY <1>1, <1>2, InitLog DEF IInv, TabOK, PricesPage, ComparePage, HealthPage, ChartPage

LEMMA PassIInv ==
  ASSUME IInv, Pass, Now' \in Tables, Extends(Now', Now)
  PROVE  IInv'
  <1>1. page'.tab = "none"
    BY DEF Pass, Nothing
  <1> QED
    BY <1>1, PassLog, PassAges DEF IInv, TabOK, PricesPage, ComparePage, HealthPage, ChartPage

LEMMA TransactionIInv ==
  ASSUME IInv, \/ Quiet
               \/ \E s \in Series : Commit(s)
               \/ \E r \in RunIds : Audit(r)
  PROVE  IInv'
  <1>1. Pass
    BY DEF Quiet, Commit, Audit
  <1>2. Now \in Tables
    BY LogType DEF IInv
  <1>3. CASE Quiet
    <2>1. Now' = Now
      BY <1>3 DEF Quiet, Now
    <2> QED
      BY <1>1, <1>2, <2>1, PassIInv, ExtendsItself
  <1>4. ASSUME NEW s \in Series, Commit(s) PROVE IInv'
    BY <1>1, <1>2, <1>4, PassIInv, WriteExtends DEF Commit
  <1>5. ASSUME NEW r \in RunIds, Audit(r) PROVE IInv'
    BY <1>1, <1>2, <1>5, PassIInv, AuditExtends DEF Audit
  <1> QED
    BY <1>3, <1>4, <1>5

LEMMA LogKept ==
  ASSUME LogOK, UNCHANGED <<prices, runs, log>>
  PROVE  LogOK'
  BY DEF LogOK, Now

LEMMA PricesIInv ==
  ASSUME IInv, NEW s \in Series, NEW picked \in Picks \cup {NULL}, RenderPrices(s, picked)
  PROVE  IInv'
  <1>1. PICK age \in Ages, range \in Int \X Int :
          /\ UNCHANGED <<prices, runs, log, listed, counted>> /\ covered' = age
          /\ Load({Key(s, range)})
          /\ page'.tab = "prices" /\ page'.series = s /\ page'.range = range
          /\ page'.ages = <<age, PriceAge(Key(s, range))>>
          /\ page'.opening => range = Opening(Span(Snapshot(age), s))
          /\ page'.offered = Offered(Snapshot(age))
          /\ page'.rows = FrameOf(s, range) /\ page'.warned = AtLimit(page'.rows)
    <2> DEFINE a == Age(covered)
               r == IF picked = NULL THEN Opening(Span(Snapshot(a), s)) ELSE picked
    <2>1. a \in Ages
      BY AgeType DEF IInv
    <2>2. r \in Int \X Int
      BY WindowType, DashboardAssumption
    <2>3. /\ UNCHANGED <<prices, runs, log, listed, counted>> /\ covered' = a
          /\ Load({Key(s, r)})
          /\ page'.tab = "prices" /\ page'.series = s /\ page'.range = r
          /\ page'.ages = <<a, PriceAge(Key(s, r))>>
          /\ page'.opening = (picked = NULL) /\ page'.offered = Offered(Snapshot(a))
      BY DEF RenderPrices
    <2>4. page'.rows = FrameOf(s, r) /\ page'.warned = AtLimit(page'.rows)
      BY DEF RenderPrices, FrameOf, Key
    <2>5. page'.opening => r = Opening(Span(Snapshot(a), s))
      BY <2>3
    <2> HIDE DEF a, r
    <2> QED
      BY <2>1, <2>2, <2>3, <2>4, <2>5
  <1> DEFINE k == Key(s, range)
  <1>2. LogOK'
    BY <1>1, LogKept DEF IInv
  <1>3. PriceAge(k)' = PriceAge(k) /\ \A q \in DOMAIN loaded' : q.series \in Series /\ loaded'[q] \in Ages
    <2>1. \A q \in {k} : q.series \in Series
      BY DEF Key
    <2> QED
      BY <1>1, <2>1, LoadAges DEF IInv
  <1>4. AgesOK'
    BY <1>1, <1>3 DEF IInv, AgesOK
  <1>5. FrameOf(s, range)' = FrameOf(s, range)
    BY <1>1, <1>3 DEF FrameOf, Snapshot
  <1>6. Snapshot(age)' = Snapshot(age) /\ Offered(Snapshot(age))' = Offered(Snapshot(age))
    BY <1>1 DEF Snapshot
  <1>7. PricesPage'
    <2>1. page'.series \in Series /\ page'.range \in Int \X Int /\ page'.ages[1] = age
      BY <1>1
    <2>2. page'.ages[2] = PriceAge(Key(page.series, page.range))'
      BY <1>1, <1>3
    <2>3. page'.opening => page'.range = Opening(Span(Snapshot(page.ages[1]), page.series))'
      BY <1>1, <1>6, <2>1
    <2>4. page'.rows = FrameOf(page.series, page.range)'
      BY <1>1, <1>5
    <2>5. page'.offered = Offered(Snapshot(page.ages[1]))'
      BY <1>1, <1>6, <2>1
    <2> QED
      BY <1>1, <2>1, <2>2, <2>3, <2>4, <2>5 DEF PricesPage
  <1> QED
    BY <1>1, <1>2, <1>4, <1>7 DEF IInv, TabOK, ComparePage, HealthPage, ChartPage

\* What RenderCompare draws, of some selection and range.
Drawn(selected, age, range) ==
  /\ UNCHANGED <<prices, runs, log, listed, counted>> /\ covered' = age
  /\ \/ page'.tab = "too few" /\ UNCHANGED loaded
     \/ /\ Load({Key(s, range) : s \in selected})
        /\ page'.tab \in {"compare", "not enough"}
        /\ page'.selected = selected /\ page'.range = range
        /\ page'.empty = {s \in selected : FrameOf(s, range) = {}}
        /\ page'.tab = "compare" =>
             /\ \A s \in selected \ page'.empty : page'.frames[s] = FrameOf(s, range)
             /\ page'.warned = \E s \in selected \ page'.empty : AtLimit(page'.frames[s])

LEMMA CompareDraws ==
  ASSUME IInv, NEW i \in Intervals, RenderCompare(i)
  PROVE  \E selected \in SUBSET Series : \E age \in Ages, range \in Int \X Int : Drawn(selected, age, range)
  <1> DEFINE a == Age(covered)
             symbols == DefaultSelection(Offered(Snapshot(a)), MinCompare)
             sel == {<<symbols[n], i>> : n \in 1..Len(symbols)}
             r == Opening(UnionSpan(Snapshot(a), sel))
             results == [s \in sel |-> LET k == Key(s, r)
                                       IN  History(Snapshot(PriceAge(k)), s, k.start, k.end)]
             none == {s \in sel : results[s] = {}}
             frames == [s \in sel \ none |-> results[s]]
  <1>1. a \in Ages
    BY AgeType DEF IInv
  <1>2. r \in Int \X Int
    BY UnionWindowType
  <1>3. UNCHANGED <<prices, runs, log, listed, counted>> /\ covered' = a
    BY DEF RenderCompare
  <1>4. \/ page' = [tab |-> "too few"] /\ UNCHANGED loaded
        \/ /\ Load({Key(s, r) : s \in sel})
           /\ \/ page' = [tab |-> "not enough", selected |-> sel, range |-> r, empty |-> none]
              \/ page' = [tab |-> "compare", selected |-> sel, range |-> r, empty |-> none,
                          frames |-> frames, warned |-> \E s \in sel \ none : AtLimit(results[s])]
    BY DEF RenderCompare
  <1>5. \A s \in sel : results[s] = FrameOf(s, r)
    BY DEF FrameOf, Key
  <1>6. sel \in SUBSET Series
    <2>1. {s[1] : s \in Covered(Snapshot(a))} \in SUBSET Symbols
      BY DEF Covered, Series
    <2>2. Offered(Snapshot(a)) \in Seq(Symbols)
      BY <2>1, OrderedType DEF Offered, Picker
    <2>3. symbols \in Seq(Symbols)
      BY <2>2, SelectionType
    <2> HIDE DEF symbols
    <2> QED
      BY <2>3 DEF Series
  <1> HIDE DEF a, sel, r, results
  <1>7. none = {s \in sel : FrameOf(s, r) = {}}
    BY <1>5
  <1>8. \A s \in sel \ none : frames[s] = FrameOf(s, r) /\ frames[s] = results[s]
    BY <1>5
  <1> HIDE DEF none, frames
  <1>9. Drawn(sel, a, r)
    <2>1. CASE page' = [tab |-> "too few"] /\ UNCHANGED loaded
      BY <1>3, <2>1 DEF Drawn
    <2>2. CASE /\ Load({Key(s, r) : s \in sel})
               /\ page' = [tab |-> "not enough", selected |-> sel, range |-> r, empty |-> none]
      BY <1>3, <1>7, <2>2 DEF Drawn
    <2>3. CASE /\ Load({Key(s, r) : s \in sel})
               /\ page' = [tab |-> "compare", selected |-> sel, range |-> r, empty |-> none,
                           frames |-> frames, warned |-> \E s \in sel \ none : AtLimit(results[s])]
      <3>1. /\ page'.tab = "compare" /\ page'.selected = sel /\ page'.range = r
            /\ page'.empty = none /\ page'.frames = frames
            /\ page'.warned = \E s \in sel \ none : AtLimit(results[s])
        BY <2>3
      <3>2. page'.warned = \E s \in sel \ none : AtLimit(frames[s])
        BY <1>8, <3>1
      <3> QED
        BY <1>3, <1>7, <1>8, <2>3, <3>1, <3>2 DEF Drawn
    <2> QED
      BY <1>4, <2>1, <2>2, <2>3
  <1> QED
    BY <1>1, <1>2, <1>6, <1>9

LEMMA CompareIInv ==
  ASSUME IInv, NEW i \in Intervals, RenderCompare(i)
  PROVE  IInv'
  <1>0. PICK selected \in SUBSET Series : \E age \in Ages, range \in Int \X Int : Drawn(selected, age, range)
    BY CompareDraws
  <1>1. PICK age \in Ages, range \in Int \X Int : Drawn(selected, age, range)
    BY <1>0
  <1>2. LogOK'
    BY <1>1, LogKept DEF IInv, Drawn
  <1>3. CASE page'.tab = "too few" /\ UNCHANGED loaded
    <2>1. AgesOK'
      BY <1>1, <1>3 DEF IInv, AgesOK, Drawn
    <2> QED
      BY <1>2, <1>3, <2>1 DEF IInv, TabOK, PricesPage, ComparePage, HealthPage, ChartPage
  <1>4. CASE Load({Key(s, range) : s \in selected}) /\ page'.tab \in {"compare", "not enough"}
    <2>1. /\ \A k \in {Key(s, range) : s \in selected} : PriceAge(k)' = PriceAge(k)
          /\ \A q \in DOMAIN loaded' : q.series \in Series /\ loaded'[q] \in Ages
      <3>1. \A q \in {Key(s, range) : s \in selected} : q.series \in Series
        BY DEF Key
      <3> QED
        BY <1>4, <3>1, LoadAges DEF IInv
    <2>2. AgesOK'
      BY <1>1, <2>1 DEF IInv, AgesOK, Drawn
    <2>3. \A s \in selected : FrameOf(s, range)' = FrameOf(s, range)
      BY <1>1, <2>1 DEF FrameOf, Snapshot, Drawn
    <2>4. ComparePage'
      <3>1. page'.range = range /\ page'.selected = selected
            /\ page'.empty = {s \in selected : FrameOf(s, range) = {}}
        BY <1>1, <1>4 DEF Drawn
      <3>2. page'.empty = {s \in selected : FrameOf(s, range)' = {}}
        BY <2>3, <3>1
      <3>3. page'.tab = "compare" =>
              /\ \A s \in selected \ page'.empty : page'.frames[s] = FrameOf(s, range)'
              /\ page'.warned = \E s \in selected \ page'.empty : AtLimit(page'.frames[s])
        BY <1>1, <1>4, <2>3 DEF Drawn
      <3> QED
        BY <3>1, <3>2, <3>3 DEF ComparePage
    <2> QED
      BY <1>2, <1>4, <2>2, <2>4 DEF IInv, TabOK, PricesPage, HealthPage, ChartPage
  <1> QED
    BY <1>1, <1>3, <1>4 DEF Drawn

LEMMA HealthIInv ==
  ASSUME IInv, RenderHealth
  PROVE  IInv'
  <1>1. PICK a \in Ages, b \in Ages :
          /\ UNCHANGED <<prices, runs, log, covered, loaded>> /\ counted' = a /\ listed' = b
          /\ page'.tab = "health"
          /\ page'.failures = Count(Snapshot(a), "failed") /\ page'.rows = RecentRuns(Snapshot(b))
    BY AgeType DEF IInv, RenderHealth
  <1>2. LogOK' /\ AgesOK'
    BY <1>1, LogKept DEF IInv, AgesOK
  <1>3. Snapshot(a)' = Snapshot(a) /\ Snapshot(b)' = Snapshot(b)
    BY <1>1 DEF Snapshot
  <1>4. HealthPage'
    BY <1>1, <1>3 DEF HealthPage
  <1> QED
    BY <1>1, <1>2, <1>4 DEF IInv, TabOK, PricesPage, ComparePage, ChartPage

LEMMA ChartIInv ==
  ASSUME IInv, NEW c \in Columns, NEW d \in Columns, RenderChart(c, d)
  PROVE  IInv'
  <1>1. /\ UNCHANGED <<prices, runs, log, caches>> /\ page'.tab = "chart"
        /\ page'.price = PriceChart([close |-> c, adjusted |-> d])
        /\ page'.percent = PercentChart(c)
    BY DEF RenderChart
  <1>2. LogOK' /\ AgesOK'
    BY <1>1, LogKept DEF IInv, AgesOK, caches
  <1>3. ChartPage'
    BY <1>1 DEF ChartPage
  <1> QED
    BY <1>1, <1>2, <1>3 DEF IInv, TabOK, PricesPage, ComparePage, HealthPage

LEMMA NextIInv == IInv /\ [Next]_vars => IInv'
  <1> SUFFICES ASSUME IInv, [Next]_vars PROVE IInv'
    OBVIOUS
  <1>1. CASE \/ Quiet
             \/ \E s \in Series : Commit(s)
             \/ \E r \in RunIds : Audit(r)
    BY <1>1, TransactionIInv
  <1>2. ASSUME NEW s \in Series, RenderPrices(s, NULL) \/ \E range \in Picks : RenderPrices(s, range)
        PROVE  IInv'
    <2>1. PICK picked \in Picks \cup {NULL} : RenderPrices(s, picked)
      BY <1>2
    <2> QED
      BY <2>1, PricesIInv
  <1>3. CASE \E i \in Intervals : RenderCompare(i)
    BY <1>3, CompareIInv
  <1>4. CASE RenderHealth
    BY <1>4, HealthIInv
  <1>5. CASE \E c, d \in Columns : RenderChart(c, d)
    BY <1>5, ChartIInv
  <1>6. CASE UNCHANGED vars
    <2>1. UNCHANGED <<prices, runs, log, covered, loaded, listed, counted, page>>
      BY <1>6 DEF vars, caches
    <2>2. LogOK' /\ AgesOK'
      BY <2>1, LogKept DEF IInv, AgesOK
    <2>3. TabOK' /\ PricesPage' /\ ComparePage' /\ HealthPage' /\ ChartPage'
      BY <2>1 DEF IInv, TabOK, PricesPage, ComparePage, HealthPage, ChartPage, FrameOf, Snapshot, PriceAge
    <2> QED
      BY <2>2, <2>3 DEF IInv
  <1> QED
    BY <1>1, <1>2, <1>3, <1>4, <1>5, <1>6 DEF Next

LEMMA SpecIInv == Spec => []IInv
  BY InitIInv, NextIInv, PTL DEF Spec
-----------------------------------------------------------------------------
(* The pages. *)

\* Type correctness: no cached result is older than the time to live, and all prices
\* that are loaded are those of series, the opening selection of the page to compare
\* included.
THEOREM TypeCorrect == Spec => []TypeOK
  <1>1. ASSUME IInv PROVE TypeOK
    <2>1. Now \in Tables /\ \A i \in 1..Len(log) : log[i] \in Db
      BY <1>1, LogType DEF IInv, LogOK
    <2>2. prices \in [Series -> [Ts -> 0..MaxRev]]
      BY <2>1 DEF Now, Tables
    <2>3. \A i \in 1..Len(log) : log[i].prices \in [Series -> [Ts -> 0..MaxRev]]
      BY <2>1 DEF Db
    <2>4. {covered, listed, counted} \subseteq 0..TTL \cup {NULL}
      BY <1>1 DEF IInv, AgesOK, Ages
    <2>5. \A k \in DOMAIN loaded : k.series \in Series /\ loaded[k] \in 0..TTL
      BY <1>1 DEF IInv, AgesOK, Ages
    <2> QED
      BY <1>1, <2>2, <2>3, <2>4, <2>5 DEF IInv, TabOK, TypeOK
  <1> QED
    BY <1>1, SpecIInv, PTL

\* Every symbol that has bars can be picked, and once; the list goes from class to
\* class, an unknown symbol's being the last, whatever the classes and the names are.
THEOREM PickerHasAll == Spec => []PickerComplete
  <1>1. ASSUME IInv PROVE PickerComplete
    <2> SUFFICES ASSUME page.tab = "prices" PROVE PickerComplete
      BY DEF PickerComplete
    <2> DEFINE list == page.offered
               some == {s[1] : s \in Covered(Snapshot(page.ages[1]))}
               Place(s) == CHOOSE i \in 1..Len(ClassOrder) : ClassOrder[i] = AssetClass(s)
    <2>1. list = OrderedSymbols(some)
      BY <1>1 DEF IInv, PricesPage, Offered
    <2>2. some \in SUBSET Symbols
      BY DEF Covered, Series
    <2> HIDE DEF list, some
    <2>3. Picker(list, some, Len(ClassOrder))
      BY <2>1, <2>2, OrderedType
    <2>4. \A s : Placed(s, Place(s))
      BY PlacedOnce DEF Placed
    <2>5. {list[i] : i \in 1..Len(list)} = some
      <3>1. \A i \in 1..Len(list) : list[i] \in some
        BY <2>3 DEF Picker
      <3>2. \A s \in some : \E i \in 1..Len(list) : list[i] = s
        BY <2>3, <2>4 DEF Picker, Placed
      <3> QED
        BY <3>1, <3>2
    <2> HIDE DEF Place
    <2>6. \A i, k \in 1..Len(list) : i < k => list[i] # list[k] /\ Place(list[i]) <= Place(list[k])
      BY <2>3, <2>4 DEF Picker
    <2> QED
      BY <2>5, <2>6 DEF PickerComplete, list, some, Place
  <1> QED
    BY <1>1, SpecIInv, PTL

\* The pages of one series or of several leave no row out without a warning, and name
\* as empty what is, whatever the ages of their frames: price_history's limit and
\* the warning agree.
THEOREM RowsOrWarning == Spec => []WholeRangeOrWarned
  <1>1. ASSUME IInv PROVE WholeRangeOrWarned
    <2> DEFINE Whole(s) == {t \in Stored(Snapshot(PriceAge(Key(s, page.range))), s) :
                              Day[t] \in page.range[1]..page.range[2]}
    <2>1. ASSUME page.range \in Int \X Int, NEW s
          PROVE  /\ AtLimit(FrameOf(s, page.range)) \/ FrameOf(s, page.range) = Whole(s)
                 /\ FrameOf(s, page.range) = {} <=> Whole(s) = {}
      <3>1. PICK range \in Int \X Int : range = page.range
        BY <2>1
      <3> DEFINE db == Snapshot(PriceAge(Key(s, page.range)))
      <3>2. FrameOf(s, range) = History(db, s, range[1], End(range[2]))
        BY <3>1 DEF FrameOf
      <3>3. Whole(s) = InRange(db, s, range[1], End(range[2]))
        BY <3>1, RangeType
      <3> HIDE DEF Whole, db
      <3>4. /\ AtLimit(FrameOf(s, range)) \/ FrameOf(s, range) = Whole(s)
            /\ FrameOf(s, range) \subseteq Whole(s)
            /\ Whole(s) # {} => FrameOf(s, range) # {}
        BY <3>2, <3>3, HistoryType
      <3> QED
        BY <3>1, <3>4
    <2> HIDE DEF Whole
    <2>2. page.tab = "prices" => page.warned \/ page.rows = Whole(page.series)
      BY <1>1, <2>1 DEF IInv, PricesPage
    <2>3. ASSUME page.tab = "compare"
          PROVE  page.warned \/ \A s \in page.selected \ page.empty : page.frames[s] = Whole(s)
      <3>1. CASE \E s \in page.selected \ page.empty : AtLimit(page.frames[s])
        BY <1>1, <2>3, <3>1 DEF IInv, ComparePage
      <3>2. CASE \A s \in page.selected \ page.empty : ~AtLimit(page.frames[s])
        BY <1>1, <2>1, <2>3, <3>2 DEF IInv, ComparePage
      <3> QED
        BY <3>1, <3>2
    <2>4. ASSUME page.tab \in {"compare", "not enough"}
          PROVE  page.empty = {s \in page.selected : Whole(s) = {}}
      <3>1. page.range \in Int \X Int /\ page.empty = {s \in page.selected : FrameOf(s, page.range) = {}}
        BY <1>1, <2>4 DEF IInv, ComparePage
      <3>2. \A s : FrameOf(s, page.range) = {} <=> Whole(s) = {}
        BY <2>1, <3>1
      <3> QED
        BY <3>1, <3>2
    <2> QED
      BY <2>2, <2>3, <2>4 DEF WholeRangeOrWarned, Whole
  <1> QED
    BY <1>1, SpecIInv, PTL

\* A page that says there are no bars in an opening window the coverage lists has
\* prices that were loaded before the coverage was.
THEOREM WindowIsNotEmpty == Spec => []ListedIsShown
  <1>1. ASSUME IInv PROVE ListedIsShown
    <2>1. SUFFICES ASSUME page.tab = "prices", page.opening, page.rows = {},
                          page.series \in Covered(Snapshot(page.ages[1]))
                   PROVE  page.ages[2] > page.ages[1]
      BY DEF ListedIsShown
    <2>2. PICK s \in Series, age \in Ages, pa \in Ages :
            s = page.series /\ age = page.ages[1] /\ pa = page.ages[2]
            /\ pa = PriceAge(Key(s, page.range))
      BY <1>1, <2>1, AgeType DEF IInv, PricesPage
    <2> DEFINE cov  == Snapshot(age)
               data == Snapshot(pa)
               w    == Span(cov, s)
    <2>3. PICK range \in Int \X Int : range = page.range /\ range = Opening(w)
      BY <1>1, <2>1, <2>2 DEF IInv, PricesPage
    <2>4. History(data, s, range[1], End(range[2])) = {}
      BY <1>1, <2>1, <2>2, <2>3 DEF IInv, PricesPage, FrameOf
    <2>5. PICK t \in Stored(cov, s) : Day[t] = w[2] /\ w[1] <= w[2] /\ w \in (0..Today) \X (0..Today)
      BY <2>1, <2>2, SpanType
    <2>6. Day[t] \in range[1]..range[2]
      <3>1. w = <<w[1], w[2]>> /\ w[1] \in Int /\ w[2] \in Int
        BY <2>5
      <3>2. range = <<IF w[2] - Window <= w[1] THEN w[1] ELSE w[2] - Window, w[2]>>
        BY <2>3, <3>1, OpeningType, Constants
      <3> QED
        BY <2>5, <3>1, <3>2, ChartsAssumption
    <2>7. ASSUME pa <= age PROVE FALSE
      <3>1. Extends(data, cov)
        <4>1. pa \in 0..(TTL + 1) /\ age \in 0..(TTL + 1)
          BY Constants DEF Ages
        <4> QED
          BY <1>1, <2>7, <4>1, LogType DEF IInv
      <3>2. t \in Stored(data, s)
        BY <2>5, <3>1 DEF Extends
      <3>3. InRange(data, s, range[1], End(range[2])) # {}
        BY <2>6, <3>2, RangeType
      <3> QED
        BY <2>4, <3>3, HistoryType
    <2> QED
      BY <2>2, <2>7, Constants DEF Ages
  <1> QED
    BY <1>1, SpecIInv, PTL

\* What was stored one time to live ago is on the page, or before the window, or cut
\* off with a warning: the ages of coverage and prices do not add up.
THEOREM OldBarsAreShown == Spec => []ShowsWhatIsOld
  <1>1. ASSUME IInv PROVE ShowsWhatIsOld
    <2> DEFINE Now0 == Snapshot(0)
               old  == Snapshot(TTL)
    <2>1. SUFFICES ASSUME page.tab = "prices", page.opening,
                          NEW t \in Stored(log[TTL + 1], page.series),
                          ~(Day[t] < Opening(Span(log[1], page.series))[1])
                   PROVE  t \in page.rows \/ page.warned
      BY DEF ShowsWhatIsOld
    <2>2. PICK s \in Series, age \in Ages, pa \in Ages :
            s = page.series /\ age = page.ages[1] /\ pa = page.ages[2]
            /\ pa = PriceAge(Key(s, page.range))
      BY <1>1, <2>1, AgeType DEF IInv, PricesPage
    <2> DEFINE cov  == Snapshot(age)
               data == Snapshot(pa)
               w    == Span(cov, s)
               v    == Span(Now0, s)
    <2>3. PICK range \in Int \X Int : range = page.range /\ range = Opening(w)
      BY <1>1, <2>1, <2>2 DEF IInv, PricesPage
    <2>4. /\ page.rows = History(data, s, range[1], End(range[2]))
          /\ page.warned = AtLimit(page.rows)
      BY <1>1, <2>1, <2>2, <2>3 DEF IInv, PricesPage, FrameOf
    <2>5. Extends(Now0, cov) /\ Extends(cov, old) /\ Extends(data, old)
      <3>1. /\ 0 \in 0..(TTL + 1) /\ TTL \in 0..(TTL + 1) /\ 0 <= age /\ age <= TTL /\ pa <= TTL
            /\ age \in 0..(TTL + 1) /\ pa \in 0..(TTL + 1)
        BY Constants DEF Ages
      <3> QED
        BY <1>1, <3>1, LogType DEF IInv
    <2>6. t \in Stored(old, s) /\ t \in Stored(cov, s) /\ t \in Stored(data, s) /\ t \in Stored(Now0, s)
      <3>1. t \in Stored(old, s)
        BY <2>1, <2>2 DEF Snapshot
      <3> QED
        BY <2>5, <3>1 DEF Extends
    <2>7. /\ w \in (0..Today) \X (0..Today) /\ w[1] <= Day[t] /\ Day[t] <= w[2]
          /\ \E u \in Stored(cov, s) : Day[u] = w[2]
          /\ v \in (0..Today) \X (0..Today)
          /\ \A u \in Stored(Now0, s) : Day[u] <= v[2]
      <3>1. s \in Covered(cov) /\ s \in Covered(Now0)
        BY <2>6 DEF Covered
      <3> QED
        BY <2>6, <3>1, SpanType
    <2>8. w[2] <= v[2]
      BY <2>5, <2>7 DEF Extends
    <2> HIDE DEF w, v
    <2>9. Day[t] \in range[1]..range[2]
      <3>1. /\ w = <<w[1], w[2]>> /\ w[1] \in Int /\ w[2] \in Int
            /\ v = <<v[1], v[2]>> /\ v[1] \in Int /\ v[2] \in Int
        BY <2>7
      <3>2. /\ Opening(w) = <<IF w[2] - Window <= w[1] THEN w[1] ELSE w[2] - Window, w[2]>>
            /\ Opening(v) = <<IF v[2] - Window <= v[1] THEN v[1] ELSE v[2] - Window, v[2]>>
        BY <3>1, OpeningType, Constants
      <3>3. Day[t] >= Opening(v)[1] /\ Day[t] \in Int
        <4>1. t \in Ts
          BY <2>6, StoredType
        <4>2. log[1] = Now0
          BY DEF Snapshot
        <4>3. Day[t] \in Int /\ Opening(v)[1] \in Int
          BY <3>1, <3>2, <4>1, DashboardAssumption, ChartsAssumption
        <4> QED
          BY <2>1, <2>2, <4>2, <4>3 DEF v
      <3>4. v[2] - Window <= Opening(v)[1]
        BY <3>1, <3>2, ChartsAssumption
      <3>5. Day[t] >= w[2] - Window
        BY <2>8, <3>1, <3>2, <3>3, <3>4, ChartsAssumption
      <3> QED
        BY <2>3, <2>7, <3>1, <3>2, <3>3, <3>5 DEF w
    <2>10. t \in InRange(data, s, range[1], End(range[2]))
      BY <2>6, <2>9, RangeType
    <2> QED
      BY <2>4, <2>10, HistoryType
  <1> QED
    BY <1>1, SpecIInv, PTL

\* A run that failed one time to live ago is counted as long as the window holds it, and
\* listed unless RunLimit later ones have been opened, although count and table are
\* cached on their own; nothing else is counted but what has just left the window.
THEOREM FailuresAreShown == Spec => []FailuresShown
  <1>1. ASSUME IInv PROVE FailuresShown
    <2> DEFINE since(age) == {r \in RunIds : log[1].ago[r] <= age}
    <2>1. SUFFICES ASSUME page.tab = "health"
                   PROVE  /\ Cardinality(Failed(log[TTL + 1]) \cap since(Hours)) <= page.failures
                          /\ page.failures <= Cardinality(Failed(log[1]) \cap since(Hours + TTL))
                          /\ Failed(log[TTL + 1]) \cap RecentRuns(log[1]) \subseteq page.rows
      BY DEF FailuresShown, Failed
    <2>2. PICK a \in Ages, b \in Ages :
            page.failures = Count(Snapshot(a), "failed") /\ page.rows = RecentRuns(Snapshot(b))
      BY <1>1, <2>1 DEF IInv, HealthPage
    <2> DEFINE old == Snapshot(TTL)
               db  == Snapshot(a)
    <2>3. log[TTL + 1] = old /\ log[1] = Snapshot(0)
      BY DEF Snapshot
    <2>4. /\ Extends(db, old) /\ Extends(Snapshot(b), old)
          /\ Extends(Snapshot(0), Snapshot(b)) /\ Extends(Snapshot(0), db)
          /\ Grown(Snapshot(0), db, a) /\ a \in Nat /\ a <= TTL
          /\ db \in Db /\ Snapshot(0) \in Db
      <3>1. /\ 0 \in 0..(TTL + 1) /\ TTL \in 0..(TTL + 1) /\ 0 <= b /\ a <= TTL /\ b <= TTL
            /\ a \in 0..(TTL + 1) /\ b \in 0..(TTL + 1) /\ 0 <= a /\ a - 0 = a /\ a \in Nat
        BY Constants DEF Ages
      <3> QED
        BY <1>1, <3>1, LogType DEF IInv
    <2>5. \A S \in SUBSET RunIds : IsFiniteSet(S) /\ Cardinality(S) \in Nat
      BY FS_Subset, FS_CardinalityType, DashboardAssumption
    <2> DEFINE counted0 == {r \in Failed(db) : db.ago[r] <= Hours}
    <2>6. page.failures = Cardinality(counted0)
      <3>1. {r \in InWindow(db) : db.runs[r].status = "failed"} = counted0
        BY DEF InWindow, Opened, Failed
      <3> QED
        BY <2>2, <3>1 DEF Count
    <2>7. ASSUME NEW r \in Failed(db)
          PROVE  /\ r \in RunIds /\ db.ago[r] \in Nat /\ Snapshot(0).ago[r] \in Nat
                 /\ db.ago[r] <= Snapshot(0).ago[r] /\ Snapshot(0).ago[r] <= db.ago[r] + a
      <3>1. r \in RunIds /\ r \in Opened(db)
        BY DEF Failed, Opened
      <3> QED
        BY <2>4, <3>1, Constants DEF Grown, Db
    <2>8. Failed(old) \cap since(Hours) \subseteq counted0
      <3> SUFFICES ASSUME NEW r \in Failed(old), Snapshot(0).ago[r] <= Hours
                   PROVE  r \in Failed(db) /\ db.ago[r] <= Hours
        BY <2>3
      <3>1. r \in Failed(db)
        BY <2>4 DEF Extends
      <3> QED
        BY <2>7, <3>1, Constants
    <2>9. counted0 \subseteq Failed(log[1]) \cap since(Hours + TTL)
      <3> SUFFICES ASSUME NEW r \in Failed(db), db.ago[r] <= Hours
                   PROVE  r \in Failed(Snapshot(0)) /\ r \in RunIds /\ Snapshot(0).ago[r] <= Hours + TTL
        BY <2>3
      <3>1. r \in Failed(Snapshot(0))
        BY <2>4 DEF Extends
      <3> QED
        BY <2>4, <2>7, <3>1, Constants
    <2>10. /\ counted0 \in SUBSET RunIds /\ Failed(old) \cap since(Hours) \in SUBSET RunIds
           /\ Failed(log[1]) \cap since(Hours + TTL) \in SUBSET RunIds
      BY DEF Failed
    <2> HIDE DEF counted0, since, db
    <2>11. /\ Cardinality(Failed(old) \cap since(Hours)) <= page.failures
           /\ page.failures <= Cardinality(Failed(log[1]) \cap since(Hours + TTL))
      BY <2>5, <2>6, <2>8, <2>9, <2>10, FS_Subset
    <2>12. ASSUME NEW r \in Failed(old), r \in RecentRuns(Snapshot(0)) PROVE r \in RecentRuns(Snapshot(b))
      <3> DEFINE Later(x) == {q \in Opened(x) : q > r}
      <3>1. r \in Opened(Snapshot(b))
        <4>1. r \in Failed(Snapshot(b))
          BY <2>4 DEF Extends
        <4> QED
          BY <4>1 DEF Failed, Opened
      <3>2. Later(Snapshot(b)) \subseteq Later(Snapshot(0)) /\ Later(Snapshot(0)) \in SUBSET RunIds
            /\ Later(Snapshot(b)) \in SUBSET RunIds
        BY <2>4 DEF Extends, Opened
      <3>3. Cardinality(Later(Snapshot(0))) < RunLimit
        BY <2>12 DEF RecentRuns
      <3> HIDE DEF Later
      <3>4. Cardinality(Later(Snapshot(b))) <= Cardinality(Later(Snapshot(0)))
        BY <2>5, <3>2, FS_Subset
      <3>5. Cardinality(Later(Snapshot(b))) < RunLimit
        BY <2>5, <3>2, <3>3, <3>4, Constants
      <3> QED
        BY <3>1, <3>5 DEF RecentRuns, Later
    <2> QED
      BY <2>2, <2>3, <2>11, <2>12
  <1> QED
    BY <1>1, SpecIInv, PTL
-----------------------------------------------------------------------------
(* Charts. *)

LEMMA ValuesType ==
  ASSUME NEW c \in Columns
  PROVE  Values(c) \in SUBSET Int /\ IsFiniteSet(Values(c))
  <1> DEFINE D == DOMAIN c
             R == {c[t] : t \in D}
             f == [t \in D |-> c[t]]
  <1>1. IsFiniteSet(D) /\ \A t \in D : c[t] \in Int \cup {NULL}
    BY DashboardAssumption
  <1>2. f \in Surjection(D, R)
    BY DEF Surjection
  <1>3. IsFiniteSet(R)
    BY <1>1, <1>2, FS_Surjection
  <1>4. Values(c) = R \ {NULL}
    BY DEF Values
  <1> QED
    BY <1>1, <1>3, <1>4, FS_Subset

\* price_domain leaves room on both sides of what it has to show.
LEMMA PriceRoom ==
  ASSUME NEW S \in SUBSET Int, IsFiniteSet(S), NEW p \in S
  PROVE  PriceDomain(S)[1] < p * Pad /\ p * Pad < PriceDomain(S)[2]
  <1> DEFINE low  == Min(S)
             high == Max(S)
             room == Padding(low, high)
  <1>1. low \in Int /\ high \in Int /\ low <= p /\ p <= high
    BY MinMax
  <1>2. PriceDomain(S) = <<low * Pad - room, high * Pad + room>>
    BY DEF PriceDomain
  <1>3. p \in Int /\ Pad \in Nat /\ Pad > 0
    BY ChartsAssumption
  <1> HIDE DEF low, high
  <1>4. room \in Int /\ room > 0
    BY <1>1, <1>3 DEF Padding, Abs
  <1>5. low * Pad <= p * Pad /\ p * Pad <= high * Pad
    BY <1>1, <1>3
  <1> HIDE DEF room
  <1>6. {low * Pad, p * Pad, high * Pad} \subseteq Int
    BY <1>1, <1>3
  <1> QED
    BY <1>2, <1>4, <1>5, <1>6

\* percent_domain as well, and it always shows zero.
LEMMA PercentRoom ==
  ASSUME NEW S \in SUBSET Int, IsFiniteSet(S), NEW p \in S \cup {0}
  PROVE  PercentDomain(S)[1] < p * Pad /\ p * Pad < PercentDomain(S)[2]
  <1>1. Pad \in Nat /\ Pad > 0
    BY ChartsAssumption
  <1>2. CASE S = {}
    BY <1>1, <1>2 DEF PercentDomain
  <1>3. CASE S # {}
    <2> DEFINE low  == Min(S \cup {0})
               high == Max(S \cup {0})
               room == IF high = low THEN Pad ELSE high - low
    <2>1. S \cup {0} \in SUBSET Int /\ IsFiniteSet(S \cup {0}) /\ S \cup {0} # {} /\ p \in Int
      BY FS_AddElement
    <2>2. low \in Int /\ high \in Int /\ low <= p /\ p <= high
      BY <2>1, MinMax
    <2>3. PercentDomain(S) = <<low * Pad - room, high * Pad + room>>
      BY <1>3 DEF PercentDomain
    <2> HIDE DEF low, high
    <2>4. room \in Int /\ room > 0
      BY <1>1, <2>2
    <2> HIDE DEF room
    <2>5. low * Pad <= p * Pad /\ p * Pad <= high * Pad
      BY <1>1, <2>1, <2>2
    <2>6. {low * Pad, p * Pad, high * Pad} \subseteq Int
      BY <1>1, <2>1, <2>2
    <2> QED
      BY <2>3, <2>4, <2>5, <2>6
  <1> QED
    BY <1>2, <1>3

\* Every point that is drawn is inside its axis and not on the edge, of any columns of
\* integers: flat, zero and negative ones included.
THEOREM PointsAreInside == Spec => []ChartsFrame
  <1>1. ASSUME IInv PROVE ChartsFrame
    <2> DEFINE Inside(chart) ==
                 \A p \in chart.points : chart.axis[1] < p * Pad /\ p * Pad < chart.axis[2]
    <2>1. SUFFICES ASSUME page.tab = "chart"
                   PROVE  Inside(page.price) /\ Inside(page.percent) /\ 0 \in page.percent.points
      BY DEF ChartsFrame
    <2>2. PICK c \in Columns, d \in Columns :
            page.price = PriceChart([close |-> c, adjusted |-> d]) /\ page.percent = PercentChart(c)
      BY <1>1, <2>1 DEF IInv, ChartPage
    <2>3. Inside(page.price)
      <3> DEFINE points == Values(c) \cup IF NeedsAdjusted(c, d) THEN Values(d) ELSE {}
      <3>1. page.price = [points |-> points, axis |-> PriceDomain(points)]
        BY <2>2 DEF PriceChart
      <3>2. points \in SUBSET Int /\ IsFiniteSet(points)
        <4>1. points = Values(c) \cup Values(d) \/ points = Values(c)
          OBVIOUS
        <4>2. IsFiniteSet(Values(c) \cup Values(d))
          BY ValuesType, FS_Union
        <4> QED
          BY <4>1, <4>2, ValuesType
      <3> HIDE DEF points
      <3>3. \A p \in points : PriceDomain(points)[1] < p * Pad /\ p * Pad < PriceDomain(points)[2]
        BY <3>2, PriceRoom
      <3> QED
        BY <3>1, <3>3
    <2>4. Inside(page.percent) /\ 0 \in page.percent.points
      <3>1. page.percent = [points |-> Values(c) \cup {0}, axis |-> PercentDomain(Values(c))]
        BY <2>2 DEF PercentChart
      <3> QED
        BY <3>1, ValuesType, PercentRoom
    <2> QED
      BY <2>3, <2>4
  <1> QED
    BY <1>1, SpecIInv, PTL
=============================================================================
