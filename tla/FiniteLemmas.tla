---------------------------- MODULE FiniteLemmas ----------------------------
(* What the proofs need of finite sets and of numbers: least and greatest   *)
(* elements, a top under any total order, induction up to a number over a   *)
(* set of numbers, and that a fold over a sequence is defined.              *)
EXTENDS Integers, FiniteSets, FiniteSetTheorems, TLAPS

\* Of the intervals 0..n with n in the set, one is minimal under inclusion.
LEMMA LeastExists ==
  ASSUME NEW M \in SUBSET Nat, M # {}
  PROVE  \E m \in M : \A n \in M : m <= n
  <1> DEFINE Intervals == {0..n : n \in M}
  <1>1. Intervals \subseteq FiniteSubsetsOf(Nat) /\ Intervals # {}
    <2>1. ASSUME NEW n \in M PROVE 0..n \in FiniteSubsetsOf(Nat)
      <3>1. IsFiniteSet(0..n) /\ 0..n \in SUBSET Nat
        BY FS_Interval
      <3> QED
        BY <3>1 DEF FiniteSubsetsOf
    <2> QED
      BY <2>1
  <1>2. IsWellFoundedOn(StrictSubsetOrdering(Nat), FiniteSubsetsOf(Nat))
    BY FS_StrictSubsetOrderingWellFounded
  <1> HIDE DEF Intervals
  <1>3. PICK I \in Intervals : \A K \in Intervals : <<K, I>> \notin StrictSubsetOrdering(Nat)
    BY <1>1, <1>2, WFMin
  <1>4. PICK m \in M : I = 0..m
    BY DEF Intervals
  <1>5. ASSUME NEW n \in M, n < m PROVE FALSE
    <2>1. 0..n \in SUBSET Nat /\ 0..m \in SUBSET Nat /\ 0..n \subseteq 0..m
      BY <1>5
    <2>2. m \in 0..m /\ m \notin 0..n
      BY <1>5
    <2>3. <<0..n, 0..m>> \in StrictSubsetOrdering(Nat)
      BY <2>1, <2>2 DEF StrictSubsetOrdering
    <2> QED
      BY <1>3, <1>4, <2>3 DEF Intervals
  <1> QED
    BY <1>5

\* The greatest element is the least upper bound.
LEMMA GreatestExists ==
  ASSUME NEW M \in SUBSET Nat, M # {}, NEW b \in Nat, \A n \in M : n <= b
  PROVE  \E m \in M : \A n \in M : n <= m
  <1> DEFINE Bounds == {c \in Nat : \A n \in M : n <= c}
  <1>1. PICK m \in Bounds : \A c \in Bounds : m <= c
    <2>1. Bounds \in SUBSET Nat /\ Bounds # {}
      OBVIOUS
    <2> HIDE DEF Bounds
    <2> QED
      BY <2>1, LeastExists
  <1>2. ASSUME m \notin M PROVE FALSE
    <2>1. \A n \in M : n < m /\ n <= m - 1
      BY <1>2
    <2>2. m - 1 \in Bounds
      <3>1. m - 1 \in Nat
        <4>1. PICK n \in M : n < m
          BY <2>1
        <4> QED
          BY <4>1
      <3> QED
        BY <2>1, <3>1
    <2> QED
      BY <1>1, <2>2
  <1> QED
    BY <1>2

\* Of the sets of what is at least as high as some element, one is minimal under
\* inclusion, and that element is a top.
LEMMA TopExists ==
  ASSUME NEW S, IsFiniteSet(S), S # {}, NEW R,
         \A x, y \in S : <<x, y>> \in R \/ <<y, x>> \in R,
         \A x, y, z \in S : <<x, y>> \in R /\ <<y, z>> \in R => <<x, z>> \in R
  PROVE  \E m \in S : \A x \in S : <<x, m>> \in R
  <1> DEFINE Up(x) == {y \in S : <<x, y>> \in R}
             Ups   == {Up(x) : x \in S}
  <1>1. Ups \subseteq FiniteSubsetsOf(S) /\ Ups # {}
    <2>1. ASSUME NEW x \in S PROVE Up(x) \in FiniteSubsetsOf(S)
      <3>1. Up(x) \in SUBSET S /\ IsFiniteSet(Up(x))
        BY FS_Subset
      <3> QED
        BY <3>1 DEF FiniteSubsetsOf
    <2> QED
      BY <2>1
  <1>2. IsWellFoundedOn(StrictSubsetOrdering(S), FiniteSubsetsOf(S))
    BY FS_StrictSubsetOrderingWellFounded
  <1> HIDE DEF Ups
  <1>3. PICK U \in Ups : \A V \in Ups : <<V, U>> \notin StrictSubsetOrdering(S)
    BY <1>1, <1>2, WFMin
  <1>4. PICK m \in S : U = Up(m)
    BY DEF Ups
  <1>5. ASSUME NEW x \in S, <<x, m>> \notin R PROVE FALSE
    <2>1. Up(x) \subseteq Up(m)
      BY <1>5
    <2>2. m \in Up(m) /\ m \notin Up(x)
      BY <1>5
    <2>3. Up(x) \in SUBSET S /\ Up(m) \in SUBSET S
      OBVIOUS
    <2>4. Up(x) \in Ups
      BY DEF Ups
    <2> HIDE DEF Up
    <2>5. <<Up(x), Up(m)>> \in StrictSubsetOrdering(S)
      BY <2>1, <2>2, <2>3 DEF StrictSubsetOrdering
    <2> QED
      BY <1>3, <1>4, <2>4, <2>5
  <1> QED
    BY <1>5

LEMMA FiniteExtremes ==
  ASSUME NEW S \in SUBSET Int, IsFiniteSet(S), S # {}
  PROVE  /\ \E m \in S : \A n \in S : m <= n
         /\ \E m \in S : \A n \in S : n <= m
  <1>1. \E m \in S : \A n \in S : m <= n
    <2> DEFINE R == {p \in S \X S : p[2] <= p[1]}
    <2>1. \A x, y \in S : <<x, y>> \in R <=> y <= x
      OBVIOUS
    <2> HIDE DEF R
    <2>2. /\ \A x, y \in S : <<x, y>> \in R \/ <<y, x>> \in R
          /\ \A x, y, z \in S : <<x, y>> \in R /\ <<y, z>> \in R => <<x, z>> \in R
      BY <2>1
    <2>3. \E m \in S : \A x \in S : <<x, m>> \in R
      BY <2>2, TopExists
    <2> QED
      BY <2>1, <2>3
  <1>2. \E m \in S : \A n \in S : n <= m
    <2> DEFINE R == {p \in S \X S : p[1] <= p[2]}
    <2>1. \A x, y \in S : <<x, y>> \in R <=> x <= y
      OBVIOUS
    <2> HIDE DEF R
    <2>2. /\ \A x, y \in S : <<x, y>> \in R \/ <<y, x>> \in R
          /\ \A x, y, z \in S : <<x, y>> \in R /\ <<y, z>> \in R => <<x, z>> \in R
      BY <2>1
    <2>3. \E m \in S : \A x \in S : <<x, m>> \in R
      BY <2>2, TopExists
    <2> QED
      BY <2>1, <2>3
  <1> QED
    BY <1>1, <1>2

\* Induction up to a number, over a set of numbers instead of a predicate.
LEMMA CountUp ==
  ASSUME NEW n \in Nat, NEW G, 0 \in G, \A k \in 1..n : k - 1 \in G => k \in G
  PROVE  \A k \in 0..n : k \in G
  <1> DEFINE M == 0..n \ G
  <1>1. ASSUME M # {} PROVE FALSE
    <2>1. M \in SUBSET Nat
      OBVIOUS
    <2>2. PICK m \in M : \A k \in M : m <= k
      BY <1>1, <2>1, LeastExists
    <2>3. m \in 1..n /\ m - 1 \in 0..n /\ ~(m <= m - 1)
      OBVIOUS
    <2>4. m - 1 \in G
      BY <2>2, <2>3
    <2> QED
      BY <2>2, <2>3, <2>4
  <1> QED
    BY <1>1

\* The greatest of a set of numbers, as Max defines it, and of the first k ones.
Top(d) == CHOOSE x \in d : \A y \in d : x >= y

LEMMA TopIs ==
  ASSUME NEW d \in SUBSET Int, NEW m \in d, \A y \in d : m >= y
  PROVE  Top(d) = m
  <1>1. Top(d) \in d /\ \A y \in d : Top(d) >= y
    BY DEF Top
  <1>2. m >= Top(d) /\ Top(d) >= m /\ Top(d) \in Int /\ m \in Int
    BY <1>1
  <1> QED
    BY <1>2

LEMMA FiniteTop ==
  ASSUME NEW n \in Nat, NEW d \in SUBSET (1..n), d # {}
  PROVE  Top(d) \in d
  <1>1. d \in SUBSET Nat /\ \A x \in d : x <= n
    OBVIOUS
  <1>2. PICK m \in d : \A x \in d : x <= m
    BY <1>1, GreatestExists
  <1>3. d \in SUBSET Int /\ \A x \in d : m >= x
    BY <1>1, <1>2
  <1> QED
    BY <1>3, TopIs

LEMMA TopOfPrefix ==
  ASSUME NEW k \in Nat \ {0}
  PROVE  1..k # {} /\ Top(1..k) = k /\ (1..k) \ {k} = 1..(k - 1)
  <1>1. k \in 1..k /\ 1..k \in SUBSET Int /\ \A y \in 1..k : k >= y
    OBVIOUS
  <1>2. Top(1..k) = k
    BY <1>1, TopIs
  <1> QED
    BY <1>1, <1>2

\* A fold over the first n numbers, taken from the greatest one, is defined: there is a
\* function of their subsets that is the base of the empty one and takes one step for
\* the greatest element of any other.
Folds(h, base, step, n) ==
  \A d \in SUBSET (1..n) :
    h[d] = IF d = {} THEN base ELSE step[<<h[d \ {Top(d)}], Top(d)>>]

LEMMA FoldExists ==
  ASSUME NEW T, NEW base \in T, NEW n \in Nat, NEW step \in [T \X (1..n) -> T]
  PROVE  \E h \in [SUBSET (1..n) -> T] : Folds(h, base, step, n)
  <1> DEFINE Solves(h, m) ==
               \A d \in SUBSET (1..m) :
                 h[d] = IF d = {} THEN base ELSE step[<<h[d \ {Top(d)}], Top(d)>>]
             Solvable(m) == \E h \in [SUBSET (1..m) -> T] : Solves(h, m)
             G == {m \in 0..n : Solvable(m)}
  <1>1. 0 \in G
    <2> DEFINE h == [d \in SUBSET (1..0) |-> base]
    <2>1. h \in [SUBSET (1..0) -> T] /\ Solves(h, 0)
      OBVIOUS
    <2> HIDE DEF h, Solves
    <2>2. Solvable(0)
      BY <2>1
    <2> HIDE DEF Solvable
    <2> QED
      BY <2>2
  <1>2. ASSUME NEW m \in 1..n, m - 1 \in G PROVE m \in G
    <2>1. PICK g \in [SUBSET (1..(m - 1)) -> T] : Solves(g, m - 1)
      BY <1>2
    <2> DEFINE h == [d \in SUBSET (1..m) |-> IF m \in d THEN step[<<g[d \ {m}], m>>] ELSE g[d]]
    <2>2. \A d \in SUBSET (1..m) : d \ {m} \in SUBSET (1..(m - 1))
      OBVIOUS
    <2>3. \A d \in SUBSET (1..m) : m \notin d => d \in SUBSET (1..(m - 1))
      OBVIOUS
    <2>4. h \in [SUBSET (1..m) -> T]
      <3>1. ASSUME NEW d \in SUBSET (1..m)
            PROVE  (IF m \in d THEN step[<<g[d \ {m}], m>>] ELSE g[d]) \in T
        <4>1. CASE m \in d
          <5>1. g[d \ {m}] \in T
            BY <2>2
          <5> QED
            BY <4>1, <5>1
        <4>2. CASE m \notin d
          BY <2>3, <4>2
        <4> QED
          BY <4>1, <4>2
      <3> QED
        BY <3>1
    <2>5. ASSUME NEW d \in SUBSET (1..m)
          PROVE  h[d] = IF d = {} THEN base ELSE step[<<h[d \ {Top(d)}], Top(d)>>]
      <3>1. CASE m \in d
        <4>1. Top(d) = m
          <5>1. d \in SUBSET Int /\ \A y \in d : m >= y
            OBVIOUS
          <5> QED
            BY <3>1, <5>1, TopIs
        <4>2. h[d \ {m}] = g[d \ {m}]
          BY <2>2
        <4> QED
          BY <3>1, <4>1, <4>2
      <3>2. CASE m \notin d /\ d # {}
        <4>1. d \in SUBSET (1..(m - 1)) /\ d \ {Top(d)} \in SUBSET (1..m) /\ m \notin d \ {Top(d)}
          BY <2>3, <3>2
        <4>2. h[d] = g[d] /\ h[d \ {Top(d)}] = g[d \ {Top(d)}]
          BY <3>2, <4>1
        <4>3. g[d] = step[<<g[d \ {Top(d)}], Top(d)>>]
          BY <2>1, <3>2, <4>1
        <4> QED
          BY <3>2, <4>2, <4>3
      <3>3. CASE d = {}
        <4>1. h[d] = g[d] /\ {} \in SUBSET (1..(m - 1))
          BY <3>3
        <4> QED
          BY <2>1, <3>3, <4>1
      <3> QED
        BY <3>1, <3>2, <3>3
    <2>6. Solves(h, m)
      BY <2>5
    <2> HIDE DEF h, Solves
    <2>7. Solvable(m)
      BY <2>4, <2>6
    <2> HIDE DEF Solvable
    <2> QED
      BY <2>7
  <1> HIDE DEF G
  <1>3. n \in G
    BY <1>1, <1>2, CountUp
  <1> QED
    BY <1>3 DEF G, Folds
=============================================================================
