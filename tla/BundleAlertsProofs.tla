-------------------------- MODULE BundleAlertsProofs --------------------------
(***************************************************************************)
(* Theorems about BundleAlerts, for any bundles and thresholds, any number *)
(* of checks at once and any faults.                                       *)
(***************************************************************************)
EXTENDS BundleAlerts, FiniteSetTheorems, SequenceTheorems, TLAPS

-----------------------------------------------------------------------------
\* Numbers.

\* A set of natural numbers has a least one: of the intervals that end in one of
\* them, below a given one, none is strictly within the smallest.
LEMMA LeastNumber ==
  ASSUME NEW P \in SUBSET Nat, P # {}
  PROVE  \E n \in P : \A k \in P : n <= k
<1> PICK m \in P : TRUE
  OBVIOUS
<1> DEFINE Below == 0..m
           Strict == StrictSubsetOrdering(Below)
           Finite == FiniteSubsetsOf(Below)
           Upto == {0..k : k \in P \cap Below}
<1>1. IsWellFoundedOn(Strict, Finite)
  <2>1. IsFiniteSet(Below)
    BY FS_Interval
  <2> QED BY <2>1, FS_StrictSubsetOrderingWellFounded
<1>2. Upto \subseteq Finite
  <2>1. \A k \in P \cap Below : IsFiniteSet(0..k) /\ 0..k \subseteq Below
    BY FS_Interval
  <2> QED BY <2>1 DEF FiniteSubsetsOf
<1>3. Upto # {}
  BY DEF Upto
<1>4. PICK T \in Upto : \A U \in Upto : <<U, T>> \notin Strict
  <2> HIDE DEF Strict, Finite, Upto
  <2> QED BY <1>1, <1>2, <1>3, WFMin
<1>5. PICK n \in P \cap Below : T = 0..n
  BY <1>4
<1>6. ASSUME NEW k \in P, k < n
      PROVE  FALSE
  <2>1. k \in P \cap Below
    BY <1>5, <1>6
  <2>2. 0..k \in Upto /\ 0..k # 0..n /\ 0..k \subseteq 0..n
    BY <1>5, <1>6, <2>1
  <2>3. <<0..k, 0..n>> \in Strict
    BY <1>2, <1>5, <2>2 DEF StrictSubsetOrdering, FiniteSubsetsOf
  <2> QED BY <1>4, <1>5, <2>2, <2>3
<1> QED BY <1>5, <1>6

\* Induction: a set with the first of some numbers, and with the next of each it
\* has, has them all.
LEMMA Climb ==
  ASSUME NEW lo \in Nat, NEW hi \in Nat, NEW P,
         lo <= hi => lo \in P,
         \A k \in lo..hi : k \in P /\ k < hi => k + 1 \in P
  PROVE  lo..hi \subseteq P
<1> SUFFICES ASSUME NEW x \in lo..hi, x \notin P
             PROVE  FALSE
  OBVIOUS
<1> DEFINE Out == {k \in lo..hi : k \notin P}
<1>1. PICK n \in Out : \A k \in Out : n <= k
  <2>1. Out \in SUBSET Nat /\ Out # {}
    OBVIOUS
  <2> HIDE DEF Out
  <2> QED BY <2>1, LeastNumber
<1>2. n \in lo..hi /\ n \notin P /\ n # lo
  BY <1>1
<1>3. n - 1 \in lo..hi /\ n - 1 < hi /\ (n - 1) + 1 = n
  BY <1>2
<1>4. n - 1 \in P
  <2>1. n - 1 \notin Out
    <3> HIDE DEF Out
    <3> QED BY <1>1, <1>3
  <2> QED BY <1>3, <2>1
<1> QED BY <1>2, <1>3, <1>4

\* A function of some numbers, each of whose values is given by the one before.
Recursive(f, lo, hi, a, F) ==
  f = [i \in lo..hi |-> IF i = lo THEN a ELSE F[<<i, f[i - 1]>>]]

LEMMA RecursiveExists ==
  ASSUME NEW lo \in Nat, NEW hi \in Nat, NEW S, NEW a \in S,
         NEW F \in [(lo..hi) \X S -> S]
  PROVE  \E f \in [lo..hi -> S] : Recursive(f, lo, hi, a, F)
<1> DEFINE P == {k \in lo..hi : \E f \in [lo..k -> S] : Recursive(f, lo, k, a, F)}
<1>1. CASE lo > hi
  <2> DEFINE f == [i \in lo..hi |-> a]
  <2>1. f = [i \in lo..hi |-> IF i = lo THEN a ELSE F[<<i, f[i - 1]>>]]
    BY <1>1
  <2> QED BY <2>1 DEF Recursive
<1>2. CASE lo <= hi
  <2>1. lo \in P
    <3> DEFINE f == [i \in lo..lo |-> a]
    <3>1. f = [i \in lo..lo |-> IF i = lo THEN a ELSE F[<<i, f[i - 1]>>]]
      OBVIOUS
    <3>2. f \in [lo..lo -> S] /\ lo \in lo..hi
      BY <1>2
    <3> HIDE DEF f
    <3> QED BY <3>1, <3>2 DEF Recursive
  <2>2. ASSUME NEW k \in lo..hi, k \in P, k < hi
        PROVE  k + 1 \in P
    <3>1. PICK f \in [lo..k -> S] : Recursive(f, lo, k, a, F)
      BY <2>2
    <3>2. \A i \in lo..k : f[i] = IF i = lo THEN a ELSE F[<<i, f[i - 1]>>]
      BY <3>1 DEF Recursive
    <3> DEFINE g == [i \in lo..(k + 1) |-> IF i = k + 1 THEN F[<<k + 1, f[k]>>] ELSE f[i]]
    <3>3. k + 1 \in lo..hi /\ k \in lo..k /\ F[<<k + 1, f[k]>>] \in S
      BY <2>2
    <3>4. g \in [lo..(k + 1) -> S]
      BY <3>3
    <3>5. \A i \in lo..(k + 1) : g[i] = IF i = lo THEN a ELSE F[<<i, g[i - 1]>>]
      <4> SUFFICES ASSUME NEW i \in lo..(k + 1)
                   PROVE  g[i] = IF i = lo THEN a ELSE F[<<i, g[i - 1]>>]
        OBVIOUS
      <4>1. CASE i = k + 1
        <5>1. i # lo /\ i - 1 = k /\ g[i - 1] = f[k]
          BY <3>3, <4>1
        <5> QED BY <4>1, <5>1
      <4>2. CASE i # k + 1
        <5>1. i \in lo..k /\ g[i] = f[i]
          BY <4>2
        <5>2. CASE i = lo
          BY <3>2, <5>1, <5>2
        <5>3. CASE i # lo
          <6>1. i - 1 \in lo..(k + 1) /\ i - 1 # k + 1 /\ g[i - 1] = f[i - 1]
            BY <5>1, <5>3
          <6> QED BY <3>2, <5>1, <5>3, <6>1
        <5> QED BY <5>2, <5>3
      <4> QED BY <4>1, <4>2
    <3>6. Recursive(g, lo, k + 1, a, F)
      <4> HIDE DEF g
      <4>1. g = [i \in lo..(k + 1) |-> g[i]]
        BY <3>4
      <4> QED BY <3>5, <4>1 DEF Recursive
    <3> HIDE DEF g
    <3> QED BY <3>3, <3>4, <3>6
  <2>3. lo..hi \subseteq P
    <3> HIDE DEF P
    <3> QED BY <1>2, <2>1, <2>2, Climb
  <2>4. hi \in P
    BY <1>2, <2>3
  <2> QED BY <2>4
<1> QED BY <1>1, <1>2

-----------------------------------------------------------------------------
\* First in, first out.

LEMMA LeastIs ==
  ASSUME NEW a \in Int, NEW b \in Int
  PROVE  Least(a, b) \in {a, b} /\ Least(a, b) <= a /\ Least(a, b) <= b
BY DEF Least

\* What the loop has left before each amount.
LEMMA RemainingIs ==
  ASSUME NEW n \in Nat, NEW amounts \in [1..n -> Nat], NEW all \in Nat
  PROVE  /\ \A i \in 1..n : Remaining(amounts, all)[i] \in Nat
         /\ n > 0 => Remaining(amounts, all)[1] = all
         /\ \A i \in 1..n : i < n =>
              Remaining(amounts, all)[i + 1]
                = Remaining(amounts, all)[i] - Least(Remaining(amounts, all)[i], amounts[i])
<1> DEFINE After(x, i) == x - Least(x, amounts[i])
           Loop(f) == f = [i \in 1..n |-> IF i = 1 THEN all ELSE After(f[i - 1], i - 1)]
           r == Remaining(amounts, all)
<1>1. \A i \in 1..n, x \in Nat : After(x, i) \in Nat
  <2> SUFFICES ASSUME NEW i \in 1..n, NEW x \in Nat
               PROVE  After(x, i) \in Nat
    OBVIOUS
  <2>1. amounts[i] \in Nat
    OBVIOUS
  <2> QED BY <2>1 DEF Least
<1>2. \E f : Loop(f)
  <2> DEFINE F == [p \in (1..n) \X Nat |-> IF p[1] = 1 THEN 0 ELSE After(p[2], p[1] - 1)]
  <2>1. F \in [(1..n) \X Nat -> Nat]
    <3>1. ASSUME NEW p \in (1..n) \X Nat
          PROVE  (IF p[1] = 1 THEN 0 ELSE After(p[2], p[1] - 1)) \in Nat
      <4>1. p[1] \in 1..n /\ p[2] \in Nat /\ (p[1] # 1 => p[1] - 1 \in 1..n)
        OBVIOUS
      <4> HIDE DEF After
      <4> QED BY <1>1, <4>1
    <3> HIDE DEF After
    <3> QED BY <3>1
  <2>2. PICK f \in [1..n -> Nat] : Recursive(f, 1, n, all, F)
    <3> HIDE DEF F
    <3> QED BY <2>1, RecursiveExists
  <2>3. \A i \in 1..n : i # 1 => F[<<i, f[i - 1]>>] = After(f[i - 1], i - 1)
    <3> SUFFICES ASSUME NEW i \in 1..n, i # 1
                 PROVE  F[<<i, f[i - 1]>>] = After(f[i - 1], i - 1)
      OBVIOUS
    <3>1. i - 1 \in 1..n /\ f[i - 1] \in Nat /\ <<i, f[i - 1]>> \in (1..n) \X Nat
      BY <2>2
    <3> HIDE DEF After
    <3> QED BY <3>1
  <2>4. Loop(f)
    <3> HIDE DEF After, F
    <3> QED BY <2>2, <2>3 DEF Recursive
  <2> QED BY <2>4
<1>3. Loop(r)
  <2>1. r = CHOOSE f : Loop(f)
    BY DEF Remaining
  <2> HIDE DEF Loop, r
  <2> QED BY <1>2, <2>1
<1>4. \A i \in 1..n : r[i] = IF i = 1 THEN all ELSE After(r[i - 1], i - 1)
  <2> HIDE DEF After, r
  <2> QED BY <1>3
<1> HIDE DEF After, r
<1>5. n > 0 => r[1] = all
  BY <1>4
<1>6. \A i \in 1..n : i < n => r[i + 1] = After(r[i], i)
  <2> SUFFICES ASSUME NEW i \in 1..n, i < n
               PROVE  r[i + 1] = After(r[i], i)
    OBVIOUS
  <2>1. i + 1 \in 1..n /\ i + 1 # 1 /\ (i + 1) - 1 = i
    OBVIOUS
  <2> QED BY <1>4, <2>1
<1>7. \A i \in 1..n : r[i] \in Nat
  <2> DEFINE P == {i \in 1..n : r[i] \in Nat}
  <2>1. 1 <= n => 1 \in P
    BY <1>5
  <2>2. ASSUME NEW i \in 1..n, i \in P, i < n
        PROVE  i + 1 \in P
    <3>1. r[i + 1] = After(r[i], i) /\ After(r[i], i) \in Nat
      BY <1>1, <1>6, <2>2
    <3> QED BY <2>2, <3>1
  <2>3. 1..n \subseteq P
    <3> HIDE DEF P
    <3> QED BY <2>1, <2>2, Climb
  <2> QED BY <2>3
<1> QED BY <1>5, <1>6, <1>7 DEF r, After

BoughtBundle == [amount : Amounts, threshold : Thresholds \cup {Off}]

\* The bundles, as the rest of this section needs them.
LEMMA BundlesAre ==
  ASSUME TypeOK
  PROVE  /\ Len(bundles) \in Nat /\ consumed \in Nat
         /\ \A i \in Bought : bundles[i].amount \in Nat \ {0}
         /\ [i \in Bought |-> bundles[i].amount] \in [Bought -> Nat]
<1>1. bundles \in Seq(BoughtBundle) /\ consumed \in Nat
  BY DEF TypeOK, BoughtBundle
<1>2. Len(bundles) \in Nat
  BY <1>1
<1>3. \A i \in Bought : bundles[i] \in BoughtBundle
  BY <1>1 DEF Bought
<1>4. \A i \in Bought : bundles[i].amount \in Nat \ {0}
  BY <1>3, ConstantsAssumption DEF BoughtBundle
<1> QED BY <1>1, <1>2, <1>4

\* The sum of the amounts of the first bundles, one by one.
LEMMA BeforeIs ==
  ASSUME TypeOK
  PROVE  /\ Before[0] = 0
         /\ \A i \in Bought : Before[i - 1] \in Nat /\ Before[i] = Before[i - 1] + bundles[i].amount
<1> DEFINE n == Len(bundles)
           Loop(f) == f = [i \in 0..n |-> IF i = 0 THEN 0 ELSE f[i - 1] + bundles[i].amount]
<1>1. n \in Nat /\ Bought = 1..n /\ \A i \in 1..n : bundles[i].amount \in Nat
  BY BundlesAre DEF Bought
<1>2. \E f : Loop(f)
  <2> DEFINE F == [p \in (0..n) \X Nat |-> IF p[1] = 0 THEN 0 ELSE p[2] + bundles[p[1]].amount]
  <2>1. F \in [(0..n) \X Nat -> Nat]
    <3>1. ASSUME NEW p \in (0..n) \X Nat
          PROVE  (IF p[1] = 0 THEN 0 ELSE p[2] + bundles[p[1]].amount) \in Nat
      <4>1. p[2] \in Nat /\ (p[1] # 0 => p[1] \in 1..n)
        BY <1>1
      <4>2. p[1] # 0 => bundles[p[1]].amount \in Nat
        BY <1>1, <4>1
      <4> QED BY <4>1, <4>2
    <3> QED BY <3>1
  <2>2. PICK f \in [0..n -> Nat] : Recursive(f, 0, n, 0, F)
    <3> HIDE DEF F, n
    <3> QED BY <1>1, <2>1, RecursiveExists
  <2>3. \A i \in 0..n : i # 0 => F[<<i, f[i - 1]>>] = f[i - 1] + bundles[i].amount
    <3> SUFFICES ASSUME NEW i \in 0..n, i # 0
                 PROVE  F[<<i, f[i - 1]>>] = f[i - 1] + bundles[i].amount
      OBVIOUS
    <3> HIDE DEF n
    <3>1. i - 1 \in 0..n /\ f[i - 1] \in Nat /\ <<i, f[i - 1]>> \in (0..n) \X Nat
      BY <1>1, <2>2
    <3> QED BY <3>1
  <2>4. Loop(f)
    <3> HIDE DEF F, n
    <3> QED BY <2>2, <2>3 DEF Recursive
  <2> QED BY <2>4
<1>3. Loop(Before)
  <2>1. Before = CHOOSE f : Loop(f)
    BY DEF Before
  <2> HIDE DEF Loop
  <2> QED BY <1>2, <2>1
<1>4. /\ Before[0] = 0
      /\ \A i \in 1..n : Before[i] = Before[i - 1] + bundles[i].amount
  <2> HIDE DEF n
  <2>1. \A i \in 0..n : Before[i] = IF i = 0 THEN 0 ELSE Before[i - 1] + bundles[i].amount
    BY <1>3
  <2>2. 0 \in 0..n /\ \A i \in 1..n : i \in 0..n /\ i # 0
    BY <1>1
  <2> QED BY <2>1, <2>2
<1>5. 0..n \subseteq {i \in 0..n : Before[i] \in Nat}
  <2> DEFINE P == {i \in 0..n : Before[i] \in Nat}
  <2> HIDE DEF n
  <2>1. 0 <= n => 0 \in P
    BY <1>4
  <2>2. ASSUME NEW i \in 0..n, i \in P, i < n
        PROVE  i + 1 \in P
    <3>1. i + 1 \in 1..n /\ (i + 1) - 1 = i
      BY <1>1, <2>2
    <3>2. Before[i + 1] = Before[i] + bundles[i + 1].amount
      BY <1>4, <3>1
    <3>3. bundles[i + 1].amount \in Nat
      BY <1>1, <3>1
    <3> QED BY <2>2, <3>1, <3>2, <3>3
  <2> HIDE DEF P
  <2>3. 0..n \subseteq P
    BY <1>1, <2>1, <2>2, Climb
  <2> QED BY <2>3 DEF P
<1>6. \A i \in 1..n : i - 1 \in 0..n
  <2> HIDE DEF n
  <2> QED BY <1>1
<1> QED BY <1>1, <1>4, <1>5, <1>6

\* Before each bundle the loop of the report has what those before it left.
LEMMA ReportLeaves ==
  ASSUME TypeOK, NEW i \in Bought
  PROVE  Remaining([j \in Bought |-> bundles[j].amount], consumed)[i]
           = IF consumed <= Before[i - 1] THEN 0 ELSE consumed - Before[i - 1]
<1> DEFINE n == Len(bundles)
           amounts == [j \in Bought |-> bundles[j].amount]
           r == Remaining(amounts, consumed)
           P == {j \in 1..n : r[j] = IF consumed <= Before[j - 1] THEN 0 ELSE consumed - Before[j - 1]}
<1>1. n \in Nat /\ consumed \in Nat /\ Bought = 1..n
  BY BundlesAre DEF Bought
<1>2. \A j \in 1..n : /\ bundles[j].amount \in Nat /\ amounts[j] = bundles[j].amount
                      /\ Before[j - 1] \in Nat
                      /\ Before[j] = Before[j - 1] + bundles[j].amount
  BY <1>1, BundlesAre, BeforeIs
<1>3. Before[0] = 0
  BY BeforeIs
<1>4. amounts \in [1..n -> Nat]
  BY <1>1, BundlesAre
<1> HIDE DEF n, amounts
<1>5. /\ \A j \in 1..n : r[j] \in Nat
      /\ n > 0 => r[1] = consumed
      /\ \A j \in 1..n : j < n => r[j + 1] = r[j] - Least(r[j], amounts[j])
  BY <1>1, <1>4, RemainingIs
<1> HIDE DEF r
<1>6. 1 <= n => 1 \in P
  <2> SUFFICES ASSUME 1 <= n PROVE 1 \in P
    OBVIOUS
  <2>1. 1 \in 1..n /\ r[1] = consumed /\ Before[1 - 1] = 0
    BY <1>1, <1>3, <1>5
  <2> QED BY <1>1, <2>1
<1>7. ASSUME NEW j \in 1..n, j \in P, j < n
      PROVE  j + 1 \in P
  <2>1. j + 1 \in 1..n /\ (j + 1) - 1 = j
    BY <1>1, <1>7
  <2>2. r[j + 1] = r[j] - Least(r[j], bundles[j].amount)
    BY <1>2, <1>5, <1>7
  <2>3. Before[j] = Before[j - 1] + bundles[j].amount /\ Before[j - 1] \in Nat /\ bundles[j].amount \in Nat
    BY <1>2
  <2>4. r[j] = IF consumed <= Before[j - 1] THEN 0 ELSE consumed - Before[j - 1]
    BY <1>7
  <2>5. r[j + 1] = IF consumed <= Before[j] THEN 0 ELSE consumed - Before[j]
    BY <1>1, <2>2, <2>3, <2>4 DEF Least
  <2> QED BY <2>1, <2>5
<1>8. 1..n \subseteq P
  <2> HIDE DEF P
  <2> QED BY <1>1, <1>6, <1>7, Climb
<1> QED BY <1>1, <1>8 DEF r, amounts

LEMMA FifoReport == TypeOK => ReportIsFifo
<1> SUFFICES ASSUME TypeOK, NEW i \in Bought
             PROVE  Report(consumed)[i] = IF consumed <= Before[i - 1] THEN 0
                                          ELSE Least(bundles[i].amount, consumed - Before[i - 1])
  BY DEF ReportIsFifo
<1> DEFINE amounts == [j \in Bought |-> bundles[j].amount]
           r == Remaining(amounts, consumed)[i]
<1>1. Report(consumed)[i] = Least(r, bundles[i].amount)
  BY DEF Report, Fifo
<1>2. r = IF consumed <= Before[i - 1] THEN 0 ELSE consumed - Before[i - 1]
  BY ReportLeaves
<1>3. bundles[i].amount \in Nat /\ consumed \in Nat /\ Before[i - 1] \in Nat
  BY BundlesAre, BeforeIs
<1> HIDE DEF r
<1> QED BY <1>1, <1>2, <1>3 DEF Least

LEMMA DivMonotone ==
  ASSUME NEW d \in Nat \ {0}, NEW x \in Nat, NEW y \in Nat, x <= y
  PROVE  x \div d <= y \div d
<1> DEFINE p == x \div d
           q == y \div d
<1>1. p \in Nat /\ q \in Nat /\ d * p <= x /\ y < d * q + d
  OBVIOUS
<1> HIDE DEF p, q
<1>2. SUFFICES ASSUME p >= q + 1 PROVE FALSE
  BY <1>1 DEF p, q
<1>3. d * p >= d * (q + 1) /\ d * (q + 1) = d * q + d
  BY <1>1, <1>2
<1> QED BY <1>1, <1>3

\* What a bundle does not take is left for those after it: smaller amounts leave more.
LEMMA LessTakenMoreLeft ==
  ASSUME NEW n \in Nat, NEW a \in [1..n -> Nat], NEW b \in [1..n -> Nat],
         \A i \in 1..n : b[i] <= a[i],
         NEW all \in Nat
  PROVE  \A i \in 1..n : Remaining(a, all)[i] <= Remaining(b, all)[i]
<1> DEFINE r == Remaining(a, all)
           s == Remaining(b, all)
           P == {i \in 1..n : r[i] <= s[i]}
<1>1. /\ \A i \in 1..n : r[i] \in Nat
      /\ n > 0 => r[1] = all
      /\ \A i \in 1..n : i < n => r[i + 1] = r[i] - Least(r[i], a[i])
  BY RemainingIs
<1>2. /\ \A i \in 1..n : s[i] \in Nat
      /\ n > 0 => s[1] = all
      /\ \A i \in 1..n : i < n => s[i + 1] = s[i] - Least(s[i], b[i])
  BY RemainingIs
<1> HIDE DEF r, s
<1>3. 1 <= n => 1 \in P
  BY <1>1, <1>2
<1>4. ASSUME NEW i \in 1..n, i \in P, i < n
      PROVE  i + 1 \in P
  <2>1. r[i + 1] = r[i] - Least(r[i], a[i]) /\ s[i + 1] = s[i] - Least(s[i], b[i])
    BY <1>1, <1>2, <1>4
  <2>2. r[i] \in Nat /\ s[i] \in Nat /\ r[i] <= s[i]
    BY <1>1, <1>2, <1>4
  <2>3. a[i] \in Nat /\ b[i] \in Nat /\ b[i] <= a[i]
    OBVIOUS
  <2>4. r[i + 1] <= s[i + 1]
    BY <2>1, <2>2, <2>3 DEF Least
  <2> QED BY <1>4, <2>4
<1>5. 1..n \subseteq P
  <2> HIDE DEF P
  <2> QED BY <1>3, <1>4, Climb
<1> QED BY <1>5 DEF r, s

\* The alert check counts at least as much for a bundle it watches as the report.
LEMMA SharesAtLeast ==
  ASSUME TypeOK, NEW i \in Bought, Watched(i)
  PROVE  /\ Report(consumed)[i] \in Nat /\ WatchedShares(consumed)[i] \in Nat
         /\ Report(consumed)[i] <= WatchedShares(consumed)[i]
<1> DEFINE n == Len(bundles)
           a == [j \in Bought |-> bundles[j].amount]
           b == [j \in Bought |-> IF Watched(j) THEN bundles[j].amount ELSE 0]
           r == Remaining(a, consumed)[i]
           s == Remaining(b, consumed)[i]
<1>1. n \in Nat /\ consumed \in Nat /\ Bought = 1..n /\ i \in 1..n
  BY BundlesAre DEF Bought
<1>2. \A j \in Bought : bundles[j].amount \in Nat
  BY BundlesAre
<1>3. Report(consumed)[i] = Least(r, bundles[i].amount)
  BY DEF Report, Fifo
<1>4. WatchedShares(consumed)[i] = Least(s, bundles[i].amount)
  BY DEF WatchedShares, Fifo
<1>5. a \in [1..n -> Nat]
  <2> HIDE DEF n
  <2> QED BY <1>1, <1>2
<1>6. b \in [1..n -> Nat] /\ \A j \in 1..n : b[j] <= a[j]
  <2> HIDE DEF n
  <2> QED BY <1>1, <1>2
<1> HIDE DEF n, a, b
<1>7. r \in Nat /\ s \in Nat
  BY <1>1, <1>5, <1>6, RemainingIs
<1>8. r <= s
  BY <1>1, <1>5, <1>6, LessTakenMoreLeft
<1> HIDE DEF r, s
<1>9. bundles[i].amount \in Nat
  BY <1>2
<1> QED BY <1>3, <1>4, <1>7, <1>8, <1>9 DEF Least

LEMMA NothingOverlooked == TypeOK => NoneOverlooked
<1> SUFFICES ASSUME TypeOK, NEW i \in Bought, Watched(i),
                    Reached(bundles[i].amount, Report(consumed)[i], bundles[i].threshold)
             PROVE  <<i, bundles[i].threshold>> \in DueNow(consumed)
  BY DEF NoneOverlooked
<1> DEFINE d == bundles[i].amount
           x == Report(consumed)[i]
           y == WatchedShares(consumed)[i]
           t == bundles[i].threshold
<1>1. d \in Nat \ {0} /\ x \in Nat /\ y \in Nat /\ x <= y
  BY BundlesAre, SharesAtLeast
<1>2. t \in Int
  <2>1. bundles \in Seq(BoughtBundle)
    BY DEF TypeOK, BoughtBundle
  <2>2. bundles[i] \in BoughtBundle
    BY <2>1 DEF Bought
  <2>3. t \in Thresholds
    BY <2>2 DEF BoughtBundle, Watched
  <2> HIDE DEF t
  <2> QED BY <2>3, ConstantsAssumption
<1>3. (x * 100) \div d >= t
  BY DEF Reached
<1> HIDE DEF d, x, y, t
<1>4. x * 100 \in Nat /\ y * 100 \in Nat /\ x * 100 <= y * 100
  BY <1>1
<1>5. (x * 100) \div d <= (y * 100) \div d
  BY <1>1, <1>4, DivMonotone
<1>6. (x * 100) \div d \in Int /\ (y * 100) \div d \in Int
  BY <1>1, <1>4
<1>7. (y * 100) \div d >= t
  BY <1>2, <1>3, <1>5, <1>6
<1>8. Reached(bundles[i].amount, WatchedShares(consumed)[i], bundles[i].threshold)
  BY <1>7 DEF Reached, d, y, t
<1> QED BY <1>8 DEF DueNow

-----------------------------------------------------------------------------
\* Types, and with them what the two queries show.

\* The loop of a check takes one of the letters that are left.
LEMMA FirstIn == ASSUME NEW S \in SUBSET Letters, S # {} PROVE First(S) \in S
<1> DEFINE P == {l[1] : l \in S}
<1>1. P \in SUBSET Nat /\ P # {}
  BY DEF Letters, Numbers
<1>2. PICK n \in P : \A k \in P : n <= k
  <2> HIDE DEF P
  <2> QED BY <1>1, LeastNumber
<1>3. \E l \in S : \A k \in S : l[1] <= k[1]
  BY <1>2
<1> QED BY <1>3 DEF First

LEMMA DueType ==
  ASSUME TypeOK, NEW all
  PROVE  DueNow(all) \in SUBSET Letters
<1>1. bundles \in Seq(BoughtBundle) /\ Len(bundles) <= MaxBundles /\ MaxBundles \in Nat
  BY ConstantsAssumption DEF TypeOK, BoughtBundle
<1>2. \A i \in Bought : bundles[i] \in BoughtBundle /\ i \in Numbers
  BY <1>1 DEF Bought, Numbers
<1>3. \A i \in Bought : Watched(i) => bundles[i].threshold \in Thresholds
  BY <1>2 DEF BoughtBundle, Watched
<1> QED BY <1>2, <1>3 DEF DueNow, Letters

LEMMA BundlesType ==
  ASSUME TypeOK, AdminStep
  PROVE  bundles' \in Seq(BoughtBundle) /\ Len(bundles') <= MaxBundles
<1>1. bundles \in Seq(BoughtBundle) /\ Len(bundles) <= MaxBundles /\ MaxBundles \in Nat
  BY ConstantsAssumption DEF TypeOK, BoughtBundle
<1>2. ASSUME NEW amount \in Amounts, NEW threshold \in Thresholds \cup {Off},
             AddBundle(amount, threshold)
      PROVE  bundles' \in Seq(BoughtBundle) /\ Len(bundles') <= MaxBundles
  <2>1. [amount |-> amount, threshold |-> threshold] \in BoughtBundle
    BY DEF BoughtBundle
  <2> QED BY <1>1, <1>2, <2>1, AppendProperties DEF AddBundle
<1>3. ASSUME NEW i \in Bought, NEW threshold \in Thresholds \cup {Off},
             UpdateBundleAlertThreshold(i, threshold)
      PROVE  bundles' \in Seq(BoughtBundle) /\ Len(bundles') <= MaxBundles
  <2> DEFINE b == [bundles[i] EXCEPT !.threshold = threshold]
  <2>1. bundles[i] \in BoughtBundle
    BY <1>1 DEF Bought
  <2>2. b \in BoughtBundle
    BY <2>1 DEF BoughtBundle
  <2>3. bundles' = [bundles EXCEPT ![i] = b]
    BY <1>3 DEF UpdateBundleAlertThreshold
  <2> HIDE DEF b
  <2> QED BY <1>1, <2>2, <2>3, ExceptSeq DEF Bought
<1>4. CASE ChangeRecipients
  BY <1>1, <1>4 DEF ChangeRecipients
<1> QED BY <1>2, <1>3, <1>4 DEF AdminStep

\* What a step of a check changes.
CheckType ==
  /\ log \subseteq Letters
  /\ copies \in [Letters -> Nat]
  /\ throttle \in BOOLEAN
  /\ place \in [Checks -> Places]
  /\ total \in [Checks -> 0..MaxConsumed]
  /\ due \in [Checks -> SUBSET Letters]
  /\ \A c \in Checks : place[c] \in {"look", "send", "record"} <=> due[c] # {}
  /\ faults \in 0..MaxFaults

LEMMA NextBundleType ==
  ASSUME CheckType, NEW c \in Checks, due[c] # {}, NextBundle(c)
  PROVE  /\ place' \in [Checks -> Places]
         /\ due' \in [Checks -> SUBSET Letters]
         /\ \A d \in Checks : place'[d] \in {"look", "send", "record"} <=> due'[d] # {}
<1>1. due' = [due EXCEPT ![c] = @ \ {First(@)}]
  BY DEF NextBundle
<1>2. due' \in [Checks -> SUBSET Letters]
  BY <1>1 DEF CheckType
<1>3. place' = [place EXCEPT ![c] = IF due'[c] = {} THEN "idle" ELSE "look"]
  BY DEF NextBundle, Goto
<1>4. \A d \in Checks : d # c => place'[d] = place[d] /\ due'[d] = due[d]
  BY <1>1, <1>3 DEF CheckType
<1>5. place'[c] = (IF due'[c] = {} THEN "idle" ELSE "look")
  BY <1>3 DEF CheckType
<1> QED BY <1>2, <1>3, <1>4, <1>5 DEF CheckType, Places

LEMMA GotoType ==
  ASSUME CheckType, NEW c \in Checks, place[c] \notin {"look", "send", "record"},
         NEW p \in Places \ {"look", "send", "record"}, Goto(c, p), UNCHANGED due
  PROVE  /\ place' \in [Checks -> Places]
         /\ due' \in [Checks -> SUBSET Letters]
         /\ \A d \in Checks : place'[d] \in {"look", "send", "record"} <=> due'[d] # {}
<1>1. \A d \in Checks : d # c => place'[d] = place[d]
  BY DEF CheckType, Goto
<1>2. place' \in [Checks -> Places] /\ place'[c] = p
  BY DEF CheckType, Goto
<1>3. due[c] = {}
  BY DEF CheckType
<1> QED BY <1>1, <1>2, <1>3 DEF CheckType

LEMMA StepType ==
  ASSUME TypeOK, NEW c \in Checks, Step(c)
  PROVE  CheckType'
<1> USE ConstantsAssumption
<1>1. CheckType
  BY DEF TypeOK, CheckType
<1>2. CASE TryAcquireThrottle(c)
  <2>1. PICK p \in {"idle", "recipients"} : Goto(c, p)
    BY <1>2 DEF TryAcquireThrottle
  <2>2. throttle' \in BOOLEAN
    BY <1>1, <1>2 DEF TryAcquireThrottle, CheckType
  <2>3. faults' \in 0..MaxFaults
    <3>1. faults' = faults \/ (faults' = faults + 1 /\ faults < MaxFaults)
      BY <1>2 DEF TryAcquireThrottle, Fault
    <3>2. faults \in 0..MaxFaults
      BY <1>1 DEF CheckType
    <3> QED BY <3>1, <3>2
  <2>4. UNCHANGED <<log, copies, total, due>> /\ place[c] = "throttle"
    BY <1>2 DEF TryAcquireThrottle, postgres
  <2>5. /\ place' \in [Checks -> Places] /\ due' \in [Checks -> SUBSET Letters]
        /\ \A d \in Checks : place'[d] \in {"look", "send", "record"} <=> due'[d] # {}
    BY <1>1, <2>1, <2>4, GotoType DEF Places
  <2> QED BY <1>1, <2>2, <2>3, <2>4, <2>5 DEF CheckType
<1>3. CASE Recipients(c)
  <2>1. PICK p \in {"idle", "total"} : Goto(c, p)
    BY <1>3 DEF Recipients
  <2>2. UNCHANGED <<log, copies, throttle, total, due>> /\ place[c] = "recipients"
    BY <1>3 DEF Recipients, postgres
  <2>3. faults' \in 0..MaxFaults
    BY <1>1, <1>3 DEF Recipients, CheckType, Fault
  <2>4. /\ place' \in [Checks -> Places] /\ due' \in [Checks -> SUBSET Letters]
        /\ \A d \in Checks : place'[d] \in {"look", "send", "record"} <=> due'[d] # {}
    BY <1>1, <2>1, <2>2, GotoType DEF Places
  <2> QED BY <1>1, <2>2, <2>3, <2>4 DEF CheckType
<1>4. CASE ReadTotal(c)
  <2>1. PICK p \in {"idle", "bundles"} : Goto(c, p)
    BY <1>4 DEF ReadTotal
  <2>2. UNCHANGED <<log, copies, throttle, due>> /\ place[c] = "total"
    BY <1>4 DEF ReadTotal, postgres
  <2>3. consumed \in 0..MaxConsumed
    BY DEF TypeOK
  <2>4. total' \in [Checks -> 0..MaxConsumed]
    BY <1>1, <1>4, <2>3 DEF ReadTotal, CheckType
  <2>5. faults' \in 0..MaxFaults
    BY <1>1, <1>4 DEF ReadTotal, CheckType, Fault
  <2>6. /\ place' \in [Checks -> Places] /\ due' \in [Checks -> SUBSET Letters]
        /\ \A d \in Checks : place'[d] \in {"look", "send", "record"} <=> due'[d] # {}
    BY <1>1, <2>1, <2>2, GotoType DEF Places
  <2> QED BY <1>1, <2>2, <2>4, <2>5, <2>6 DEF CheckType
<1>5. CASE ReadBundles(c)
  <2>1. DueNow(total[c]) \in SUBSET Letters
    BY DueType
  <2>2. CASE due' = [due EXCEPT ![c] = DueNow(total[c])]
             /\ Goto(c, IF due'[c] = {} THEN "idle" ELSE "look") /\ UNCHANGED faults
    BY <1>1, <1>5, <2>1, <2>2 DEF ReadBundles, CheckType, Goto, postgres, Places
  <2>3. CASE Fault("query") /\ Goto(c, "idle") /\ UNCHANGED due
    BY <1>1, <1>5, <2>3 DEF ReadBundles, CheckType, Goto, Fault, postgres, Places
  <2> QED BY <1>5, <2>2, <2>3 DEF ReadBundles
<1>6. ASSUME place[c] \in {"look", "send", "record"}
      PROVE  due[c] # {} /\ First(due[c]) \in Letters
  BY <1>1, <1>6, FirstIn DEF CheckType
<1>7. CASE BundleAlreadyNotified(c)
  <2>1. CASE NextBundle(c)
    BY <1>1, <1>6, <1>7, <2>1, NextBundleType DEF BundleAlreadyNotified, CheckType, Fault, postgres
  <2>2. CASE Goto(c, "send") /\ UNCHANGED <<due, faults>>
    BY <1>1, <1>7, <2>2 DEF BundleAlreadyNotified, CheckType, Goto, postgres, Places
  <2> QED BY <1>7, <2>1, <2>2 DEF BundleAlreadyNotified
<1>8. CASE SendBundleAlert(c)
  <2>1. copies' \in [Letters -> Nat]
    BY <1>1, <1>6, <1>8 DEF SendBundleAlert, CheckType
  <2>2. CASE NextBundle(c)
    BY <1>1, <1>6, <1>8, <2>1, <2>2, NextBundleType DEF SendBundleAlert, CheckType, Fault, postgres
  <2>3. CASE Goto(c, "record") /\ UNCHANGED <<due, faults>>
    BY <1>1, <1>8, <2>1, <2>3 DEF SendBundleAlert, CheckType, Goto, postgres, Places
  <2> QED BY <1>8, <2>2, <2>3 DEF SendBundleAlert
<1>9. CASE RecordBundleNotification(c)
  <2>1. log' \in SUBSET Letters /\ faults' \in 0..MaxFaults
    BY <1>1, <1>6, <1>9 DEF RecordBundleNotification, CheckType, Fault
  <2> QED BY <1>1, <1>6, <1>9, <2>1, NextBundleType DEF RecordBundleNotification, CheckType
<1> QED BY <1>2, <1>3, <1>4, <1>5, <1>7, <1>8, <1>9 DEF Step

\* Every variable keeps its type through every step of a check, of the administrator
\* and of the clocks, and across a restart: in particular a check that is looking,
\* sending or recording always has a letter to see to.
THEOREM AlertsTypeCorrect == Spec => []TypeOK
<1> USE ConstantsAssumption
<1>1. Init => TypeOK
  <2> SUFFICES ASSUME Init PROVE TypeOK
    OBVIOUS
  <2>1. bundles \in Seq([amount : Amounts, threshold : Thresholds \cup {Off}]) /\ Len(bundles) = 0
    BY EmptySeq DEF Init
  <2>2. CheckType
    <3>1. throttle \in BOOLEAN
      BY DEF Init
    <3>2. /\ copies \in [Letters -> Nat] /\ place \in [Checks -> Places]
          /\ total \in [Checks -> 0..MaxConsumed]
      BY DEF Init, Places
    <3>3. /\ due \in [Checks -> SUBSET Letters]
          /\ \A c \in Checks : place[c] \in {"look", "send", "record"} <=> due[c] # {}
      BY DEF Init
    <3> QED BY <3>1, <3>2, <3>3 DEF Init, CheckType
  <2>3. consumed \in 0..MaxConsumed /\ recipients \in BOOLEAN /\ updates \in 0..MaxUpdates
    BY DEF Init
  <2> QED BY <2>1, <2>2, <2>3 DEF TypeOK, CheckType
<1>2. ASSUME TypeOK, [Next]_vars
      PROVE  TypeOK'
  <2>1. ASSUME NEW c \in Checks, Stamp(c)
        PROVE  TypeOK'
    BY <1>2, <2>1 DEF Stamp, TypeOK, Goto, Least, Places
  <2>2. ASSUME NEW c \in Checks, Step(c)
        PROVE  TypeOK'
    <3>1. CheckType'
      BY <1>2, <2>2, StepType
    <3>2. UNCHANGED <<bundles, consumed, recipients, updates>>
      BY <2>2 DEF Step, TryAcquireThrottle, Recipients, ReadTotal, ReadBundles, postgres,
                  BundleAlreadyNotified, SendBundleAlert, RecordBundleNotification
    <3> QED BY <1>2, <3>1, <3>2 DEF TypeOK, CheckType
  <2>3. CASE AdminStep
    <3>1. bundles' \in Seq(BoughtBundle) /\ Len(bundles') <= MaxBundles
      BY <1>2, <2>3, BundlesType
    <3>2. UNCHANGED <<consumed, log, copies, throttle, place, total, due, faults>>
      BY <2>3 DEF AdminStep, AddBundle, UpdateBundleAlertThreshold, ChangeRecipients
    <3>3. recipients' \in BOOLEAN
      BY <1>2, <2>3 DEF AdminStep, AddBundle, UpdateBundleAlertThreshold, ChangeRecipients, TypeOK
    <3>4. updates' \in 0..MaxUpdates
      <4>1. UNCHANGED updates \/ (updates < MaxUpdates /\ updates' = updates + 1)
        BY <2>3 DEF AdminStep, AddBundle, UpdateBundleAlertThreshold, ChangeRecipients
      <4> QED BY <1>2, <4>1 DEF TypeOK
    <3> QED BY <1>2, <3>1, <3>2, <3>3, <3>4 DEF TypeOK, BoughtBundle
  <2>4. CASE ExpireThrottle
    BY <1>2, <2>4 DEF ExpireThrottle, TypeOK, postgres
  <2>5. CASE Crash
    BY <1>2, <2>5 DEF Crash, TypeOK, Fault, postgres, Places
  <2>6. CASE UNCHANGED vars
    BY <1>2, <2>6 DEF vars, TypeOK
  <2> QED BY <1>2, <2>1, <2>2, <2>3, <2>4, <2>5, <2>6 DEF Next
<1> QED BY <1>1, <1>2, PTL DEF Spec

\* The report spreads the consumption first in, first out, whatever the bundles.
THEOREM ReportCorrect == Spec => []ReportIsFifo
BY AlertsTypeCorrect, FifoReport, PTL

\* No bundle that the report shows at its threshold is left out of an alert check.
THEOREM NoneOverlookedCorrect == Spec => []NoneOverlooked
BY AlertsTypeCorrect, NothingOverlooked, PTL

-----------------------------------------------------------------------------
\* Letters and the log.

\* The checks about to send a letter, and those about to record one they sent.
Sending(l)   == {c \in Checks : place[c] = "send" /\ First(due[c]) = l}
Recording(l) == {c \in Checks : place[c] = "record" /\ First(due[c]) = l}

\* Every check, once, for each of n.
EachCheck(n) == Cardinality(Checks) * n

\* A letter that is not in the log has a copy for each check, once for each fault,
\* and one for each check about to record it.  From when it is in the log, no check
\* but those that had asked before sends it.
CopiesOpen   == \A l \in Letters \ log :
                  copies[l] <= EachCheck(faults) + Cardinality(Recording(l))
CopiesLogged == \A l \in log :
                  copies[l] + Cardinality(Sending(l)) <= EachCheck(faults) + Cardinality(Checks)
SentFirst    == \A c \in Checks : place[c] = "record" => copies[First(due[c])] > 0

LettersInv == CopiesOpen /\ CopiesLogged /\ SentFirst /\ LoggedWasSent

LEMMA ChecksCount ==
  /\ \A n \in Nat : EachCheck(n) \in Nat /\ EachCheck(n + 1) = EachCheck(n) + Cardinality(Checks)
  /\ Cardinality(Checks) \in Nat
  /\ Checks # {} => Cardinality(Checks) >= 1
  /\ EachCheck(0) = 0
<1>1. IsFiniteSet(Checks)
  BY ConstantsAssumption
<1>2. Cardinality(Checks) \in Nat /\ (Cardinality(Checks) = 0 <=> Checks = {})
  BY <1>1, FS_CardinalityType, FS_EmptySet
<1> DEFINE m == Cardinality(Checks)
<1> HIDE DEF m
<1>3. \A n \in Nat : m * n \in Nat /\ m * (n + 1) = m * n + m
  BY <1>2 DEF m
<1>4. m \in Nat /\ (Checks # {} => m >= 1) /\ m * 0 = 0
  BY <1>2 DEF m
<1>5. \A n \in Nat : EachCheck(n) = m * n
  BY DEF EachCheck, m
<1>6. EachCheck(0) = 0 /\ \A n \in Nat : EachCheck(n) \in Nat /\ EachCheck(n + 1) = EachCheck(n) + m
  <2>1. \A n \in Nat : n + 1 \in Nat
    OBVIOUS
  <2> QED BY <1>3, <1>4, <1>5, <2>1
<1> QED BY <1>4, <1>6 DEF m

\* The sets of checks are finite, and no check is about to do both.
LEMMA ChecksSplit ==
  ASSUME NEW l
  PROVE  /\ IsFiniteSet(Sending(l)) /\ IsFiniteSet(Recording(l))
         /\ Cardinality(Sending(l)) \in Nat /\ Cardinality(Recording(l)) \in Nat
         /\ Cardinality(Recording(l)) + Cardinality(Sending(l)) <= Cardinality(Checks)
<1>1. IsFiniteSet(Checks) /\ Sending(l) \subseteq Checks /\ Recording(l) \subseteq Checks
  BY ConstantsAssumption DEF Sending, Recording
<1>2. IsFiniteSet(Sending(l)) /\ IsFiniteSet(Recording(l))
  BY <1>1, FS_Subset
<1>3. Recording(l) \cap Sending(l) = {}
  BY DEF Sending, Recording
<1>4. Cardinality(Recording(l) \cup Sending(l))
        = Cardinality(Recording(l)) + Cardinality(Sending(l)) - Cardinality(Recording(l) \cap Sending(l))
  BY <1>2, FS_Union
<1>5. Cardinality(Recording(l) \cap Sending(l)) = 0
  BY <1>3, FS_EmptySet
<1>6. Cardinality(Recording(l) \cup Sending(l)) <= Cardinality(Checks)
  BY <1>1, FS_Subset
<1>7. Cardinality(Sending(l)) \in Nat /\ Cardinality(Recording(l)) \in Nat
  BY <1>2, FS_CardinalityType
<1> QED BY <1>2, <1>4, <1>5, <1>6, <1>7

\* The numbers the steps below are about.
LEMMA LettersNumbers ==
  ASSUME TypeOK, NEW l \in Letters
  PROVE  /\ copies[l] \in Nat /\ faults \in Nat /\ log \subseteq Letters
         /\ EachCheck(faults) \in Nat /\ Cardinality(Checks) \in Nat
         /\ EachCheck(faults + 1) = EachCheck(faults) + Cardinality(Checks)
         /\ Cardinality(Sending(l)) \in Nat /\ Cardinality(Recording(l)) \in Nat
         /\ Cardinality(Recording(l)) + Cardinality(Sending(l)) <= Cardinality(Checks)
<1>1. copies[l] \in Nat /\ faults \in Nat /\ log \subseteq Letters
  BY ConstantsAssumption DEF TypeOK
<1> QED BY <1>1, ChecksCount, ChecksSplit

LEMMA OneMore ==
  ASSUME TypeOK, NEW k \in Letters, copies' = [copies EXCEPT ![k] = @ + 1], NEW l \in Letters
  PROVE  copies'[l] = copies[l] + (IF l = k THEN 1 ELSE 0)
<1>1. copies \in [Letters -> Nat]
  BY DEF TypeOK
<1> QED BY <1>1

\* A step that nobody sends or records in.
LEMMA QuietStep ==
  ASSUME TypeOK, LettersInv, UNCHANGED <<log, copies, faults>>,
         \A c \in Checks : /\ place'[c] = "send" <=> place[c] = "send"
                           /\ place'[c] = "record" <=> place[c] = "record"
                           /\ place[c] \in {"send", "record"} => due'[c] = due[c]
  PROVE  LettersInv'
<1>1. \A l : Sending(l)' = Sending(l) /\ Recording(l)' = Recording(l)
  BY DEF Sending, Recording
<1>2. CopiesOpen'
  BY <1>1 DEF LettersInv, CopiesOpen, EachCheck
<1>3. CopiesLogged'
  BY <1>1 DEF LettersInv, CopiesLogged, EachCheck
<1>4. SentFirst'
  BY DEF LettersInv, SentFirst
<1>5. LoggedWasSent'
  BY DEF LettersInv, LoggedWasSent
<1> QED BY <1>2, <1>3, <1>4, <1>5 DEF LettersInv

\* A fault: nobody begins to send or to record, and at most one letter that was
\* being sent is delivered all the same.
LEMMA FaultStep ==
  ASSUME TypeOK, TypeOK', LettersInv, UNCHANGED log, faults' = faults + 1,
         \A c \in Checks : place'[c] \in {"send", "record"} =>
           place'[c] = place[c] /\ due'[c] = due[c],
         \/ UNCHANGED copies
         \/ \E c \in Checks : /\ place[c] = "send" /\ First(due[c]) \in Letters
                              /\ copies' = [copies EXCEPT ![First(due[c])] = @ + 1]
  PROVE  LettersInv'
<1>1. \A l : Sending(l)' \subseteq Sending(l)
  BY DEF Sending
<1>2. ASSUME NEW l \in Letters
      PROVE  /\ IsFiniteSet(Recording(l)') /\ Cardinality(Recording(l)') \in Nat
             /\ Cardinality(Sending(l)') \in Nat
             /\ Cardinality(Sending(l)') <= Cardinality(Sending(l))
  <2>1. Recording(l)' \subseteq Recording(l)
    BY DEF Recording
  <2>2. IsFiniteSet(Sending(l)) /\ IsFiniteSet(Recording(l))
    BY ChecksSplit
  <2>3. IsFiniteSet(Sending(l)') /\ IsFiniteSet(Recording(l)')
    BY <1>1, <2>1, <2>2, FS_Subset
  <2> QED BY <1>1, <2>2, <2>3, FS_Subset, FS_CardinalityType
<1>3. ASSUME NEW l \in Letters
      PROVE  /\ copies[l] <= copies'[l]
             /\ copies'[l] <= copies[l] + Cardinality(Sending(l))
             /\ copies'[l] <= copies[l] + Cardinality(Checks)
             /\ copies'[l] \in Nat
  <2>1. CASE UNCHANGED copies
    BY <2>1, LettersNumbers
  <2>2. ASSUME NEW c \in Checks, place[c] = "send", First(due[c]) \in Letters,
               copies' = [copies EXCEPT ![First(due[c])] = @ + 1]
        PROVE  /\ copies[l] <= copies'[l]
               /\ copies'[l] <= copies[l] + Cardinality(Sending(l))
               /\ copies'[l] <= copies[l] + Cardinality(Checks)
               /\ copies'[l] \in Nat
    <3>1. copies'[l] = copies[l] + (IF l = First(due[c]) THEN 1 ELSE 0)
      BY <2>2, OneMore
    <3>2. l = First(due[c]) => Sending(l) # {}
      BY <2>2 DEF Sending
    <3>3. Sending(l) # {} => Cardinality(Sending(l)) # 0
      BY ChecksSplit, FS_EmptySet
    <3> QED BY <3>1, <3>2, <3>3, LettersNumbers
  <2> QED BY <2>1, <2>2
<1>4. CopiesOpen'
  <2> SUFFICES ASSUME NEW l \in Letters \ log
               PROVE  copies'[l] <= EachCheck(faults + 1) + Cardinality(Recording(l)')
    BY DEF CopiesOpen, EachCheck
  <2>1. copies[l] <= EachCheck(faults) + Cardinality(Recording(l))
    BY DEF LettersInv, CopiesOpen
  <2> QED BY <1>2, <1>3, <2>1, LettersNumbers
<1>5. CopiesLogged'
  <2> SUFFICES ASSUME NEW l \in log
               PROVE  copies'[l] + Cardinality(Sending(l)') <= EachCheck(faults + 1) + Cardinality(Checks)
    BY DEF CopiesLogged, EachCheck
  <2>1. l \in Letters
    BY DEF TypeOK
  <2>2. copies[l] + Cardinality(Sending(l)) <= EachCheck(faults) + Cardinality(Checks)
    BY DEF LettersInv, CopiesLogged
  <2> QED BY <1>2, <1>3, <2>1, <2>2, LettersNumbers
<1>6. SentFirst'
  <2> SUFFICES ASSUME NEW c \in Checks, place'[c] = "record"
               PROVE  copies'[First(due'[c])] > 0
    BY DEF SentFirst
  <2>1. place[c] = "record" /\ due'[c] = due[c]
    OBVIOUS
  <2>2. First(due[c]) \in Letters
    BY <2>1, FirstIn DEF TypeOK
  <2>3. copies[First(due[c])] > 0
    BY <2>1 DEF LettersInv, SentFirst
  <2> QED BY <1>3, <2>1, <2>2, <2>3, LettersNumbers
<1>7. LoggedWasSent'
  <2> SUFFICES ASSUME NEW l \in log PROVE copies'[l] > 0
    BY DEF LoggedWasSent
  <2>1. l \in Letters /\ copies[l] > 0
    BY DEF TypeOK, LettersInv, LoggedWasSent
  <2> QED BY <1>3, <2>1, LettersNumbers
<1> QED BY <1>4, <1>5, <1>6, <1>7 DEF LettersInv

\* A check finds that the letter is not in the log.
LEMMA AskStep ==
  ASSUME TypeOK, LettersInv, NEW c \in Checks, place[c] = "look", First(due[c]) \notin log,
         Goto(c, "send"), UNCHANGED <<due, log, copies, faults>>
  PROVE  LettersInv'
<1>1. \A d \in Checks : d # c => place'[d] = place[d]
  BY DEF Goto, TypeOK
<1>2. place'[c] = "send"
  BY DEF Goto, TypeOK
<1>3. \A l : Recording(l)' = Recording(l)
  BY <1>1, <1>2 DEF Recording
<1>4. \A l \in log : Sending(l)' = Sending(l)
  BY <1>1, <1>2 DEF Sending
<1>5. CopiesOpen'
  BY <1>3 DEF LettersInv, CopiesOpen, EachCheck
<1>6. CopiesLogged'
  BY <1>4 DEF LettersInv, CopiesLogged, EachCheck
<1>7. SentFirst'
  BY <1>1, <1>2 DEF LettersInv, SentFirst
<1>8. LoggedWasSent'
  BY DEF LettersInv, LoggedWasSent
<1> QED BY <1>5, <1>6, <1>7, <1>8 DEF LettersInv

\* A letter is delivered, and its sender knows.
LEMMA SendStep ==
  ASSUME TypeOK, LettersInv, NEW c \in Checks, place[c] = "send",
         copies' = [copies EXCEPT ![First(due[c])] = @ + 1],
         Goto(c, "record"), UNCHANGED <<due, log, faults>>
  PROVE  LettersInv'
<1>0. PICK k \in Letters : k = First(due[c])
  BY FirstIn DEF TypeOK
<1>1. \A d \in Checks : d # c => place'[d] = place[d]
  BY DEF Goto, TypeOK
<1>2. place'[c] = "record"
  BY DEF Goto, TypeOK
<1>4. \A l : l # k => Recording(l)' = Recording(l) /\ Sending(l)' = Sending(l)
  BY <1>0, <1>1, <1>2 DEF Recording, Sending
<1>5. /\ Recording(k)' = Recording(k) \cup {c} /\ c \notin Recording(k)
      /\ Sending(k)' = Sending(k) \ {c} /\ c \in Sending(k)
  BY <1>0, <1>1, <1>2 DEF Recording, Sending
<1>6. /\ Cardinality(Recording(k)') = Cardinality(Recording(k)) + 1
      /\ Cardinality(Sending(k)') = Cardinality(Sending(k)) - 1
  <2>1. IsFiniteSet(Recording(k)) /\ IsFiniteSet(Sending(k))
    BY ChecksSplit
  <2>2. Cardinality(Recording(k) \cup {c}) = Cardinality(Recording(k)) + 1
    BY <1>5, <2>1, FS_AddElement
  <2>3. Cardinality(Sending(k) \ {c}) = Cardinality(Sending(k)) - 1
    BY <1>5, <2>1, FS_RemoveElement
  <2> QED BY <1>5, <2>2, <2>3
<1>7. \A l \in Letters : copies'[l] = copies[l] + (IF l = k THEN 1 ELSE 0)
  BY <1>0, OneMore
<1>8. CopiesOpen'
  <2> SUFFICES ASSUME NEW l \in Letters \ log
               PROVE  copies'[l] <= EachCheck(faults) + Cardinality(Recording(l)')
    BY DEF CopiesOpen, EachCheck
  <2>1. copies[l] <= EachCheck(faults) + Cardinality(Recording(l))
    BY DEF LettersInv, CopiesOpen
  <2>2. CASE l = k
    <3>1. copies'[l] = copies[l] + 1 /\ Cardinality(Recording(l)') = Cardinality(Recording(l)) + 1
      BY <1>6, <1>7, <2>2
    <3> QED BY <2>1, <3>1, LettersNumbers
  <2>3. CASE l # k
    <3>1. Cardinality(Recording(l)') = Cardinality(Recording(l))
      BY <1>4, <2>3
    <3> QED BY <1>7, <2>1, <2>3, <3>1, LettersNumbers
  <2> QED BY <2>2, <2>3
<1>9. CopiesLogged'
  <2> SUFFICES ASSUME NEW l \in log
               PROVE  copies'[l] + Cardinality(Sending(l)') <= EachCheck(faults) + Cardinality(Checks)
    BY DEF CopiesLogged, EachCheck
  <2>1. l \in Letters
    BY DEF TypeOK
  <2>2. copies[l] + Cardinality(Sending(l)) <= EachCheck(faults) + Cardinality(Checks)
    BY DEF LettersInv, CopiesLogged
  <2>3. CASE l = k
    <3>1. copies'[l] = copies[l] + 1 /\ Cardinality(Sending(l)') = Cardinality(Sending(l)) - 1
      BY <1>6, <1>7, <2>1, <2>3
    <3> QED BY <2>1, <2>2, <3>1, LettersNumbers
  <2>4. CASE l # k
    <3>1. Cardinality(Sending(l)') = Cardinality(Sending(l))
      BY <1>4, <2>4
    <3> QED BY <1>7, <2>1, <2>2, <2>4, <3>1, LettersNumbers
  <2> QED BY <2>3, <2>4
<1>10. SentFirst'
  <2> SUFFICES ASSUME NEW d \in Checks, place'[d] = "record"
               PROVE  copies'[First(due[d])] > 0
    BY DEF SentFirst
  <2>1. CASE d = c
    BY <1>0, <1>7, <2>1, LettersNumbers
  <2>2. CASE d # c
    <3>1. place[d] = "record"
      BY <1>1, <2>2
    <3>2. copies[First(due[d])] > 0 /\ First(due[d]) \in Letters
      BY <3>1, FirstIn DEF LettersInv, SentFirst, TypeOK
    <3> QED BY <1>7, <3>2, LettersNumbers
  <2> QED BY <2>1, <2>2
<1>11. LoggedWasSent'
  <2> SUFFICES ASSUME NEW l \in log PROVE copies'[l] > 0
    BY DEF LoggedWasSent
  <2>1. l \in Letters /\ copies[l] > 0
    BY DEF TypeOK, LettersInv, LoggedWasSent
  <2> QED BY <1>7, <2>1, LettersNumbers
<1> QED BY <1>8, <1>9, <1>10, <1>11 DEF LettersInv

\* A letter that was sent is recorded.
LEMMA RecordStep ==
  ASSUME TypeOK, LettersInv, NEW c \in Checks, place[c] = "record",
         log' = log \cup {First(due[c])}, NextBundle(c), UNCHANGED <<copies, faults>>
  PROVE  LettersInv'
<1>0. PICK k \in Letters : k = First(due[c])
  BY FirstIn DEF TypeOK
<1>1. \A d \in Checks : d # c => place'[d] = place[d] /\ due'[d] = due[d]
  BY DEF NextBundle, Goto, TypeOK
<1>2. place'[c] \in {"idle", "look"}
  BY DEF NextBundle, Goto, TypeOK
<1>4. \A l : Sending(l)' = Sending(l) /\ (l # k => Recording(l)' = Recording(l))
  BY <1>0, <1>1, <1>2 DEF Recording, Sending
<1>5. CopiesOpen'
  <2> SUFFICES ASSUME NEW l \in Letters \ log, l # k
               PROVE  copies[l] <= EachCheck(faults) + Cardinality(Recording(l)')
    BY <1>0 DEF CopiesOpen, EachCheck
  <2>1. Recording(l)' = Recording(l)
    BY <1>4
  <2> QED BY <2>1 DEF LettersInv, CopiesOpen
<1>6. CopiesLogged'
  <2> SUFFICES ASSUME NEW l \in log \cup {k}
               PROVE  copies[l] + Cardinality(Sending(l)) <= EachCheck(faults) + Cardinality(Checks)
    BY <1>0, <1>4 DEF CopiesLogged, EachCheck
  <2>1. CASE l \in log
    BY <2>1 DEF LettersInv, CopiesLogged
  <2>2. CASE l \notin log
    <3>1. l \in Letters
      BY <2>2
    <3>2. copies[l] <= EachCheck(faults) + Cardinality(Recording(l))
      BY <2>2, <3>1 DEF LettersInv, CopiesOpen
    <3> QED BY <3>1, <3>2, LettersNumbers
  <2> QED BY <2>1, <2>2
<1>7. SentFirst'
  BY <1>1, <1>2 DEF LettersInv, SentFirst
<1>8. LoggedWasSent'
  BY <1>0 DEF LettersInv, LoggedWasSent, SentFirst
<1> QED BY <1>5, <1>6, <1>7, <1>8 DEF LettersInv

LEMMA LettersStep ==
  ASSUME TypeOK, TypeOK', LettersInv, [Next]_vars
  PROVE  LettersInv'
<1>1. ASSUME NEW c \in Checks, NextBundle(c)
      PROVE  /\ \A d \in Checks : d # c => place'[d] = place[d] /\ due'[d] = due[d]
             /\ place'[c] \in {"idle", "look"}
  BY <1>1 DEF NextBundle, Goto, TypeOK
<1>2. ASSUME NEW c \in Checks, NEW p \in Places \ {"send", "record"},
             Goto(c, p) /\ \A d \in Checks : d # c => due'[d] = due[d]
      PROVE  /\ \A d \in Checks : d # c => place'[d] = place[d] /\ due'[d] = due[d]
             /\ place'[c] \notin {"send", "record"}
  BY <1>2 DEF Goto, TypeOK
<1>3. ASSUME NEW c \in Checks, place[c] \notin {"send", "record"}, place'[c] \notin {"send", "record"},
             \A d \in Checks : d # c => place'[d] = place[d] /\ due'[d] = due[d],
             UNCHANGED <<log, copies>>, UNCHANGED faults \/ faults' = faults + 1
      PROVE  LettersInv'
  BY <1>3, QuietStep, FaultStep
<1>4. ASSUME NEW c \in Checks, Stamp(c)
      PROVE  LettersInv'
  BY <1>2, <1>3, <1>4 DEF Stamp, Places
<1>5. ASSUME NEW c \in Checks, Step(c)
      PROVE  LettersInv'
  <2>1. CASE TryAcquireThrottle(c)
    <3>1. \E p \in {"idle", "recipients"} : Goto(c, p)
      BY <2>1 DEF TryAcquireThrottle
    <3>2. UNCHANGED <<log, copies, due>> /\ (UNCHANGED faults \/ faults' = faults + 1)
      BY <2>1 DEF TryAcquireThrottle, Fault, postgres
    <3> QED BY <1>2, <1>3, <2>1, <3>1, <3>2 DEF TryAcquireThrottle, Places
  <2>2. CASE Recipients(c)
    <3>1. \E p \in {"idle", "total"} : Goto(c, p)
      BY <2>2 DEF Recipients
    <3>2. UNCHANGED <<log, copies, due>> /\ (UNCHANGED faults \/ faults' = faults + 1)
      BY <2>2 DEF Recipients, Fault, postgres
    <3> QED BY <1>2, <1>3, <2>2, <3>1, <3>2 DEF Recipients, Places
  <2>3. CASE ReadTotal(c)
    <3>1. \E p \in {"idle", "bundles"} : Goto(c, p)
      BY <2>3 DEF ReadTotal
    <3>2. UNCHANGED <<log, copies, due>> /\ (UNCHANGED faults \/ faults' = faults + 1)
      BY <2>3 DEF ReadTotal, Fault, postgres
    <3> QED BY <1>2, <1>3, <2>3, <3>1, <3>2 DEF ReadTotal, Places
  <2>4. CASE ReadBundles(c)
    <3>1. \E p \in {"idle", "look"} : Goto(c, p)
      BY <2>4 DEF ReadBundles
    <3>2. UNCHANGED <<log, copies>> /\ (UNCHANGED faults \/ faults' = faults + 1)
      BY <2>4 DEF ReadBundles, Fault, postgres
    <3>3. \A d \in Checks : d # c => due'[d] = due[d]
      BY <2>4 DEF ReadBundles, TypeOK
    <3> QED BY <1>2, <1>3, <2>4, <3>1, <3>2, <3>3 DEF ReadBundles, Places
  <2>5. CASE BundleAlreadyNotified(c)
    <3>1. CASE NextBundle(c)
      <4>1. UNCHANGED <<log, copies>> /\ (UNCHANGED faults \/ faults' = faults + 1)
        BY <2>5 DEF BundleAlreadyNotified, Fault, postgres
      <4> QED BY <1>1, <1>3, <2>5, <3>1, <4>1 DEF BundleAlreadyNotified
    <3>2. CASE First(due[c]) \notin log /\ Goto(c, "send") /\ UNCHANGED <<due, faults>>
      BY <2>5, <3>2, AskStep DEF BundleAlreadyNotified, postgres
    <3> QED BY <2>5, <3>1, <3>2 DEF BundleAlreadyNotified
  <2>6. CASE SendBundleAlert(c)
    <3>1. CASE /\ copies' = [copies EXCEPT ![First(due[c])] = @ + 1]
               /\ Goto(c, "record") /\ UNCHANGED <<due, faults>>
      BY <2>6, <3>1, SendStep DEF SendBundleAlert, postgres
    <3>2. CASE /\ Fault("mail") /\ NextBundle(c)
               /\ copies' \in {copies, [copies EXCEPT ![First(due[c])] = @ + 1]}
      <4>1. First(due[c]) \in Letters /\ place[c] = "send"
        BY <2>6, FirstIn DEF SendBundleAlert, TypeOK
      <4>2. UNCHANGED log /\ faults' = faults + 1
        BY <2>6, <3>2 DEF SendBundleAlert, postgres, Fault
      <4> QED BY <1>1, <3>2, <4>1, <4>2, FaultStep
    <3> QED BY <2>6, <3>1, <3>2 DEF SendBundleAlert
  <2>7. CASE RecordBundleNotification(c)
    <3>1. CASE log' = log \cup {First(due[c])} /\ UNCHANGED faults
      BY <2>7, <3>1, RecordStep DEF RecordBundleNotification
    <3>2. CASE Fault("record") /\ UNCHANGED log
      BY <1>1, <2>7, <3>2, FaultStep DEF RecordBundleNotification, Fault
    <3> QED BY <2>7, <3>1, <3>2 DEF RecordBundleNotification
  <2> QED BY <1>5, <2>1, <2>2, <2>3, <2>4, <2>5, <2>6, <2>7 DEF Step
<1>6. CASE AdminStep \/ ExpireThrottle \/ UNCHANGED vars
  <2>1. UNCHANGED <<log, copies, faults, place, due>>
    BY <1>6 DEF AdminStep, AddBundle, UpdateBundleAlertThreshold, ChangeRecipients,
                ExpireThrottle, vars, postgres
  <2> QED BY <2>1, QuietStep
<1>7. CASE Crash
  <2>1. UNCHANGED <<log, copies>> /\ faults' = faults + 1 /\ \A c \in Checks : place'[c] = "idle"
    BY <1>7 DEF Crash, Fault, postgres
  <2> QED BY <2>1, FaultStep
<1> QED BY <1>4, <1>5, <1>6, <1>7 DEF Next

LEMMA LettersCorrect == Spec => []LettersInv
<1>1. Init => LettersInv
  <2> SUFFICES ASSUME Init PROVE LettersInv
    OBVIOUS
  <2>1. log = {} /\ faults = 0 /\ \A c \in Checks : place[c] = "idle"
    BY DEF Init
  <2>2. ASSUME NEW l \in Letters
        PROVE  copies[l] <= EachCheck(faults) + Cardinality(Recording(l))
    <3>1. copies[l] = 0 /\ EachCheck(faults) = 0 /\ Cardinality(Recording(l)) \in Nat
      BY <2>1, ChecksCount, ChecksSplit DEF Init
    <3> QED BY <3>1
  <2> QED BY <2>1, <2>2 DEF LettersInv, CopiesOpen, CopiesLogged, SentFirst, LoggedWasSent
<1> QED BY <1>1, LettersStep, AlertsTypeCorrect, PTL DEF Spec

\* No row of the log is there for a letter that was never sent, in any run.
THEOREM LoggedCorrect == Spec => []LoggedWasSent
<1>1. LettersInv => LoggedWasSent
  BY DEF LettersInv
<1> QED BY <1>1, LettersCorrect, PTL

\* However the checks overlap, and whatever fails, a letter is repeated no more than
\* once by each check and by each again after each fault.
THEOREM CopiesCorrect == Spec => []CopiesBounded
<1>1. TypeOK /\ LettersInv => CopiesBounded
  <2> SUFFICES ASSUME TypeOK, LettersInv, NEW l \in Letters
               PROVE  copies[l] <= EachCheck(faults + 1)
    BY DEF CopiesBounded, EachCheck
  <2>1. CASE l \in log
    <3>1. copies[l] + Cardinality(Sending(l)) <= EachCheck(faults) + Cardinality(Checks)
      BY <2>1 DEF LettersInv, CopiesLogged
    <3> QED BY <3>1, LettersNumbers
  <2>2. CASE l \notin log
    <3>1. copies[l] <= EachCheck(faults) + Cardinality(Recording(l))
      BY <2>2 DEF LettersInv, CopiesOpen
    <3> QED BY <3>1, LettersNumbers
  <2> QED BY <2>1, <2>2
<1> QED BY <1>1, AlertsTypeCorrect, LettersCorrect, PTL
=============================================================================
