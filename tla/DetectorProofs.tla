--------------------------- MODULE DetectorProofs --------------------------
(***************************************************************************)
(* What the detectors do with matches and texts of any length, proved.     *)
(*                                                                         *)
(* Cards: the part of a match that is masked is the longest that is a card *)
(* number by the Luhn rule, the numbers synthCard makes up are found       *)
(* whole, and a card is due through the last day of its month, then never  *)
(* again.                                                                  *)
(*                                                                         *)
(* Names: the spans of findFIO and findFIOMorph do not overlap, no name is *)
(* skipped, a name on its own is masked to its last word, and no stop word *)
(* is masked, nor a word that is no name unless it bridges two that are.   *)
(***************************************************************************)
EXTENDS Names, Cards, Induction, FiniteSetTheorems

----------------------------------------------------------------------------
(* The clock.                                                              *)

\* What the clock needs to know of the constants.
LEMMA ClockConstants ==
  /\ FirstYear \in Nat /\ LastYear \in Nat /\ FirstYear <= LastYear
  /\ Dates \subseteq Nat \X Nat
BY CardsAssumption DEF CardsAssumption

\* The clock shows a month of the years it runs through.
ClockOK ==
  /\ year \in FirstYear..LastYear
  /\ month \in 1..12
  /\ date \in Dates \cup {NoDate}

\* The clock runs month by month.
LEMMA ClockNext ==
  ClockOK /\ [CardsNext]_cardsVars
    => /\ ClockOK'
       /\ date' = date
       /\ \/ UNCHANGED clock
          \/ 12 * year' + month' = 12 * year + month + 1
<1> SUFFICES ASSUME ClockOK, [CardsNext]_cardsVars
             PROVE  /\ ClockOK'
                    /\ date' = date
                    /\ \/ UNCHANGED clock
                       \/ 12 * year' + month' = 12 * year + month + 1
  OBVIOUS
<1>1. CASE NextMonth
  <2>1. /\ year < LastYear \/ month < 12
        /\ month' = (month % 12) + 1
        /\ year' = IF month = 12 THEN year + 1 ELSE year
        /\ date' = date
    BY <1>1 DEF NextMonth
  <2>2. /\ month \in 1..12 /\ year \in Nat /\ FirstYear <= year /\ year <= LastYear
        /\ FirstYear \in Nat /\ LastYear \in Nat
    BY ClockConstants DEF ClockOK
  <2>3. CASE month = 12
    BY <2>1, <2>2, <2>3 DEF ClockOK
  <2>4. CASE month # 12
    <3>1. month % 12 = month
      BY <2>2, <2>4
    <3> QED  BY <2>1, <2>2, <2>4, <3>1 DEF ClockOK
  <2> QED  BY <2>3, <2>4
<1>2. CASE Whole \/ Shorten \/ UNCHANGED cardsVars
  BY <1>2 DEF ClockOK, Whole, Shorten, cardsVars, clock
<1> QED  BY <1>1, <1>2 DEF CardsNext

\* The clock at any time.
LEMMA ClockInvariance == CardsSpec => []ClockOK
<1>1. CardsInit => ClockOK
  BY ClockConstants DEF CardsInit, ClockOK
<1>2. ClockOK /\ [CardsNext]_cardsVars => ClockOK'
  BY ClockNext
<1> QED  BY <1>1, <1>2, PTL DEF CardsSpec

\* The last month of a date, counted as the clock is.
LastMonth(d) == 12 * (IF d[2] < 100 THEN d[2] + 2000 ELSE d[2]) + d[1]

\* isFutureExpiry compares months.
LEMMA FutureIsMonths ==
  ASSUME NEW d \in Nat \X Nat, NEW y \in Nat, NEW m \in 1..12
  PROVE  IsFutureExpiry(d[1], d[2], y, m)
           <=> d[1] \in 1..12 /\ 12 * y + m <= LastMonth(d)
<1> DEFINE full == IF d[2] < 100 THEN d[2] + 2000 ELSE d[2]
<1>1. d[1] \in Nat /\ d[2] \in Nat
  OBVIOUS
<1>2. full \in Nat
  BY <1>1
<1>3. IsFutureExpiry(d[1], d[2], y, m)
        <=> d[1] \in 1..12 /\ IF full # y THEN full > y ELSE d[1] >= m
  BY DEF IsFutureExpiry
<1>4. LastMonth(d) = 12 * full + d[1]
  BY DEF LastMonth
<1> HIDE DEF full
<1>5. SUFFICES ASSUME d[1] \in 1..12
               PROVE  (IF full # y THEN full > y ELSE d[1] >= m)
                        <=> 12 * y + m <= 12 * full + d[1]
  BY <1>3, <1>4
<1>6. CASE full = y
  BY <1>1, <1>2, <1>6
<1>7. CASE full > y
  BY <1>1, <1>2, <1>5, <1>7
<1>8. CASE full < y
  BY <1>1, <1>2, <1>5, <1>8
<1> QED  BY <1>2, <1>6, <1>7, <1>8

\* The same of the date and the clock at hand.
LEMMA FutureByTheClock ==
  ASSUME ClockOK
  PROVE  Future <=> /\ date # NoDate
                    /\ date[1] \in 1..12
                    /\ 12 * year + month <= LastMonth(date)
<1>1. CASE date # NoDate
  <2>1. date \in Nat \X Nat /\ year \in Nat /\ month \in 1..12
    BY <1>1, ClockConstants DEF ClockOK
  <2> QED  BY <1>1, <2>1, FutureIsMonths DEF Future
<1>2. CASE date = NoDate
  BY <1>2 DEF Future
<1> QED  BY <1>1, <1>2

\* A card is masked up to and including the last month it is valid in, whatever
\* the year is written like (isFutureExpiry).
THEOREM CardsLastThroughTheirMonth == CardsSpec => []LastsThroughItsMonth
<1>1. ClockOK => LastsThroughItsMonth
  BY FutureByTheClock DEF LastsThroughItsMonth, LastMonth
<1> QED  BY <1>1, ClockInvariance, PTL

\* Time only ever ends the validity of a card (isFutureExpiry, time.Now).
THEOREM ExpiryIsForGood == CardsSpec => ExpiredForGood
<1>1. ASSUME ClockOK, ClockOK', [CardsNext]_cardsVars, ~UNCHANGED clock, ~Future
      PROVE  ~Future'
  <2>1. date' = date /\ 12 * year' + month' = 12 * year + month + 1
    BY <1>1, ClockNext
  <2>2. SUFFICES ASSUME date # NoDate
                 PROVE  ~IsFutureExpiry(date[1], date[2], year', month')
    BY <2>1 DEF Future
  <2>3. /\ date \in Nat \X Nat
        /\ year \in Nat /\ month \in 1..12 /\ year' \in Nat /\ month' \in 1..12
    BY <1>1, <2>2, ClockConstants DEF ClockOK
  <2>4. ~(date[1] \in 1..12 /\ 12 * year + month <= LastMonth(date))
    BY <1>1, <2>2, FutureByTheClock
  <2>5. LastMonth(date) \in Nat
    BY <2>3 DEF LastMonth
  <2>6. ~(date[1] \in 1..12 /\ 12 * year' + month' <= LastMonth(date))
    <3> DEFINE L == LastMonth(date)
               a == 12 * year + month
               b == 12 * year' + month'
    <3>1. b = a + 1
      BY <2>1
    <3>2. a \in Nat
      BY <2>3
    <3>3. ~(date[1] \in 1..12 /\ a <= L) /\ L \in Nat
      BY <2>4, <2>5
    <3> HIDE DEF L, a, b
    <3>4. ~(date[1] \in 1..12 /\ b <= L)
      BY <3>1, <3>2, <3>3
    <3> QED  BY <3>4 DEF L, b
  <2> QED  BY <2>3, <2>6, FutureIsMonths
<1>2. ClockOK /\ ClockOK' /\ [CardsNext]_cardsVars => [~Future => ~Future']_clock
  BY <1>1
<1> QED  BY <1>2, ClockInvariance, PTL DEF CardsSpec, ExpiredForGood

----------------------------------------------------------------------------
(* Sums over a finite set, in whatever order its members are taken.        *)

\* total[S] adds up the weights of S, one member of S after the other.
Sums(total, T, weight) ==
  total = [S \in SUBSET T |->
             IF S = {} THEN 0
             ELSE LET i == CHOOSE j \in S : TRUE IN weight[i] + total[S \ {i}]]

\* A member less is one less.
LEMMA OneLess ==
  ASSUME NEW S, IsFiniteSet(S), NEW i \in S
  PROVE  /\ IsFiniteSet(S \ {i})
         /\ Cardinality(S) \in Nat \ {0}
         /\ Cardinality(S \ {i}) = Cardinality(S) - 1
BY FS_RemoveElement, FS_CardinalityType, FS_EmptySet

\* Sums over a finite set exist.
LEMMA SumsExist ==
  ASSUME NEW T, IsFiniteSet(T), NEW weight \in [T -> Nat]
  PROVE  \E total : Sums(total, T, weight)
<1> DEFINE next(S, g) == IF S = {} THEN 0
                         ELSE LET i == CHOOSE j \in S : TRUE
                              IN weight[i] + g[S \ {i}]
           Good(n, g) == \A S \in SUBSET T :
                           Cardinality(S) <= n => g[S] = next(S, g)
           P == {n \in Nat : \E g : Good(n, g)}
<1>1. \A S \in SUBSET T : IsFiniteSet(S) /\ Cardinality(S) \in Nat
  BY FS_Subset, FS_CardinalityType
<1>2. 0 \in P
  <2> DEFINE g == [S \in SUBSET T |-> 0]
  <2>1. ASSUME NEW S \in SUBSET T, Cardinality(S) <= 0
        PROVE  g[S] = next(S, g)
    <3>1. S = {}
      BY <1>1, <2>1, FS_EmptySet
    <3> QED  BY <3>1
  <2>2. Good(0, g)
    <3> HIDE DEF g, next
    <3> QED  BY <2>1
  <2> QED  BY <2>2
<1>3. ASSUME NEW n \in P
      PROVE  n + 1 \in P
  <2>1. PICK g : Good(n, g)
    OBVIOUS
  <2> DEFINE h == [S \in SUBSET T |-> next(S, g)]
  <2>2. ASSUME NEW S \in SUBSET T, Cardinality(S) <= n + 1
        PROVE  h[S] = next(S, h)
    <3>1. CASE S = {}
      BY <3>1
    <3>2. CASE S # {}
      <4> DEFINE i == CHOOSE j \in S : TRUE
      <4>1. i \in S
        BY <3>2
      <4>2. S \ {i} \in SUBSET T /\ Cardinality(S \ {i}) <= n
        <5> HIDE DEF i
        <5> QED  BY <1>1, <2>2, <4>1, OneLess
      <4>3. h[S \ {i}] = next(S \ {i}, g)
        <5> HIDE DEF i, next
        <5> QED  BY <4>2
      <4>4. g[S \ {i}] = next(S \ {i}, g)
        <5> HIDE DEF i, next
        <5> QED  BY <2>1, <4>2
      <4>5. h[S] = next(S, g)
        <5> HIDE DEF next
        <5> QED  OBVIOUS
      <4>6. next(S, g) = weight[i] + g[S \ {i}] /\ next(S, h) = weight[i] + h[S \ {i}]
        <5> HIDE DEF h
        <5> QED  BY <3>2
      <4> HIDE DEF h, next, i
      <4> QED  BY <4>3, <4>4, <4>5, <4>6
    <3> QED  BY <3>1, <3>2
  <2>3. Good(n + 1, h)
    <3> HIDE DEF h, next
    <3> QED  BY <2>2
  <2>4. n + 1 \in Nat
    OBVIOUS
  <2> HIDE DEF h, next
  <2> QED  BY <2>3, <2>4
<1>4. P = Nat
  <2>1. P \in SUBSET Nat
    OBVIOUS
  <2> HIDE DEF P
  <2> QED  BY <1>2, <1>3, <2>1, SetInduction
<1>5. Cardinality(T) \in P
  <2>1. Cardinality(T) \in Nat
    BY FS_CardinalityType
  <2> HIDE DEF P
  <2> QED  BY <1>4, <2>1
<1>6. PICK g : Good(Cardinality(T), g)
  BY <1>5
<1>7. \A S \in SUBSET T : g[S] = next(S, g)
  <2>1. \A S \in SUBSET T : Cardinality(S) <= Cardinality(T)
    BY FS_Subset
  <2> HIDE DEF next
  <2> QED  BY <1>6, <2>1
<1> DEFINE f == [S \in SUBSET T |-> g[S]]
<1>8. ASSUME NEW S \in SUBSET T
      PROVE  next(S, g) = next(S, f)
  <2>1. CASE S = {}
    BY <2>1
  <2>2. CASE S # {}
    <3> DEFINE i == CHOOSE j \in S : TRUE
    <3>1. f[S \ {i}] = g[S \ {i}]
      OBVIOUS
    <3> HIDE DEF f
    <3> QED  BY <2>2, <3>1
  <2> QED  BY <2>1, <2>2
<1>9. f = [S \in SUBSET T |-> next(S, f)]
  <2>1. \A S \in SUBSET T : g[S] = next(S, f)
    <3> HIDE DEF next, f
    <3> QED  BY <1>7, <1>8
  <2> HIDE DEF next
  <2> QED  BY <2>1
<1>10. Sums(f, T, weight)
  <2> HIDE DEF f
  <2> QED  BY <1>9 DEF Sums
<1> QED  BY <1>10

\* The order is of no account: any member may be the last one added.
LEMMA SumsStep ==
  ASSUME NEW T, IsFiniteSet(T), NEW weight \in [T -> Nat],
         NEW total, Sums(total, T, weight)
  PROVE  /\ total[{}] = 0
         /\ \A S \in SUBSET T : total[S] \in Nat
         /\ \A S \in SUBSET T : \A i \in S :
              total[S] = weight[i] + total[S \ {i}]
<1> DEFINE Good(n) == \A S \in SUBSET T : Cardinality(S) <= n =>
                        /\ total[S] \in Nat
                        /\ \A i \in S : total[S] = weight[i] + total[S \ {i}]
           P == {n \in Nat : Good(n)}
<1>1. \A S \in SUBSET T : IsFiniteSet(S) /\ Cardinality(S) \in Nat
  BY FS_Subset, FS_CardinalityType
<1>2. total[{}] = 0
  BY DEF Sums
<1>3. ASSUME NEW S \in SUBSET T, S # {}
      PROVE  \E c \in S : total[S] = weight[c] + total[S \ {c}]
  <2> DEFINE c == CHOOSE j \in S : TRUE
  <2>1. c \in S
    BY <1>3
  <2>2. total[S] = weight[c] + total[S \ {c}]
    BY <1>3 DEF Sums
  <2> HIDE DEF c
  <2> QED  BY <2>1, <2>2
<1>4. 0 \in P
  <2>1. ASSUME NEW S \in SUBSET T, Cardinality(S) <= 0
        PROVE  S = {}
    BY <1>1, <2>1, FS_EmptySet
  <2> QED  BY <1>2, <2>1
<1>5. ASSUME NEW n \in P
      PROVE  n + 1 \in P
  <2>1. ASSUME NEW S \in SUBSET T, Cardinality(S) <= n + 1, NEW i \in S
        PROVE  total[S] \in Nat /\ total[S] = weight[i] + total[S \ {i}]
    <3>1. PICK c \in S : total[S] = weight[c] + total[S \ {c}]
      BY <1>3
    <3>2. \A j \in S : S \ {j} \in SUBSET T /\ Cardinality(S \ {j}) <= n
      BY <1>1, <2>1, OneLess
    <3>3. /\ total[S \ {c}] \in Nat
          /\ \A j \in S \ {c} : total[S \ {c}] = weight[j] + total[(S \ {c}) \ {j}]
      BY <3>2
    <3>4. /\ total[S \ {i}] \in Nat
          /\ \A j \in S \ {i} : total[S \ {i}] = weight[j] + total[(S \ {i}) \ {j}]
      BY <3>2
    <3>5. CASE c = i
      BY <3>1, <3>3, <3>5
    <3>6. CASE c # i
      <4>1. (S \ {c}) \ {i} = (S \ {i}) \ {c}
        OBVIOUS
      <4>2. (S \ {c}) \ {i} \in SUBSET T /\ Cardinality((S \ {c}) \ {i}) <= n
        <5> DEFINE R == S \ {c}
        <5>1. R \in SUBSET T /\ IsFiniteSet(R) /\ i \in R /\ Cardinality(R) <= n
          BY <1>1, <3>2, <3>6
        <5> HIDE DEF R
        <5>2. Cardinality(R \ {i}) = Cardinality(R) - 1 /\ Cardinality(R) \in Nat
          BY <5>1, OneLess
        <5>3. Cardinality(R \ {i}) <= n /\ R \ {i} \in SUBSET T
          BY <5>1, <5>2
        <5> QED  BY <5>3 DEF R
      <4>3. total[(S \ {c}) \ {i}] \in Nat
        BY <4>2
      <4>4. total[S \ {c}] = weight[i] + total[(S \ {c}) \ {i}]
        BY <3>3, <3>6
      <4>5. total[S \ {i}] = weight[c] + total[(S \ {c}) \ {i}]
        BY <3>4, <3>6, <4>1
      <4>6. weight[i] \in Nat /\ weight[c] \in Nat
        OBVIOUS
      <4> QED  BY <3>1, <4>3, <4>4, <4>5, <4>6
    <3> QED  BY <3>5, <3>6
  <2>2. ASSUME NEW S \in SUBSET T, S = {}
        PROVE  total[S] \in Nat
    BY <1>2, <2>2
  <2>3. Good(n + 1)
    BY <2>1, <2>2
  <2> HIDE DEF Good
  <2> QED  BY <2>3
<1>6. P = Nat
  <2>1. P \in SUBSET Nat
    OBVIOUS
  <2> HIDE DEF P
  <2> QED  BY <1>4, <1>5, <2>1, SetInduction
<1>7. ASSUME NEW S \in SUBSET T
      PROVE  /\ total[S] \in Nat
             /\ \A i \in S : total[S] = weight[i] + total[S \ {i}]
  <2>1. Cardinality(S) \in P
    <3> HIDE DEF P
    <3> QED  BY <1>1, <1>6
  <2>2. Good(Cardinality(S))
    <3> HIDE DEF Good
    <3> QED  BY <2>1
  <2>3. Cardinality(S) <= Cardinality(S)
    BY <1>1
  <2> QED  BY <2>2, <2>3
<1> QED  BY <1>2, <1>7

----------------------------------------------------------------------------
(* The Luhn sums.                                                          *)

\* What the i-th digit counts.
Weight(ds, i, lastDoubled) ==
  IF ((Len(ds) - i) % 2 = 1) # lastDoubled THEN Doubled(ds[i]) ELSE ds[i]

\* Digits count something.
LEMMA WeightType ==
  ASSUME NEW ds \in Seq(0..9), NEW i \in 1..Len(ds), NEW lastDoubled \in BOOLEAN
  PROVE  Weight(ds, i, lastDoubled) \in Nat
<1>1. ds[i] \in 0..9
  OBVIOUS
<1>2. Doubled(ds[i]) \in Nat
  BY <1>1 DEF Doubled
<1> QED  BY <1>1, <1>2 DEF Weight

\* Which digits count double.
LEMMA WeightCases ==
  ASSUME NEW ds, NEW i
  PROVE  LET odd == (Len(ds) - i) % 2 = 1
         IN /\ Weight(ds, i, FALSE) = IF odd THEN Doubled(ds[i]) ELSE ds[i]
            /\ Weight(ds, i, TRUE) = IF odd THEN ds[i] ELSE Doubled(ds[i])
<1> DEFINE odd == (Len(ds) - i) % 2 = 1
<1>1. /\ Weight(ds, i, FALSE) = IF odd # FALSE THEN Doubled(ds[i]) ELSE ds[i]
      /\ Weight(ds, i, TRUE) = IF odd # TRUE THEN Doubled(ds[i]) ELSE ds[i]
  BY Zenon DEF Weight
<1>2. odd \in BOOLEAN
  OBVIOUS
<1> HIDE DEF odd
<1>3. /\ Weight(ds, i, FALSE) = IF odd THEN Doubled(ds[i]) ELSE ds[i]
      /\ Weight(ds, i, TRUE) = IF odd THEN ds[i] ELSE Doubled(ds[i])
  BY <1>1, <1>2
<1> QED  BY <1>3 DEF odd

\* LuhnSum adds up the weights of the first digits, one after the other
\* (luhnOnDigits, luhnCheckDigit: the loops).
LEMMA LuhnSumEquation ==
  ASSUME NEW ds \in Seq(0..9), NEW lastDoubled \in BOOLEAN
  PROVE  \E sum \in [0..Len(ds) -> Nat] :
           /\ sum[0] = 0
           /\ \A i \in 1..Len(ds) :
                sum[i] = sum[i - 1] + Weight(ds, i, lastDoubled)
           /\ LuhnSum(ds, lastDoubled) = sum[Len(ds)]
<1> DEFINE N == Len(ds)
           a == 0
           V == Nat
           add == [p \in (1..N) \X V |-> p[2] + Weight(ds, p[1], lastDoubled)]
           Fills(f) == f = [i \in 0..N |->
                              IF i = 0 THEN 0
                              ELSE f[i - 1] + Weight(ds, i, lastDoubled)]
           upTo == CHOOSE f : Fills(f)
<1>1. LuhnSum(ds, lastDoubled) = upTo[N]
  BY DEF LuhnSum, Weight
<1>2. N \in Nat /\ a \in V
  OBVIOUS
<1>3. add \in [(1..N) \X V -> V]
  <2>1. \A i \in 1..N : Weight(ds, i, lastDoubled) \in Nat
    BY WeightType
  <2> QED  BY <2>1
<1>4. \A i \in 1..N, v \in V :
         add[<<i, v>>] = v + Weight(ds, i, lastDoubled)
  OBVIOUS
<1>5. \E f : Fills(f)
  <2>1. PICK g : Recurs(g, N, V, a, add)
    <3> HIDE DEF N, V, a, add
    <3> QED  BY <1>2, <1>3, Recursion
  <2>2. \A i \in 1..N : g[i] = g[i - 1] + Weight(ds, i, lastDoubled)
    <3>1. \A i \in 1..N : i - 1 \in 0..N
      BY <1>2
    <3> HIDE DEF add
    <3> QED  BY <1>4, <2>1, <3>1 DEF Recurs
  <2>3. g[0] = 0 /\ g = [i \in 0..N |-> g[i]]
    BY <2>1 DEF Recurs
  <2>4. Fills(g)
    <3>1. \A i \in 0..N : i = 0 \/ i \in 1..N
      BY <1>2
    <3> QED  BY <2>2, <2>3, <3>1
  <2> QED  BY <2>4
<1>6. Fills(upTo)
  <2> HIDE DEF Fills
  <2> QED  BY <1>5
<1> HIDE DEF upTo
<1>7. /\ DOMAIN upTo = 0..N /\ upTo = [i \in 0..N |-> upTo[i]] /\ upTo[0] = 0
      /\ \A i \in 1..N : upTo[i] = upTo[i - 1] + Weight(ds, i, lastDoubled)
  <2>1. 0 \in 0..N /\ \A i \in 1..N : i \in 0..N /\ i # 0
    BY <1>2
  <2> QED  BY <1>6, <2>1
<1>8. Recurs(upTo, N, V, a, add)
  <2>1. upTo[0] = a
    BY <1>7
  <2>2. \A i \in 1..N : upTo[i - 1] \in V => upTo[i] = add[<<i, upTo[i - 1]>>]
    BY <1>4, <1>7
  <2> HIDE DEF N, V, a, add
  <2> QED  BY <1>2, <1>3, <1>7, <2>1, <2>2, Recursive
<1>9. upTo \in [0..N -> Nat]
  BY <1>8 DEF Recurs
<1> QED  BY <1>1, <1>7, <1>9

\* The code's sum is the one of the Luhn rule (luhnOnDigits).
LEMMA LuhnAgrees ==
  ASSUME NEW ds \in Seq(0..9)
  PROVE  Luhn(ds) <=> LuhnOnDigits(ds)
<1> DEFINE N == Len(ds)
           T == DOMAIN ds
           weight(i) == IF (Len(ds) - i) % 2 = 1 THEN Doubled(ds[i]) ELSE ds[i]
           w == [i \in T |-> Weight(ds, i, FALSE)]
           Totals(g) == g = [S \in SUBSET T |->
                               IF S = {} THEN 0
                               ELSE LET i == CHOOSE j \in S : TRUE
                                    IN weight(i) + g[S \ {i}]]
           total == CHOOSE g : Totals(g)
<1>1. Luhn(ds) <=> total[T] % 10 = 0
  BY DEF Luhn
<1>2. T = 1..N /\ N \in Nat /\ IsFiniteSet(T)
  <2>1. T = 1..N /\ N \in Nat
    OBVIOUS
  <2>2. IsFiniteSet(1..N)
    BY <2>1, FS_Interval
  <2> QED  BY <2>1, <2>2
<1>3. w \in [T -> Nat]
  BY <1>2, WeightType
<1>4. \A i \in T : w[i] = weight(i)
  BY WeightCases
<1>5. ASSUME NEW g
      PROVE  Totals(g) <=> Sums(g, T, w)
  <2>1. ASSUME NEW S \in SUBSET T
        PROVE  (IF S = {} THEN 0
                ELSE LET i == CHOOSE j \in S : TRUE IN weight(i) + g[S \ {i}])
               = (IF S = {} THEN 0
                  ELSE LET i == CHOOSE j \in S : TRUE IN w[i] + g[S \ {i}])
    <3>1. CASE S = {}
      BY <3>1
    <3>2. CASE S # {}
      <4> DEFINE c == CHOOSE j \in S : TRUE
      <4>1. c \in S
        BY <3>2
      <4>2. w[c] = weight(c)
        <5> HIDE DEF c, w, weight
        <5> QED  BY <1>4, <4>1
      <4> HIDE DEF w, weight
      <4> QED  BY <3>2, <4>2
    <3> QED  BY <3>1, <3>2
  <2> HIDE DEF w, weight, T
  <2> QED  BY <2>1 DEF Sums
<1>6. Sums(total, T, w)
  <2>1. \E g : Sums(g, T, w)
    <3> HIDE DEF T, w
    <3> QED  BY <1>2, <1>3, SumsExist
  <2>2. \E g : Totals(g)
    <3> HIDE DEF Totals, T, w
    <3> QED  BY <1>5, <2>1
  <2>3. Totals(total)
    <3> HIDE DEF Totals
    <3> QED  BY <2>2
  <2> HIDE DEF Totals, total, T, w
  <2> QED  BY <1>5, <2>3
<1> HIDE DEF total
<1>7. /\ total[{}] = 0
      /\ \A S \in SUBSET T : total[S] \in Nat
      /\ \A S \in SUBSET T : \A i \in S : total[S] = w[i] + total[S \ {i}]
  <2>1. IsFiniteSet(T)
    BY <1>2
  <2> HIDE DEF N, T, w, weight, Totals
  <2> QED  BY <1>3, <1>6, <2>1, SumsStep
<1>8. PICK sum \in [0..N -> Nat] :
        /\ sum[0] = 0
        /\ \A i \in 1..N : sum[i] = sum[i - 1] + Weight(ds, i, FALSE)
        /\ LuhnSum(ds, FALSE) = sum[N]
  BY LuhnSumEquation
<1> DEFINE P == {n \in Nat : n <= N => total[1..n] = sum[n]}
<1>9. 0 \in P
  BY <1>7, <1>8
<1>10. ASSUME NEW n \in P
      PROVE  n + 1 \in P
  <2>1. SUFFICES ASSUME n + 1 <= N
                 PROVE  total[1..(n + 1)] = sum[n + 1]
    OBVIOUS
  <2>2. n + 1 \in T /\ n \in Nat /\ n \in 0..N /\ total[1..n] = sum[n]
    BY <1>2, <2>1
  <2>3. 1..(n + 1) \in SUBSET T /\ n + 1 \in 1..(n + 1)
    BY <1>2, <2>1, <2>2
  <2>4. (1..(n + 1)) \ {n + 1} = 1..n
    BY <2>2
  <2>5. total[1..(n + 1)] = w[n + 1] + total[1..n]
    <3> DEFINE S == 1..(n + 1)
               m == n + 1
    <3>1. S \in SUBSET T /\ m \in S /\ S \ {m} = 1..n
      BY <2>3, <2>4
    <3> HIDE DEF T, w, S, m
    <3>2. total[S] = w[m] + total[S \ {m}]
      BY <1>7, <3>1
    <3>3. total[S] = w[m] + total[1..n]
      BY <3>1, <3>2
    <3> QED  BY <3>3 DEF S, m
  <2>6. w[n + 1] = Weight(ds, n + 1, FALSE) /\ w[n + 1] \in Nat
    BY <1>3, <2>2
  <2>7. sum[n + 1] = sum[n] + Weight(ds, n + 1, FALSE) /\ sum[n] \in Nat
    BY <1>2, <1>8, <2>2
  <2> DEFINE m == n + 1
  <2>8. /\ total[1..m] = w[m] + total[1..n] /\ total[1..n] = sum[n]
        /\ w[m] = Weight(ds, m, FALSE) /\ w[m] \in Nat
        /\ sum[m] = sum[n] + Weight(ds, m, FALSE) /\ sum[n] \in Nat
    BY <2>2, <2>5, <2>6, <2>7
  <2> HIDE DEF T, w, m, P
  <2>9. total[1..m] = sum[m]
    BY <2>8
  <2> QED  BY <2>9 DEF m
<1>11. P = Nat
  <2>1. P \in SUBSET Nat
    OBVIOUS
  <2> HIDE DEF P
  <2> QED  BY <1>9, <1>10, <2>1, SetInduction
<1>12. total[T] = sum[N]
  <2>1. N \in P
    <3> HIDE DEF P
    <3> QED  BY <1>2, <1>11
  <2> QED  BY <1>2, <2>1
<1> QED  BY <1>1, <1>8, <1>12 DEF LuhnOnDigits

\* The check digit makes the sum of the whole number a multiple of ten
\* (luhnCheckDigit, synthCard).
LEMMA CheckDigitFits ==
  ASSUME NEW base \in Seq(0..9)
  PROVE  /\ LuhnCheckDigit(base) \in 0..9
         /\ LuhnOnDigits(Append(base, LuhnCheckDigit(base)))
<1> DEFINE c == LuhnCheckDigit(base)
           N == Len(base)
           full == Append(base, c)
<1>1. PICK sum \in [0..N -> Nat] :
        /\ sum[0] = 0
        /\ \A i \in 1..N : sum[i] = sum[i - 1] + Weight(base, i, TRUE)
        /\ LuhnSum(base, TRUE) = sum[N]
  BY LuhnSumEquation
<1>2. N \in Nat /\ sum[N] \in Nat
  BY <1>1
<1>3. c = (10 - (sum[N] % 10)) % 10
  BY <1>1 DEF LuhnCheckDigit
<1>4. c \in 0..9
  <2> HIDE DEF c
  <2> QED  BY <1>2, <1>3, SMTT(20)
<1>5. /\ full \in Seq(0..9) /\ Len(full) = N + 1 /\ full[N + 1] = c
      /\ \A i \in 1..N : full[i] = base[i]
  <2> HIDE DEF c
  <2> QED  BY <1>4
<1> HIDE DEF full, c, N
<1>6. PICK all \in [0..(N + 1) -> Nat] :
        /\ all[0] = 0
        /\ \A i \in 1..(N + 1) : all[i] = all[i - 1] + Weight(full, i, FALSE)
        /\ LuhnSum(full, FALSE) = all[N + 1]
  <2>1. \E s \in [0..Len(full) -> Nat] :
          /\ s[0] = 0
          /\ \A i \in 1..Len(full) : s[i] = s[i - 1] + Weight(full, i, FALSE)
          /\ LuhnSum(full, FALSE) = s[Len(full)]
    BY <1>5, LuhnSumEquation
  <2> QED  BY <1>5, <2>1
<1>7. ASSUME NEW i \in 1..N
      PROVE  Weight(full, i, FALSE) = Weight(base, i, TRUE)
  <2>1. (N + 1 - i) % 2 = 1 <=> ~((N - i) % 2 = 1)
    <3> DEFINE k == N - i
    <3>1. k \in Nat /\ N + 1 - i = k + 1
      BY <1>2
    <3> HIDE DEF k
    <3>2. (k + 1) % 2 = 1 <=> ~(k % 2 = 1)
      BY <3>1
    <3> QED  BY <3>1, <3>2 DEF k
  <2>2. full[i] = base[i] /\ Len(full) = N + 1 /\ Len(base) = N
    BY <1>5 DEF N
  <2>3. /\ ((Len(full) - i) % 2 = 1) <=> ((N + 1 - i) % 2 = 1)
        /\ ((Len(base) - i) % 2 = 1) <=> ((N - i) % 2 = 1)
    BY <2>2
  <2>4. /\ Weight(full, i, FALSE) = IF (Len(full) - i) % 2 = 1
                                     THEN Doubled(full[i]) ELSE full[i]
        /\ Weight(base, i, TRUE) = IF (Len(base) - i) % 2 = 1
                                    THEN base[i] ELSE Doubled(base[i])
    BY WeightCases
  <2> DEFINE even == (N - i) % 2 = 1
             odd == (N + 1 - i) % 2 = 1
  <2>5. odd <=> ~even
    BY <2>1
  <2>6. /\ Weight(full, i, FALSE) = IF odd THEN Doubled(full[i]) ELSE full[i]
        /\ Weight(base, i, TRUE) = IF even THEN base[i] ELSE Doubled(base[i])
    BY <2>3, <2>4
  <2> HIDE DEF odd, even
  <2> QED  BY <2>2, <2>5, <2>6
<1>8. Weight(full, N + 1, FALSE) = c
  <2>1. Len(full) - (N + 1) = 0
    BY <1>2, <1>5
  <2>2. ~(0 % 2 = 1)
    OBVIOUS
  <2> QED  BY <1>5, <2>1, <2>2 DEF Weight
<1> DEFINE P == {n \in Nat : n <= N => all[n] = sum[n]}
<1>9. P = Nat
  <2>1. 0 \in P
    BY <1>1, <1>6
  <2>2. ASSUME NEW n \in P
        PROVE  n + 1 \in P
    <3>1. SUFFICES ASSUME n + 1 <= N
                   PROVE  all[n + 1] = sum[n + 1]
      OBVIOUS
    <3>2. n + 1 \in 1..N /\ n + 1 \in 1..(N + 1) /\ n + 1 - 1 = n /\ all[n] = sum[n]
      BY <1>2, <3>1
    <3> DEFINE m == n + 1
    <3>3. m \in 1..N /\ m \in 1..(N + 1) /\ all[m - 1] = sum[m - 1]
      BY <3>2
    <3> HIDE DEF m, P
    <3>4. all[m] = all[m - 1] + Weight(full, m, FALSE)
      BY <1>6, <3>3
    <3>5. sum[m] = sum[m - 1] + Weight(base, m, TRUE)
      BY <1>1, <3>3 DEF N
    <3>6. Weight(full, m, FALSE) = Weight(base, m, TRUE)
      BY <1>7, <3>3
    <3> QED  BY <3>3, <3>4, <3>5, <3>6 DEF m
  <2>3. P \in SUBSET Nat
    OBVIOUS
  <2> HIDE DEF P
  <2> QED  BY <2>1, <2>2, <2>3, SetInduction
<1>10. all[N] = sum[N]
  <2>1. N \in P
    <3> HIDE DEF P
    <3> QED  BY <1>2, <1>9
  <2> QED  BY <1>2, <2>1
<1>11. LuhnSum(full, FALSE) = sum[N] + c
  <2>1. N + 1 \in 1..(N + 1) /\ N + 1 - 1 = N
    BY <1>2
  <2> QED  BY <1>6, <1>8, <1>10, <2>1
<1>12. LuhnOnDigits(full)
  <2> DEFINE S == sum[N]
             L == LuhnSum(full, FALSE)
  <2>1. L = S + c /\ S \in Nat /\ c = (10 - (S % 10)) % 10
    BY <1>2, <1>3, <1>11
  <2>2. L % 10 = 0
    <3> HIDE DEF S, L
    <3> QED  BY <2>1
  <2> QED  BY <2>2 DEF LuhnOnDigits
<1> QED  BY <1>4, <1>12 DEF full, c

----------------------------------------------------------------------------
(* The digits of a match.                                                  *)

\* up[i]: where the digits among the first i characters stand.
EndsUpTo(up, s) ==
  /\ up \in [0..Len(s) -> Seq(Nat)]
  /\ up[0] = << >>
  /\ \A i \in 1..Len(s) :
       up[i] = IF IsDigit(s[i]) THEN Append(up[i - 1], i) ELSE up[i - 1]

\* longestLuhnCard's list of ends is built up character by character.
LEMMA EndsEquation ==
  ASSUME NEW s, Len(s) \in Nat
  PROVE  \E up : EndsUpTo(up, s) /\ Ends(s) = up[Len(s)]
<1> DEFINE N == Len(s)
           a == << >>
           V == Seq(Nat)
           next(i, v) == IF IsDigit(s[i]) THEN Append(v, i) ELSE v
           add == [p \in (1..N) \X V |-> next(p[1], p[2])]
           Fills(f) == f = [i \in 0..N |->
                              IF i = 0 THEN << >>
                              ELSE IF IsDigit(s[i]) THEN Append(f[i - 1], i)
                              ELSE f[i - 1]]
           upTo == CHOOSE f : Fills(f)
<1>1. Ends(s) = upTo[N]
  BY DEF Ends
<1>2. N \in Nat /\ a \in V
  OBVIOUS
<1>3. add \in [(1..N) \X V -> V]
  <2>1. \A i \in 1..N, v \in V : next(i, v) \in V
    OBVIOUS
  <2> HIDE DEF next, V
  <2> QED  BY <2>1
<1>4. \A i \in 1..N, v \in V : add[<<i, v>>] = next(i, v)
  <2> HIDE DEF next, V
  <2> QED  OBVIOUS
<1>5. \E f : Fills(f)
  <2>1. PICK g : Recurs(g, N, V, a, add)
    <3> HIDE DEF N, V, a, add
    <3> QED  BY <1>2, <1>3, Recursion
  <2>2. \A i \in 1..N : g[i] = next(i, g[i - 1])
    <3>1. \A i \in 1..N : i - 1 \in 0..N
      BY <1>2
    <3> HIDE DEF add, next, V
    <3> QED  BY <1>4, <2>1, <3>1 DEF Recurs
  <2>3. g[0] = << >> /\ g = [i \in 0..N |-> g[i]]
    BY <2>1 DEF Recurs
  <2>4. Fills(g)
    <3>1. \A i \in 0..N : i = 0 \/ i \in 1..N
      BY <1>2
    <3> QED  BY <2>2, <2>3, <3>1
  <2> QED  BY <2>4
<1>6. Fills(upTo)
  <2> HIDE DEF Fills
  <2> QED  BY <1>5
<1> HIDE DEF upTo
<1>7. /\ DOMAIN upTo = 0..N /\ upTo = [i \in 0..N |-> upTo[i]] /\ upTo[0] = << >>
      /\ \A i \in 1..N : upTo[i] = next(i, upTo[i - 1])
  <2>1. 0 \in 0..N /\ \A i \in 1..N : i \in 0..N /\ i # 0
    BY <1>2
  <2> QED  BY <1>6, <2>1
<1>8. Recurs(upTo, N, V, a, add)
  <2>1. upTo[0] = a
    BY <1>7
  <2>2. \A i \in 1..N : upTo[i - 1] \in V => upTo[i] = add[<<i, upTo[i - 1]>>]
    <3> HIDE DEF add, next, V
    <3> QED  BY <1>4, <1>7
  <2> HIDE DEF N, V, a, add, next
  <2> QED  BY <1>2, <1>3, <1>7, <2>1, <2>2, Recursive
<1>9. upTo \in [0..N -> Seq(Nat)]
  BY <1>8 DEF Recurs
<1>10. EndsUpTo(upTo, s)
  BY <1>7, <1>9 DEF EndsUpTo
<1> QED  BY <1>1, <1>10

\* Among the first characters stand no more digits than characters, each in
\* its place.
LEMMA EndsInside ==
  ASSUME NEW s, Len(s) \in Nat, NEW up, EndsUpTo(up, s), NEW m \in 0..Len(s)
  PROVE  /\ Len(up[m]) \in 0..m
         /\ \A k \in 1..Len(up[m]) : up[m][k] \in 1..m /\ IsDigit(s[up[m][k]])
<1> DEFINE Good(n) == /\ Len(up[n]) \in 0..n
                      /\ \A k \in 1..Len(up[n]) :
                           up[n][k] \in 1..n /\ IsDigit(s[up[n][k]])
           P == {n \in Nat : n <= Len(s) => Good(n)}
<1>1. 0 \in P
  BY DEF EndsUpTo
<1>2. ASSUME NEW n \in P
      PROVE  n + 1 \in P
  <2>1. SUFFICES ASSUME n + 1 <= Len(s)
                 PROVE  Good(n + 1)
    <3> HIDE DEF Good
    <3> QED  OBVIOUS
  <2> DEFINE v == up[n]
             w == up[n + 1]
  <2>2. /\ v \in Seq(Nat) /\ Len(v) \in 0..n /\ n \in Nat
        /\ \A k \in 1..Len(v) : v[k] \in 1..n /\ IsDigit(s[v[k]])
    BY <2>1 DEF EndsUpTo
  <2>3. w = IF IsDigit(s[n + 1]) THEN Append(v, n + 1) ELSE v
    <3>1. n + 1 \in 1..Len(s) /\ n + 1 - 1 = n
      BY <2>1, <2>2
    <3> QED  BY <3>1 DEF EndsUpTo
  <2> HIDE DEF v, w, P
  <2>4. /\ Len(w) \in 0..(n + 1)
        /\ \A k \in 1..Len(w) : w[k] \in 1..(n + 1) /\ IsDigit(s[w[k]])
    <3>1. CASE IsDigit(s[n + 1])
      <4>1. Len(w) = Len(v) + 1 /\ w[Len(v) + 1] = n + 1
              /\ \A k \in 1..Len(v) : w[k] = v[k]
        BY <2>2, <2>3, <3>1
      <4>2. ASSUME NEW k \in 1..Len(w)
            PROVE  w[k] \in 1..(n + 1) /\ IsDigit(s[w[k]])
        <5>1. k \in 1..Len(v) \/ k = Len(v) + 1
          BY <2>2, <4>1
        <5> QED  BY <2>2, <3>1, <4>1, <5>1
      <4> QED  BY <2>2, <4>1, <4>2
    <3>2. CASE ~IsDigit(s[n + 1])
      BY <2>2, <2>3, <3>2
    <3> QED  BY <3>1, <3>2
  <2> QED  BY <2>4 DEF w
<1>3. P = Nat
  <2>1. P \in SUBSET Nat
    OBVIOUS
  <2> HIDE DEF P
  <2> QED  BY <1>1, <1>2, <2>1, SetInduction
<1>4. m \in P
  <2> HIDE DEF P
  <2> QED  BY <1>3
<1> QED  BY <1>4

\* The digits of the first characters are the first digits.
LEMMA EndsPrefix ==
  ASSUME NEW s, Len(s) \in Nat, NEW up, EndsUpTo(up, s), NEW j \in 0..Len(s)
  PROVE  /\ Len(up[j]) <= Len(up[Len(s)])
         /\ \A k \in 1..Len(up[j]) : up[Len(s)][k] = up[j][k]
<1> DEFINE Good(n) == /\ Len(up[j]) <= Len(up[n])
                      /\ \A k \in 1..Len(up[j]) : up[n][k] = up[j][k]
           P == {n \in Nat : n \in j..Len(s) => Good(n)}
<1>1. \A n \in 0..Len(s) : up[n] \in Seq(Nat) /\ Len(up[n]) \in Nat
  BY DEF EndsUpTo
<1>2. Good(j)
  BY <1>1
<1>3. 0 \in P
  <2>1. 0 \in j..Len(s) => j = 0
    OBVIOUS
  <2> HIDE DEF Good
  <2> QED  BY <1>2, <2>1
<1>4. ASSUME NEW n \in P
      PROVE  n + 1 \in P
  <2>1. SUFFICES ASSUME n + 1 \in j..Len(s), n + 1 # j
                 PROVE  Good(n + 1)
    <3> HIDE DEF Good
    <3> QED  BY <1>2
  <2>2. n \in j..Len(s) /\ n \in 0..Len(s) /\ n + 1 \in 1..Len(s) /\ n + 1 - 1 = n
    BY <2>1
  <2> DEFINE v == up[n]
             w == up[n + 1]
             u == up[j]
  <2>3. v \in Seq(Nat) /\ u \in Seq(Nat)
    BY <1>1, <2>2
  <2>4. Len(u) <= Len(v) /\ \A k \in 1..Len(u) : v[k] = u[k]
    BY <2>2
  <2>5. w = Append(v, n + 1) \/ w = v
    <3>1. up[n + 1] = IF IsDigit(s[n + 1]) THEN Append(up[(n + 1) - 1], n + 1)
                      ELSE up[(n + 1) - 1]
      BY <2>2 DEF EndsUpTo
    <3> QED  BY <2>2, <3>1
  <2> HIDE DEF u, v, w, P
  <2>6. Len(u) <= Len(w) /\ \A k \in 1..Len(u) : w[k] = u[k]
    <3>1. CASE w = v
      BY <2>4, <3>1
    <3>2. CASE w = Append(v, n + 1)
      <4>1. Len(w) = Len(v) + 1 /\ \A k \in 1..Len(v) : w[k] = v[k]
        BY <2>3, <3>2
      <4>2. Len(u) \in Nat /\ Len(v) \in Nat
        BY <2>3
      <4> QED  BY <2>4, <4>1, <4>2
    <3> QED  BY <2>5, <3>1, <3>2
  <2> QED  BY <2>6 DEF u, w
<1>5. P = Nat
  <2>1. P \in SUBSET Nat
    OBVIOUS
  <2> HIDE DEF P
  <2> QED  BY <1>3, <1>4, <2>1, SetInduction
<1>6. Len(s) \in P
  <2> HIDE DEF P
  <2> QED  BY <1>5
<1>7. Len(s) \in j..Len(s)
  OBVIOUS
<1> QED  BY <1>6, <1>7

\* What longestLuhnCard adds up are digits.
LEMMA DigitsType ==
  ASSUME NEW s, Len(s) \in Nat
  PROVE  /\ Ends(s) \in Seq(Nat)
         /\ Digits(s) \in Seq(0..9)
         /\ Len(Digits(s)) = Len(Ends(s))
         /\ \A k \in 1..Len(Ends(s)) :
              /\ Ends(s)[k] \in 1..Len(s)
              /\ Digits(s)[k] = s[Ends(s)[k]]
<1>1. PICK up : EndsUpTo(up, s) /\ Ends(s) = up[Len(s)]
  BY EndsEquation
<1> DEFINE E == Ends(s)
           D == Digits(s)
<1>2. E \in Seq(Nat) /\ DOMAIN E = 1..Len(E) /\ Len(E) \in Nat
  BY <1>1 DEF EndsUpTo
<1>3. \A k \in 1..Len(E) : E[k] \in 1..Len(s) /\ IsDigit(s[E[k]])
  BY <1>1, EndsInside
<1>4. D = [k \in 1..Len(E) |-> s[E[k]]]
  BY <1>2 DEF Digits
<1> HIDE DEF D, E
<1>5. D \in [1..Len(E) -> 0..9]
  BY <1>3, <1>4 DEF IsDigit
<1>6. D \in Seq(0..9) /\ Len(D) = Len(E)
  <2> DEFINE n == Len(E)
  <2>1. n \in Nat /\ D \in [1..n -> 0..9]
    BY <1>2, <1>5
  <2> HIDE DEF n
  <2>2. D \in Seq(0..9) /\ Len(D) = n
    BY <2>1
  <2> QED  BY <2>2 DEF n
<1> QED  BY <1>2, <1>3, <1>4, <1>6 DEF D, E

----------------------------------------------------------------------------
(* isValidLuhn, which skips the separators on its way.                     *)

Scanned == [sum : Nat, alt : BOOLEAN, count : Nat]

ScanStep(c, r) ==
  IF ~IsDigit(c) THEN r
  ELSE [sum |-> r.sum + (IF r.alt THEN Doubled(c) ELSE c),
        alt |-> ~r.alt, count |-> r.count + 1]

\* A character makes counts of counts.
LEMMA ScanStepType ==
  ASSUME NEW c, NEW r \in Scanned
  PROVE  ScanStep(c, r) \in Scanned
<1>1. CASE IsDigit(c)
  <2>1. c \in Nat /\ Doubled(c) \in Nat
    BY <1>1 DEF IsDigit, Doubled
  <2>2. r.sum \in Nat /\ r.alt \in BOOLEAN /\ r.count \in Nat
    BY DEF Scanned
  <2>3. r.sum + (IF r.alt THEN Doubled(c) ELSE c) \in Nat
    BY <2>1, <2>2
  <2> QED  BY <1>1, <2>2, <2>3 DEF ScanStep, Scanned
<1>2. CASE ~IsDigit(c)
  BY <1>2 DEF ScanStep
<1> QED  BY <1>1, <1>2

\* isValidLuhn goes through the characters from the last to the first.
LEMMA ScanEquation ==
  ASSUME NEW s, Len(s) \in Nat
  PROVE  \E from \in [0..Len(s) -> Scanned] :
           /\ from[0] = [sum |-> 0, alt |-> FALSE, count |-> 0]
           /\ \A i \in 1..Len(s) :
                from[i] = ScanStep(s[Len(s) - i + 1], from[i - 1])
           /\ Scan(s) = from[Len(s)]
<1> DEFINE N == Len(s)
           a == [sum |-> 0, alt |-> FALSE, count |-> 0]
           V == Scanned
           add == [p \in (1..N) \X V |-> ScanStep(s[N - p[1] + 1], p[2])]
           Fills(f) == f = [i \in 0..N |->
                              IF i = 0 THEN a
                              ELSE ScanStep(s[N - i + 1], f[i - 1])]
           from == CHOOSE f : Fills(f)
<1>1. Scan(s) = from[N]
  BY DEF Scan, ScanStep
<1>2. N \in Nat /\ a \in V
  BY DEF Scanned
<1>3. add \in [(1..N) \X V -> V]
  BY ScanStepType
<1>4. \A i \in 1..N, v \in V : add[<<i, v>>] = ScanStep(s[N - i + 1], v)
  OBVIOUS
<1>5. \E f : Fills(f)
  <2>1. PICK g : Recurs(g, N, V, a, add)
    <3> HIDE DEF N, V, a, add
    <3> QED  BY <1>2, <1>3, Recursion
  <2>2. \A i \in 1..N : g[i] = ScanStep(s[N - i + 1], g[i - 1])
    <3>1. \A i \in 1..N : i - 1 \in 0..N
      BY <1>2
    <3> HIDE DEF add, V, a
    <3> QED  BY <1>4, <2>1, <3>1 DEF Recurs
  <2>3. g[0] = a /\ g = [i \in 0..N |-> g[i]]
    <3> HIDE DEF a
    <3> QED  BY <2>1 DEF Recurs
  <2>4. Fills(g)
    <3>1. \A i \in 0..N : i = 0 \/ i \in 1..N
      BY <1>2
    <3> HIDE DEF a
    <3> QED  BY <2>2, <2>3, <3>1
  <2> QED  BY <2>4
<1>6. Fills(from)
  <2> HIDE DEF Fills
  <2> QED  BY <1>5
<1> HIDE DEF from
<1>7. /\ DOMAIN from = 0..N /\ from = [i \in 0..N |-> from[i]] /\ from[0] = a
      /\ \A i \in 1..N : from[i] = ScanStep(s[N - i + 1], from[i - 1])
  <2>1. 0 \in 0..N /\ \A i \in 1..N : i \in 0..N /\ i # 0
    BY <1>2
  <2> HIDE DEF a
  <2> QED  BY <1>6, <2>1
<1>8. Recurs(from, N, V, a, add)
  <2>1. \A i \in 1..N : from[i - 1] \in V => from[i] = add[<<i, from[i - 1]>>]
    <3> HIDE DEF add, V, a
    <3> QED  BY <1>4, <1>7
  <2> HIDE DEF N, V, a, add
  <2> QED  BY <1>2, <1>3, <1>7, <2>1, Recursive
<1>9. from \in [0..N -> Scanned]
  BY <1>8 DEF Recurs
<1> QED  BY <1>1, <1>7, <1>9

\* isValidLuhn counts the digits that longestLuhnCard collects, and its sum is
\* theirs.
LEMMA ScanAgrees ==
  ASSUME NEW s, Len(s) \in Nat
  PROVE  /\ Scan(s).count = Len(Digits(s))
         /\ Scan(s).sum = LuhnSum(Digits(s), FALSE)
<1> DEFINE N == Len(s)
           ds == Digits(s)
           n == Len(ds)
<1>1. PICK up : EndsUpTo(up, s) /\ Ends(s) = up[N]
  BY EndsEquation
<1>2. PICK from \in [0..N -> Scanned] :
        /\ from[0] = [sum |-> 0, alt |-> FALSE, count |-> 0]
        /\ \A i \in 1..N : from[i] = ScanStep(s[N - i + 1], from[i - 1])
        /\ Scan(s) = from[N]
  BY ScanEquation
<1>3. /\ ds \in Seq(0..9) /\ n \in Nat /\ n = Len(up[N])
      /\ \A k \in 1..n : ds[k] = s[up[N][k]]
  BY <1>1, DigitsType
<1> HIDE DEF ds
<1>4. PICK sum \in [0..n -> Nat] :
        /\ sum[0] = 0
        /\ \A i \in 1..n : sum[i] = sum[i - 1] + Weight(ds, i, FALSE)
        /\ LuhnSum(ds, FALSE) = sum[n]
  BY <1>3, LuhnSumEquation
<1> HIDE DEF n, N
\* the digits that are left when p characters are left
<1> DEFINE c(p) == Len(up[p])
<1>5. ASSUME NEW p \in 0..N
      PROVE  c(p) \in 0..n
  <2>1. Len(up[p]) \in 0..p /\ Len(up[p]) <= Len(up[N])
    BY <1>1, EndsInside, EndsPrefix DEF N
  <2> QED  BY <1>3, <2>1
<1>6. ASSUME NEW p \in 1..N
      PROVE  /\ ~IsDigit(s[p]) => c(p) = c(p - 1)
             /\ IsDigit(s[p]) => c(p) = c(p - 1) + 1 /\ ds[c(p)] = s[p]
  <2>1. p \in 0..N /\ p - 1 \in 0..N /\ N \in Nat
    BY DEF N
  <2>2. up[p] = IF IsDigit(s[p]) THEN Append(up[p - 1], p) ELSE up[p - 1]
    BY <1>1 DEF EndsUpTo, N
  <2>3. CASE IsDigit(s[p])
    <3>1. up[p - 1] \in Seq(Nat) /\ up[p] = Append(up[p - 1], p)
      BY <1>1, <2>1, <2>2, <2>3 DEF EndsUpTo, N
    <3>2. /\ Len(up[p]) = Len(up[p - 1]) + 1 /\ up[p][Len(up[p])] = p
          /\ Len(up[p]) \in 1..Len(up[p])
      <4> DEFINE v == up[p - 1]
                 w == up[p]
      <4>1. v \in Seq(Nat) /\ w = Append(v, p)
        BY <3>1
      <4> HIDE DEF v, w
      <4>2. Len(w) = Len(v) + 1 /\ w[Len(w)] = p /\ Len(w) \in 1..Len(w)
        BY <4>1
      <4> QED  BY <4>2 DEF v, w
    <3>3. up[N][Len(up[p])] = p
      <4>1. \A k \in 1..Len(up[p]) : up[N][k] = up[p][k]
        BY <1>1, <2>1, EndsPrefix DEF N
      <4> DEFINE m == Len(up[p])
      <4>2. m \in 1..m /\ up[p][m] = p
        BY <3>2
      <4>3. up[N][m] = p
        <5>1. \A k \in 1..m : up[N][k] = up[p][k]
          BY <4>1
        <5> HIDE DEF m
        <5> QED  BY <4>2, <5>1
      <4> QED  BY <4>3
    <3>4. c(p) \in 1..n
      BY <1>5, <2>1, <3>2
    <3> QED  BY <1>3, <2>3, <3>2, <3>3, <3>4
  <2>4. CASE ~IsDigit(s[p])
    BY <2>2, <2>4
  <2> QED  BY <2>3, <2>4
<1> HIDE DEF c
<1> DEFINE Good(i) == /\ from[i].count = n - c(N - i)
                      /\ from[i].alt <=> (n - c(N - i)) % 2 = 1
                      /\ from[i].sum + sum[c(N - i)] = sum[n]
           P == {i \in Nat : i <= N => Good(i)}
<1>7. N \in Nat
  BY DEF N
<1>8. 0 \in P
  <2>1. c(N) = n /\ N - 0 = N
    BY <1>3, <1>7 DEF c
  <2>2. sum[n] \in Nat /\ n - n = 0 /\ ~(0 % 2 = 1)
    BY <1>3, <1>4
  <2>3. Good(0)
    BY <1>2, <2>1, <2>2
  <2> HIDE DEF Good
  <2> QED  BY <2>3
<1>9. ASSUME NEW i \in P
      PROVE  i + 1 \in P
  <2>1. SUFFICES ASSUME i + 1 <= N
                 PROVE  Good(i + 1)
    <3> HIDE DEF Good
    <3> QED  OBVIOUS
  <2> DEFINE p == N - i
             q == N - (i + 1)
             r == from[i]
             t == from[i + 1]
             ch == s[p]
  <2>2. /\ p \in 1..N /\ q = p - 1 /\ q \in 0..N /\ p \in 0..N
        /\ i + 1 \in 1..N /\ N - (i + 1) + 1 = p /\ i \in 0..N
    BY <1>7, <2>1
  <2>3. t = ScanStep(ch, r)
    <3>1. (i + 1) - 1 = i
      OBVIOUS
    <3> QED  BY <1>2, <2>2, <3>1
  <2>4. r \in Scanned
    BY <1>2, <2>2
  <2>5. /\ r.count = n - c(p)
        /\ r.alt <=> (n - c(p)) % 2 = 1
        /\ r.sum + sum[c(p)] = sum[n]
    BY <2>2
  <2>6. /\ ~IsDigit(ch) => c(p) = c(q)
        /\ IsDigit(ch) => c(p) = c(q) + 1 /\ ds[c(p)] = ch
    BY <1>6, <2>2
  <2>7. c(p) \in 0..n /\ c(q) \in 0..n
    BY <1>5, <2>2
  <2> HIDE DEF p, q, r, t, ch, P
  <2>8. /\ t.count = n - c(q)
        /\ t.alt <=> (n - c(q)) % 2 = 1
        /\ t.sum + sum[c(q)] = sum[n]
    <3>1. CASE ~IsDigit(ch)
      BY <2>3, <2>5, <2>6, <3>1 DEF ScanStep
    <3>2. CASE IsDigit(ch)
      <4> DEFINE k == c(p)
                 wt == IF r.alt THEN Doubled(ch) ELSE ch
      <4>1. k \in 1..n /\ c(q) = k - 1 /\ ds[k] = ch
        BY <1>3, <2>6, <2>7, <3>2
      <4>2. Weight(ds, k, FALSE) = wt
        <5>1. Weight(ds, k, FALSE) = IF (Len(ds) - k) % 2 = 1
                                     THEN Doubled(ds[k]) ELSE ds[k]
          BY WeightCases
        <5>2. r.alt <=> (Len(ds) - k) % 2 = 1
          BY <2>5 DEF n
        <5> HIDE DEF k
        <5> QED  BY <4>1, <5>1, <5>2
      <4>3. sum[k] = sum[c(q)] + wt
        <5>1. sum[k] = sum[k - 1] + Weight(ds, k, FALSE)
          BY <1>4, <4>1
        <5> HIDE DEF k, wt
        <5> QED  BY <4>1, <4>2, <5>1
      <4>4. t = [sum |-> r.sum + wt, alt |-> ~r.alt, count |-> r.count + 1]
        BY <2>3, <3>2 DEF ScanStep
      <4>5. r.sum \in Nat /\ r.count \in Nat /\ r.alt \in BOOLEAN
        BY <2>4 DEF Scanned
      <4>6. wt \in Nat /\ sum[c(q)] \in Nat
        <5>1. ch \in Nat /\ Doubled(ch) \in Nat
          BY <3>2 DEF IsDigit, Doubled
        <5> QED  BY <1>4, <2>7, <5>1
      <4>7. t.sum + sum[c(q)] = sum[n]
        <5> HIDE DEF wt
        <5> QED  BY <2>5, <4>3, <4>4, <4>5, <4>6
      <4>8. t.count = n - c(q)
        <5> HIDE DEF wt
        <5> QED  BY <1>3, <2>5, <4>1, <4>4
      <4>9. t.alt <=> (n - c(q)) % 2 = 1
        <5> DEFINE m == n - k
        <5>1. m \in Nat /\ n - c(q) = m + 1
          BY <1>3, <4>1
        <5>2. r.alt <=> m % 2 = 1
          BY <2>5
        <5> HIDE DEF m, wt
        <5>3. (m + 1) % 2 = 1 <=> ~(m % 2 = 1)
          BY <5>1
        <5> QED  BY <4>4, <4>5, <5>1, <5>2, <5>3
      <4> QED  BY <4>7, <4>8, <4>9
    <3> QED  BY <3>1, <3>2
  <2> QED  BY <2>8 DEF q, t
<1>10. P = Nat
  <2>1. P \in SUBSET Nat
    OBVIOUS
  <2> HIDE DEF P
  <2> QED  BY <1>8, <1>9, <2>1, SetInduction
<1>11. Good(N)
  <2>1. N \in P
    <3> HIDE DEF P
    <3> QED  BY <1>7, <1>10
  <2> QED  BY <1>7, <2>1
<1>12. c(N - N) = 0
  <2>1. N - N = 0
    BY <1>7
  <2> QED  BY <1>1, <2>1 DEF c, EndsUpTo
<1>13. from[N].count = n /\ from[N].sum = sum[n]
  <2>1. from[N].count = n - 0 /\ from[N].sum + sum[0] = sum[n]
    BY <1>11, <1>12
  <2>2. from[N].sum \in Nat /\ sum[0] = 0
    BY <1>2, <1>4, <1>7 DEF Scanned
  <2> QED  BY <1>3, <2>1, <2>2
<1> QED  BY <1>2, <1>4, <1>13 DEF n, ds

\* isValidLuhn accepts exactly the card numbers: as many digits as a card has,
\* and the Luhn rule holds of them.
LEMMA ValidIsLuhn ==
  ASSUME NEW s, Len(s) \in Nat
  PROVE  IsValidLuhn(s) <=> /\ Len(Digits(s)) \in MinDigits..MaxDigits
                            /\ Luhn(Digits(s))
<1>1. Luhn(Digits(s)) <=> LuhnSum(Digits(s), FALSE) % 10 = 0
  BY DigitsType, LuhnAgrees DEF LuhnOnDigits
<1> QED  BY <1>1, ScanAgrees DEF IsValidLuhn

----------------------------------------------------------------------------
(* Numbers made up.                                                        *)

\* What the numbers' proofs need to know of the constants.
LEMMA CardConstants ==
  /\ MinDigits \in Nat \ {0} /\ MaxDigits \in Nat
  /\ FakeDigits \in Nat \ {0, 1} /\ FakeDigits \in MinDigits..MaxDigits
  /\ ~IsDigit(Separator)
  /\ \A s \in Matches : Len(s) \in Nat \ {0} /\ IsDigit(s[Len(s)])
  /\ Counters \subseteq Nat
<1>1. ASSUME NEW s \in Matches
      PROVE  Len(s) \in Nat \ {0} /\ IsDigit(s[Len(s)])
  <2>1. s \in Seq(0..9 \cup {Separator}) /\ s # << >> /\ s[Len(s)] \in 0..9
    BY CardsAssumption DEF CardsAssumption
  <2> QED  BY <2>1 DEF IsDigit
<1>2. /\ MinDigits \in Nat \ {0, 1} /\ MaxDigits \in Nat
      /\ FakeDigits \in MinDigits..MaxDigits /\ Separator \notin 0..9
      /\ Counters \subseteq Nat
  BY CardsAssumption DEF CardsAssumption
<1> QED  BY <1>1, <1>2 DEF IsDigit

\* The places of a number hold digits (%014d).
LEMMA DecimalType ==
  ASSUME NEW n \in Nat, NEW w \in Nat
  PROVE  Decimal(n, w) \in [1..w -> 0..9]
<1> DEFINE a == 1
           V == Nat \ {0}
           add == [p \in (1..w) \X V |-> 10 * p[2]]
           Fills(f) == f = [k \in 0..w |-> IF k = 0 THEN 1 ELSE 10 * f[k - 1]]
           power == CHOOSE f : Fills(f)
<1>1. Decimal(n, w) = [i \in 1..w |-> (n \div power[w - i]) % 10]
  BY DEF Decimal
<1>2. a \in V /\ add \in [(1..w) \X V -> V]
  OBVIOUS
<1>3. \A k \in 1..w, v \in V : add[<<k, v>>] = 10 * v
  OBVIOUS
<1>4. \E f : Fills(f)
  <2>1. PICK g : Recurs(g, w, V, a, add)
    <3> HIDE DEF V, a, add
    <3> QED  BY <1>2, Recursion
  <2>2. \A k \in 1..w : g[k] = 10 * g[k - 1]
    <3>1. \A k \in 1..w : k - 1 \in 0..w
      OBVIOUS
    <3> HIDE DEF add, V
    <3> QED  BY <1>3, <2>1, <3>1 DEF Recurs
  <2>3. g[0] = 1 /\ g = [k \in 0..w |-> g[k]]
    BY <2>1 DEF Recurs
  <2>4. Fills(g)
    <3>1. \A k \in 0..w : k = 0 \/ k \in 1..w
      OBVIOUS
    <3> QED  BY <2>2, <2>3, <3>1
  <2> QED  BY <2>4
<1>5. Fills(power)
  <2> HIDE DEF Fills
  <2> QED  BY <1>4
<1> HIDE DEF power
<1>6. /\ DOMAIN power = 0..w /\ power = [k \in 0..w |-> power[k]] /\ power[0] = 1
      /\ \A k \in 1..w : power[k] = 10 * power[k - 1]
  <2>1. 0 \in 0..w /\ \A k \in 1..w : k \in 0..w /\ k # 0
    OBVIOUS
  <2> QED  BY <1>5, <2>1
<1>7. Recurs(power, w, V, a, add)
  <2>1. power[0] = a
    BY <1>6
  <2>2. \A k \in 1..w : power[k - 1] \in V => power[k] = add[<<k, power[k - 1]>>]
    BY <1>3, <1>6
  <2> HIDE DEF V, a, add
  <2> QED  BY <1>2, <1>6, <2>1, <2>2, Recursive
<1>8. ASSUME NEW i \in 1..w
      PROVE  (n \div power[w - i]) % 10 \in 0..9
  <2> DEFINE d == power[w - i]
             q == n \div d
  <2>1. w - i \in 0..w
    OBVIOUS
  <2>2. d \in Nat /\ d > 0
    BY <1>7, <2>1 DEF Recurs
  <2>3. q \in Int
    <3> HIDE DEF d
    <3> QED  BY <2>2
  <2>4. q % 10 \in 0..9
    <3> HIDE DEF q
    <3> QED  BY <2>3
  <2> QED  BY <2>4
<1> QED  BY <1>1, <1>8

\* What a sequence shows that was put together from two and a single element
\* between them.
LEMMA JoinedAround ==
  ASSUME NEW V, NEW a \in Seq(V), NEW b \in Seq(V), NEW x \in V
  PROVE  LET d == Join(Join(a, <<x>>), b)
         IN /\ Len(d) = Len(a) + 1 + Len(b)
            /\ \A k \in 1..Len(a) : d[k] = a[k]
            /\ d[Len(a) + 1] = x
            /\ \A k \in 1..Len(b) : d[Len(a) + 1 + k] = b[k]
<1> DEFINE mid == <<x>>
           c == Join(a, mid)
           d == Join(c, b)
<1>1. mid \in Seq(V)
  OBVIOUS
<1>2. Len(mid) = 1 /\ mid[1] = x
  OBVIOUS
<1> HIDE DEF mid
<1>3. c \in Seq(V)
  BY <1>1, Joined
<1>4. Len(c) = Len(a) + Len(mid)
  BY <1>1, Joined
<1>5. \A k \in 1..Len(a) : c[k] = a[k]
  BY <1>1, Joined
<1>6. \A k \in 1..Len(mid) : c[Len(a) + k] = mid[k]
  BY <1>1, Joined
<1> HIDE DEF c
<1>7. Len(d) = Len(c) + Len(b)
  BY <1>3, Joined
<1>8. \A k \in 1..Len(c) : d[k] = c[k]
  BY <1>3, Joined
<1>9. \A k \in 1..Len(b) : d[Len(c) + k] = b[k]
  BY <1>3, Joined
<1> HIDE DEF d
<1>10. Len(a) \in Nat /\ Len(c) = Len(a) + 1
  BY <1>2, <1>4
<1>11. c[Len(a) + 1] = x
  BY <1>2, <1>6
<1>12. \A k \in 1..Len(a) : d[k] = a[k]
  BY <1>5, <1>8, <1>10
<1>13. d[Len(a) + 1] = x
  BY <1>8, <1>10, <1>11
<1>14. Len(d) = Len(a) + 1 + Len(b) /\ \A k \in 1..Len(b) : d[Len(a) + 1 + k] = b[k]
  BY <1>7, <1>9, <1>10
<1> QED  BY <1>12, <1>13, <1>14 DEF d, c, mid

\* What a sequence shows that has a separator after its first half.
LEMMA Separated ==
  ASSUME NEW full \in Seq(0..9), NEW half \in 1..(Len(full) - 1), NEW s,
         s = Join(Join(SubSeq(full, 1, half), <<Separator>>),
                  SubSeq(full, half + 1, Len(full)))
  PROVE  /\ Len(s) = Len(full) + 1
         /\ \A k \in 1..half : s[k] = full[k]
         /\ s[half + 1] = Separator
         /\ \A k \in (half + 2)..(Len(full) + 1) : s[k] = full[k - 1]
<1> DEFINE F == Len(full)
           l == SubSeq(full, 1, half)
           r == SubSeq(full, half + 1, F)
           V == 0..9 \cup {Separator}
<1>1. F \in Nat /\ half \in Nat /\ half >= 1 /\ half + 1 <= F
  OBVIOUS
<1>2. /\ l \in Seq(0..9) /\ Len(l) = half /\ \A k \in 1..half : l[k] = full[k]
      /\ r \in Seq(0..9) /\ Len(r) = F - half
      /\ \A k \in 1..(F - half) : r[k] = full[half + k]
  BY <1>1
<1>3. l \in Seq(V) /\ r \in Seq(V) /\ Separator \in V
  BY <1>2
<1>4. s = Join(Join(l, <<Separator>>), r)
  BY DEF l, r, F
<1> HIDE DEF F, l, r, V
<1>5. /\ Len(s) = half + 1 + (F - half)
      /\ \A k \in 1..half : s[k] = l[k]
      /\ s[half + 1] = Separator
      /\ \A k \in 1..(F - half) : s[half + 1 + k] = r[k]
  <2>1. LET d == Join(Join(l, <<Separator>>), r)
        IN /\ Len(d) = Len(l) + 1 + Len(r)
           /\ \A k \in 1..Len(l) : d[k] = l[k]
           /\ d[Len(l) + 1] = Separator
           /\ \A k \in 1..Len(r) : d[Len(l) + 1 + k] = r[k]
    BY <1>3, JoinedAround
  <2>2. /\ Len(s) = Len(l) + 1 + Len(r)
        /\ \A k \in 1..Len(l) : s[k] = l[k]
        /\ s[Len(l) + 1] = Separator
        /\ \A k \in 1..Len(r) : s[Len(l) + 1 + k] = r[k]
    BY <1>4, <2>1
  <2> QED  BY <1>2, <2>2
<1>6. ASSUME NEW k \in (half + 2)..(F + 1)
      PROVE  s[k] = full[k - 1]
  <2> DEFINE i == k - (half + 1)
  <2>1. i \in 1..(F - half) /\ half + i = k - 1 /\ half + 1 + i = k
    BY <1>1
  <2> HIDE DEF i
  <2>2. s[half + 1 + i] = r[i]
    BY <1>5, <2>1
  <2>3. r[i] = full[half + i]
    BY <1>2, <2>1
  <2> QED  BY <2>1, <2>2, <2>3
<1>7. Len(s) = F + 1
  BY <1>1, <1>5
<1> QED  BY <1>2, <1>5, <1>6, <1>7 DEF F

\* The separator is no digit and stands between two: the digits are those the
\* number was put together from.
LEMMA SeparatedDigits ==
  ASSUME NEW full \in Seq(0..9), NEW half \in 1..(Len(full) - 1), NEW s,
         s = Join(Join(SubSeq(full, 1, half), <<Separator>>),
                  SubSeq(full, half + 1, Len(full)))
  PROVE  /\ Len(s) = Len(full) + 1
         /\ s[Len(s)] = full[Len(full)]
         /\ Digits(s) = full
<1> DEFINE F == Len(full)
           place(k) == IF k <= half THEN k ELSE k + 1
           left(p) == IF p <= half THEN p ELSE p - 1
<1>1. F \in Nat /\ half \in Nat /\ half >= 1 /\ half + 1 <= F
  OBVIOUS
<1>2. /\ Len(s) = F + 1
      /\ \A k \in 1..half : s[k] = full[k]
      /\ s[half + 1] = Separator
      /\ \A k \in (half + 2)..(F + 1) : s[k] = full[k - 1]
  <2> HIDE DEF place, left
  <2> QED  BY Separated
<1>3. s[F + 1] = full[F]
  <2> DEFINE z == F + 1
  <2>1. z \in (half + 2)..(F + 1) /\ z - 1 = F
    BY <1>1
  <2> HIDE DEF z, F
  <2>2. s[z] = full[z - 1]
    BY <1>2, <2>1
  <2> QED  BY <2>1, <2>2 DEF z
<1> HIDE DEF F
<1>4. Len(s) \in Nat /\ \A k \in 1..F : full[k] \in 0..9
  BY <1>1, <1>2 DEF F
<1>5. PICK up : EndsUpTo(up, s) /\ Ends(s) = up[Len(s)]
  BY <1>4, EndsEquation
<1> DEFINE Good(p) == /\ Len(up[p]) = left(p)
                      /\ \A k \in 1..left(p) : up[p][k] = place(k)
           P == {p \in Nat : p <= F + 1 => Good(p)}
<1>6. 0 \in P
  BY <1>1, <1>5 DEF EndsUpTo
<1>7. ASSUME NEW p \in P
      PROVE  p + 1 \in P
  <2>1. SUFFICES ASSUME p + 1 <= F + 1
                 PROVE  Good(p + 1)
    <3> HIDE DEF Good
    <3> QED  OBVIOUS
  <2> DEFINE v == up[p]
             w == up[p + 1]
  <2>2. /\ p \in Nat /\ p \in 0..Len(s) /\ p + 1 \in 1..Len(s) /\ p + 1 - 1 = p
    BY <1>1, <1>2, <2>1
  <2>3. v \in Seq(Nat) /\ Len(v) = left(p) /\ \A k \in 1..left(p) : v[k] = place(k)
    <3>1. Good(p)
      BY <1>1, <2>1
    <3> QED  BY <1>5, <2>2, <3>1 DEF EndsUpTo
  <2>4. w = IF IsDigit(s[p + 1]) THEN Append(v, p + 1) ELSE v
    <3>1. up[p + 1] = IF IsDigit(s[p + 1]) THEN Append(up[(p + 1) - 1], p + 1)
                      ELSE up[(p + 1) - 1]
      BY <1>5, <2>2 DEF EndsUpTo
    <3> QED  BY <2>2, <3>1
  <2> HIDE DEF v, w, P
  <2>5. Len(w) = left(p + 1) /\ \A k \in 1..left(p + 1) : w[k] = place(k)
    <3>1. CASE p = half
      <4>1. ~IsDigit(s[p + 1])
        BY <1>2, <3>1, CardConstants
      <4> QED  BY <1>1, <2>3, <2>4, <3>1, <4>1
    <3>2. CASE p # half
      <4>1. IsDigit(s[p + 1])
        <5>1. CASE p < half
          <6>1. p + 1 \in 1..half /\ p + 1 \in 1..F
            BY <1>1, <2>2, <5>1
          <6> QED  BY <1>2, <1>4, <6>1 DEF IsDigit
        <5>2. CASE p > half
          <6> DEFINE z == p + 1
          <6>1. z \in (half + 2)..(F + 1) /\ z - 1 \in 1..F
            BY <1>1, <2>1, <2>2, <5>2
          <6> HIDE DEF z
          <6>2. s[z] = full[z - 1] /\ full[z - 1] \in 0..9
            BY <1>2, <1>4, <6>1
          <6> QED  BY <6>2 DEF IsDigit, z
        <5> QED  BY <1>1, <2>2, <3>2, <5>1, <5>2
      <4>2. w = Append(v, p + 1)
        BY <2>4, <4>1
      <4>3. Len(w) = Len(v) + 1 /\ w[Len(v) + 1] = p + 1
              /\ \A k \in 1..Len(v) : w[k] = v[k]
        BY <2>3, <4>2
      <4>4. left(p + 1) = left(p) + 1 /\ place(left(p) + 1) = p + 1
              /\ left(p) \in Nat
        BY <1>1, <2>2, <3>2
      <4> HIDE DEF left, place
      <4>5. ASSUME NEW k \in 1..left(p + 1)
            PROVE  w[k] = place(k)
        <5>1. k \in 1..left(p) \/ k = left(p) + 1
          BY <4>4
        <5> QED  BY <2>3, <4>3, <4>4, <5>1
      <4> QED  BY <2>3, <4>3, <4>4, <4>5
    <3> QED  BY <3>1, <3>2
  <2> QED  BY <2>5 DEF w
<1>8. P = Nat
  <2>1. P \in SUBSET Nat
    OBVIOUS
  <2> HIDE DEF P
  <2> QED  BY <1>6, <1>7, <2>1, SetInduction
<1>9. Good(F + 1)
  <2>1. F + 1 \in P
    <3> HIDE DEF P
    <3> QED  BY <1>1, <1>8
  <2> QED  BY <1>1, <2>1
<1> HIDE DEF P
<1> DEFINE E == Ends(s)
           D == Digits(s)
<1>10. Len(E) = F /\ \A k \in 1..F : E[k] = place(k)
  <2>1. left(F + 1) = F
    BY <1>1
  <2>2. E = up[F + 1]
    <3> HIDE DEF left, place
    <3> QED  BY <1>2, <1>5
  <2> HIDE DEF E
  <2> QED  BY <1>9, <2>1, <2>2
<1>11. \A k \in 1..F : s[place(k)] = full[k]
  <2>1. ASSUME NEW k \in 1..F
        PROVE  s[place(k)] = full[k]
    <3>1. CASE k <= half
      BY <1>1, <1>2, <3>1
    <3>2. CASE k > half
      <4> DEFINE z == k + 1
      <4>1. z \in (half + 2)..(F + 1) /\ z - 1 = k
        BY <1>1, <3>2
      <4>2. place(k) = z
        BY <1>1, <3>2
      <4>3. s[z] = full[z - 1]
        <5> HIDE DEF z
        <5> QED  BY <1>2, <4>1
      <4>4. s[z] = full[k]
        BY <4>1, <4>3
      <4>5. s[place(k)] = s[z]
        BY <4>2
      <4> QED  BY <4>4, <4>5
    <3> QED  BY <1>1, <3>1, <3>2
  <2> QED  BY <2>1
<1>12. /\ D \in Seq(0..9) /\ Len(D) = F /\ \A k \in 1..F : D[k] = full[k]
  <2>1. /\ D \in Seq(0..9) /\ Len(D) = Len(E)
        /\ \A k \in 1..Len(E) : D[k] = s[E[k]]
    BY <1>4, DigitsType
  <2> HIDE DEF D, E, place
  <2> QED  BY <1>10, <1>11, <2>1
<1>13. D = full
  <2> HIDE DEF D
  <2> QED  BY <1>12 DEF F
<1> QED  BY <1>2, <1>3, <1>13 DEF F

\* A number made up by synthCard is a card number as it stands, ending with a
\* digit.
LEMMA MadeUpCards ==
  ASSUME NEW s \in Fakes
  PROVE  Len(s) \in Nat \ {0} /\ IsDigit(s[Len(s)]) /\ IsValidLuhn(s)
<1>1. PICK n \in Counters : s = SynthCard(n)
  BY DEF Fakes
<1> DEFINE w == FakeDigits - 2
           base == <<4>> \o Decimal(n, w)
           full == Append(base, LuhnCheckDigit(base))
           half == FakeDigits \div 2
<1>2. n \in Nat /\ w \in Nat /\ w + 2 = FakeDigits
  BY CardConstants
<1>3. base \in Seq(0..9) /\ Len(base) = w + 1
  <2> DEFINE d == Decimal(n, w)
  <2>1. d \in [1..w -> 0..9]
    BY <1>2, DecimalType
  <2> HIDE DEF d
  <2>2. d \in Seq(0..9) /\ Len(d) = w
    BY <1>2, <2>1
  <2> HIDE DEF w
  <2>3. <<4>> \o d \in Seq(0..9)
    BY <2>2
  <2>4. Len(<<4>> \o d) = w + 1
    BY <1>2, <2>2
  <2> QED  BY <2>3, <2>4 DEF d
<1>4. s = Join(Join(SubSeq(full, 1, half), <<Separator>>),
               SubSeq(full, half + 1, FakeDigits))
  BY <1>1 DEF SynthCard, Join
<1> HIDE DEF base
<1>5. /\ LuhnCheckDigit(base) \in 0..9
      /\ LuhnOnDigits(full)
  BY <1>3, CheckDigitFits
<1> DEFINE c == LuhnCheckDigit(base)
<1>6. full \in Seq(0..9) /\ Len(full) = FakeDigits
  <2>1. c \in 0..9
    BY <1>5
  <2> HIDE DEF c, w
  <2>2. Append(base, c) \in Seq(0..9) /\ Len(Append(base, c)) = w + 2
    BY <1>2, <1>3, <2>1
  <2> QED  BY <1>2, <2>2 DEF c
<1> HIDE DEF full
<1>7. half \in 1..(Len(full) - 1) /\ half \in Nat
  BY <1>6, CardConstants
<1> HIDE DEF half
<1>8. /\ Len(s) = Len(full) + 1
      /\ s[Len(s)] = full[Len(full)]
      /\ Digits(s) = full
  <2>1. s = Join(Join(SubSeq(full, 1, half), <<Separator>>),
                 SubSeq(full, half + 1, Len(full)))
    BY <1>4, <1>6
  <2> QED  BY <1>6, <1>7, <2>1, SeparatedDigits
<1>9. Len(s) \in Nat \ {0} /\ IsDigit(s[Len(s)])
  <2>1. Len(full) \in 1..Len(full) /\ Len(full) \in Nat
    BY <1>6, CardConstants
  <2>2. full[Len(full)] \in 0..9
    BY <1>6, <2>1
  <2> QED  BY <1>8, <2>1, <2>2 DEF IsDigit
<1>10. Luhn(full)
  BY <1>5, <1>6, LuhnAgrees
<1>11. Len(full) \in MinDigits..MaxDigits
  BY <1>6, CardConstants
<1> QED  BY <1>8, <1>9, <1>10, <1>11, ValidIsLuhn

\* What may be looked at.
Presentable(s) == Len(s) \in Nat \ {0} /\ IsDigit(s[Len(s)])

\* Matches and made up numbers are such.
LEMMA MatchesPresentable == \A s \in Matches \cup Fakes : Presentable(s)
BY CardConstants, MadeUpCards DEF Presentable

\* The last digit of what ends with a digit stands at its end.
LEMMA LastEnd ==
  ASSUME NEW s, Presentable(s)
  PROVE  Len(Ends(s)) \in Nat \ {0} /\ Ends(s)[Len(Ends(s))] = Len(s)
<1> DEFINE N == Len(s)
<1>1. N \in Nat \ {0} /\ IsDigit(s[N])
  BY DEF Presentable
<1>2. PICK up : EndsUpTo(up, s) /\ Ends(s) = up[Len(s)]
  BY <1>1, EndsEquation
<1> DEFINE v == up[N - 1]
<1>3. v \in Seq(Nat)
  <2>1. N - 1 \in 0..Len(s)
    BY <1>1
  <2> QED  BY <1>2, <2>1 DEF EndsUpTo
<1>4. Ends(s) = Append(v, N)
  <2>1. N \in 1..Len(s)
    BY <1>1
  <2>2. \A i \in 1..Len(s) :
          up[i] = IF IsDigit(s[i]) THEN Append(up[i - 1], i) ELSE up[i - 1]
    BY <1>2 DEF EndsUpTo
  <2> QED  BY <1>1, <1>2, <2>1, <2>2
<1> HIDE DEF N, v
<1>5. Len(Append(v, N)) \in Nat \ {0} /\ Append(v, N)[Len(Append(v, N))] = N
  BY <1>1, <1>3
<1> QED  BY <1>4, <1>5 DEF N

----------------------------------------------------------------------------
(* The part of a match that is masked.                                     *)

\* A card number of n digits begins the match s.
Begins(s, n) ==
  n \in MinDigits..MaxDigits /\ Luhn(SubSeq(Digits(s), 1, n))

\* It is the longest, and ends at e.
Longest(s, e) ==
  \E n \in DOMAIN Digits(s) :
    /\ Begins(s, n) /\ e = Ends(s)[n]
    /\ \A m \in DOMAIN Digits(s) : Begins(s, m) => m <= n

\* Longer card numbers than n digits do not begin s.
NoneLonger(s, n) ==
  \A m \in DOMAIN Digits(s) : Begins(s, m) => m <= n

\* The digits of what may be looked at.
LEMMA DigitsOf ==
  ASSUME NEW s, Presentable(s)
  PROVE  /\ Digits(s) \in Seq(0..9)
         /\ Len(Digits(s)) \in Nat \ {0}
         /\ Len(Digits(s)) = Len(Ends(s))
         /\ DOMAIN Digits(s) = 1..Len(Digits(s))
         /\ Ends(s)[Len(Digits(s))] = Len(s)
<1>1. Len(s) \in Nat
  BY DEF Presentable
<1>2. Digits(s) \in Seq(0..9) /\ Len(Digits(s)) = Len(Ends(s))
  BY <1>1, DigitsType
<1>3. Len(Ends(s)) \in Nat \ {0} /\ Ends(s)[Len(Ends(s))] = Len(s)
  BY LastEnd
<1> DEFINE D == Digits(s)
<1>4. DOMAIN D = 1..Len(D)
  <2> HIDE DEF D
  <2> QED  BY <1>2 DEF D
<1> QED  BY <1>2, <1>3, <1>4

\* A match that is valid as a whole has no longer part.
LEMMA WholeIsLongest ==
  ASSUME NEW s, Presentable(s), IsValidLuhn(s)
  PROVE  Longest(s, Len(s))
<1> DEFINE D == Digits(s)
           N == Len(D)
<1>1. /\ D \in Seq(0..9) /\ N \in Nat \ {0} /\ DOMAIN D = 1..N
      /\ Ends(s)[N] = Len(s)
  BY DigitsOf
<1>2. N \in MinDigits..MaxDigits /\ Luhn(D)
  BY ValidIsLuhn DEF Presentable
<1> HIDE DEF D
<1>3. SubSeq(D, 1, N) = D
  BY <1>1
<1>4. Begins(s, N)
  BY <1>2, <1>3 DEF Begins, D
<1> HIDE DEF N
<1>5. N \in 1..N /\ \A m \in 1..N : m <= N
  BY <1>1
<1> QED  BY <1>1, <1>4, <1>5 DEF Longest, D

\* Otherwise no part is longer than the first one tried.
LEMMA FirstTried ==
  ASSUME NEW s, Presentable(s)
  PROVE  LET n == IF Len(Digits(s)) > MaxDigits THEN MaxDigits
                  ELSE Len(Digits(s))
         IN n \in Nat /\ n <= Len(Digits(s)) /\ n <= MaxDigits /\ NoneLonger(s, n)
<1> DEFINE N == Len(Digits(s))
           n == IF N > MaxDigits THEN MaxDigits ELSE N
<1>1. N \in Nat /\ DOMAIN Digits(s) = 1..N
  BY DigitsOf
<1>2. MinDigits \in Nat /\ MaxDigits \in Nat
  BY CardConstants
<1> HIDE DEF N
<1>3. n \in Nat /\ n <= N /\ n <= MaxDigits
  BY <1>1, <1>2
<1>4. \A m \in 1..N : m \in MinDigits..MaxDigits => m <= n
  BY <1>1, <1>2
<1>5. NoneLonger(s, n)
  BY <1>1, <1>4 DEF NoneLonger, Begins
<1> QED  BY <1>3, <1>5 DEF N

\* The length that is tried is that of a card number or it is given up.
LEMMA LengthTried ==
  ASSUME NEW s, Presentable(s), NEW n \in Nat,
         n <= Len(Digits(s)), n <= MaxDigits, NoneLonger(s, n)
  PROVE  /\ n < MinDigits => \A m \in DOMAIN Digits(s) : ~Begins(s, m)
         /\ n >= MinDigits /\ LuhnOnDigits(SubSeq(Digits(s), 1, n)) =>
              Longest(s, Ends(s)[n])
         /\ n >= MinDigits /\ ~LuhnOnDigits(SubSeq(Digits(s), 1, n)) =>
              n - 1 \in Nat /\ NoneLonger(s, n - 1)
<1> DEFINE D == Digits(s)
           N == Len(D)
<1>1. D \in Seq(0..9) /\ N \in Nat \ {0} /\ DOMAIN D = 1..N
  BY DigitsOf
<1>2. MinDigits \in Nat \ {0} /\ MaxDigits \in Nat
  BY CardConstants
<1>3. \A m \in 1..N : Begins(s, m) => m \in MinDigits..MaxDigits /\ m <= n
  BY <1>1 DEF Begins, NoneLonger
<1>4. Luhn(SubSeq(D, 1, n)) <=> LuhnOnDigits(SubSeq(D, 1, n))
  <2> HIDE DEF D
  <2>1. SubSeq(D, 1, n) \in Seq(0..9)
    BY <1>1 DEF D
  <2> QED  BY <2>1, LuhnAgrees
<1> HIDE DEF D, N
<1>5. ASSUME n < MinDigits
      PROVE  \A m \in 1..N : ~Begins(s, m)
  BY <1>1, <1>2, <1>3, <1>5
<1>6. ASSUME n >= MinDigits, LuhnOnDigits(SubSeq(D, 1, n))
      PROVE  Longest(s, Ends(s)[n])
  <2>1. n \in 1..N /\ n \in MinDigits..MaxDigits
    BY <1>1, <1>2, <1>6 DEF N, D
  <2>2. Begins(s, n)
    BY <1>4, <1>6, <2>1 DEF Begins, D
  <2> QED  BY <1>1, <1>3, <2>1, <2>2 DEF Longest, D
<1>7. ASSUME n >= MinDigits, ~LuhnOnDigits(SubSeq(D, 1, n))
      PROVE  n - 1 \in Nat /\ NoneLonger(s, n - 1)
  <2>1. ~Begins(s, n)
    BY <1>4, <1>7 DEF Begins, D
  <2>2. n - 1 \in Nat
    BY <1>2, <1>7
  <2>3. ASSUME NEW m \in 1..N, Begins(s, m)
        PROVE  m <= n - 1
    <3>1. m # n /\ m <= n /\ m \in Nat
      BY <1>1, <1>3, <2>1, <2>3
    <3> QED  BY <3>1
  <2> QED  BY <1>1, <2>2, <2>3 DEF NoneLonger, D
<1> QED  BY <1>1, <1>5, <1>6, <1>7 DEF D

\* What is known while a match is looked at: longer parts than the length that
\* is tried are no card numbers, and a made up number is found at once.
CardInv ==
  /\ seg \in Matches \cup Fakes
  /\ step \in {"whole", "prefix", "found", "none"}
  /\ step = "prefix" => /\ seg \notin Fakes
                        /\ len \in Nat
                        /\ len <= Len(Digits(seg)) /\ len <= MaxDigits
                        /\ NoneLonger(seg, len)
  /\ step = "found" => Longest(seg, end)
  /\ step = "none" => /\ seg \notin Fakes
                      /\ \A n \in DOMAIN Digits(seg) : ~Begins(seg, n)
  /\ seg \in Fakes /\ step = "found" => end = Len(seg)

\* Every step of the choice keeps it.
LEMMA CardInit == CardsInit => CardInv
BY DEF CardsInit, CardInv

LEMMA CardStep == CardInv /\ [CardsNext]_cardsVars => CardInv'
<1> SUFFICES ASSUME CardInv, [CardsNext]_cardsVars
             PROVE  CardInv'
  OBVIOUS
<1>1. seg \in Matches \cup Fakes /\ Presentable(seg)
  BY MatchesPresentable DEF CardInv
<1>2. CASE Whole
  <2>1. step = "whole" /\ seg' = seg
    BY <1>2 DEF Whole
  <2>2. CASE IsValidLuhn(seg)
    <3>1. step' = "found" /\ end' = Len(seg)
      BY <1>2, <2>2 DEF Whole
    <3>2. Longest(seg, Len(seg))
      BY <1>1, <2>2, WholeIsLongest
    <3> QED  BY <1>1, <2>1, <3>1, <3>2 DEF CardInv
  <2>3. CASE ~IsValidLuhn(seg)
    <3> DEFINE n == IF Len(Digits(seg)) > MaxDigits THEN MaxDigits
                    ELSE Len(Digits(seg))
    <3>1. step' = "prefix" /\ len' = n
      BY <1>2, <2>3 DEF Whole
    <3>2. seg \notin Fakes
      BY <2>3, MadeUpCards
    <3>3. /\ n \in Nat /\ n <= Len(Digits(seg)) /\ n <= MaxDigits
          /\ NoneLonger(seg, n)
      BY <1>1, FirstTried
    <3> HIDE DEF n
    <3> QED  BY <1>1, <2>1, <3>1, <3>2, <3>3 DEF CardInv
  <2> QED  BY <2>2, <2>3
<1>3. CASE Shorten
  <2>1. step = "prefix" /\ seg' = seg
    BY <1>3 DEF Shorten
  <2>2. /\ seg \notin Fakes /\ len \in Nat
        /\ len <= Len(Digits(seg)) /\ len <= MaxDigits /\ NoneLonger(seg, len)
    BY <2>1 DEF CardInv
  <2>3. /\ len < MinDigits => \A m \in DOMAIN Digits(seg) : ~Begins(seg, m)
        /\ len >= MinDigits /\ LuhnOnDigits(SubSeq(Digits(seg), 1, len)) =>
             Longest(seg, Ends(seg)[len])
        /\ len >= MinDigits /\ ~LuhnOnDigits(SubSeq(Digits(seg), 1, len)) =>
             len - 1 \in Nat /\ NoneLonger(seg, len - 1)
    BY <1>1, <2>2, LengthTried
  <2>4. MinDigits \in Nat
    BY CardConstants
  <2> DEFINE luhn == LuhnOnDigits(SubSeq(Digits(seg), 1, len))
  <2>5. CASE len < MinDigits
    <3>1. step' = "none"
      BY <1>3, <2>5 DEF Shorten
    <3> QED  BY <1>1, <2>1, <2>2, <2>3, <2>5, <3>1 DEF CardInv
  <2>6. CASE ~(len < MinDigits) /\ luhn
    <3>1. step' = "found" /\ end' = Ends(seg)[len]
      BY <1>3, <2>6 DEF Shorten
    <3>2. Longest(seg, Ends(seg)[len])
      BY <2>2, <2>3, <2>4, <2>6
    <3> QED  BY <1>1, <2>1, <2>2, <3>1, <3>2 DEF CardInv
  <2>7. CASE ~(len < MinDigits) /\ ~luhn
    <3>1. step' = "prefix" /\ len' = len - 1
      BY <1>3, <2>1, <2>7 DEF Shorten
    <3>2. len - 1 \in Nat /\ NoneLonger(seg, len - 1)
      BY <2>2, <2>3, <2>4, <2>7
    <3>3. len - 1 <= Len(Digits(seg)) /\ len - 1 <= MaxDigits
      <4>1. Len(Digits(seg)) \in Nat /\ MaxDigits \in Nat
        BY <1>1, DigitsOf, CardConstants
      <4> QED  BY <2>2, <4>1
    <3> QED  BY <1>1, <2>1, <2>2, <3>1, <3>2, <3>3 DEF CardInv
  <2> QED  BY <2>5, <2>6, <2>7
<1>4. CASE NextMonth
  BY <1>4 DEF NextMonth, CardInv
<1>5. CASE UNCHANGED cardsVars
  BY <1>5 DEF cardsVars, CardInv
<1> QED  BY <1>2, <1>3, <1>4, <1>5 DEF CardsNext

LEMMA CardInvariance == CardsSpec => []CardInv
BY CardInit, CardStep, PTL DEF CardsSpec

\* longestLuhnCard masks the longest part of a match that is a card number, to
\* its last digit, and nothing only if no part is one: for matches of every
\* length and every bound of digits.
THEOREM LongestPartMasked == CardsSpec => []LongestCardMasked
<1>1. CardInv => LongestCardMasked
  BY DEF CardInv, LongestCardMasked, Longest, Begins, CardPrefix
<1> QED  BY <1>1, CardInvariance, PTL

\* A number that synthCard makes up of whatever counter is found whole by the
\* detector: the check digit it computes is the one isValidLuhn asks for.
THEOREM MadeUpCardsFound == CardsSpec => []FakeCardsFound
<1>1. CardInv => FakeCardsFound
  BY DEF CardInv, FakeCardsFound
<1> QED  BY <1>1, CardInvariance, PTL

----------------------------------------------------------------------------
(* The search for names: the invariant.                                    *)

\* The second search starts afresh, and the searches end behind the text.
Started ==
  /\ phase = "capitals" => width = 3 /\ morph = << >>
  /\ phase = "named" => at > Size

\* The wider windows at the word at hand have been refused.
Tried ==
  phase = "morph" => \A w \in 1..3 : w > width => ~Acceptable(text, at, w)

\* Every span of findFIOMorph is the widest window that can be accepted where
\* it starts.
Widest(t, s) ==
  LET n == s.to - s.from + 1
  IN /\ n \in 1..3
     /\ Acceptable(t, s.from, n)
     /\ \A w \in 1..3 : w > n => ~Acceptable(t, s.from, w)

MorphOK == \A j \in DOMAIN morph : Widest(text, morph[j])

\* A span of findFIO has two words or more, with white space between them,
\* begins behind the role words and is no exception.
ChunkOK(t, s) ==
  LET n == s.to - s.from + 1
  IN /\ n >= 2
     /\ ~CoreIsFalse(Slice(t, s.from, n))
     /\ t.words[s.from] \notin Role
     /\ \A k \in s.from..(s.to - 1) : t.gaps[k] \in {"near", "wide"}

FioOK == \A j \in DOMAIN fio : ChunkOK(text, fio[j])

NamesInv ==
  /\ NamesTypeOK /\ Started /\ Tried /\ MorphOK /\ FioOK
  /\ SpansInOrder /\ NoNameSkipped

USE NamesAssumption

----------------------------------------------------------------------------
(* Helpers.                                                                *)

\* The core of a chunk starts in the chunk, with a word that is no role, or, if
\* all its words are roles, right behind it (findFIO).
LEMMA CoreStartIn ==
  ASSUME NEW t, NEW i \in Nat, NEW n \in 2..4
  PROVE  /\ CoreStart(t, i, n) \in i..(i + n)
         /\ CoreStart(t, i, n) < i + n => t.words[CoreStart(t, i, n)] \notin Role
<1> DEFINE Core(c) == /\ \A k \in i..(c - 1) : t.words[k] \in Role
                      /\ c < i + n => t.words[c] \notin Role
<1>1. \E c \in i..(i + n) : Core(c)
  <2>1. CASE t.words[i] \notin Role
    <3>1. Core(i)
      BY <2>1
    <3> QED  BY <3>1
  <2>2. CASE t.words[i] \in Role /\ t.words[i + 1] \notin Role
    <3>1. Core(i + 1)
      BY <2>2
    <3> QED  BY <3>1
  <2>3. CASE /\ t.words[i] \in Role /\ t.words[i + 1] \in Role
             /\ n = 2 \/ t.words[i + 2] \notin Role
    <3>1. Core(i + 2)
      BY <2>3
    <3> QED  BY <3>1
  <2>4. CASE /\ t.words[i] \in Role /\ t.words[i + 1] \in Role
             /\ t.words[i + 2] \in Role /\ n > 2
             /\ n = 3 \/ t.words[i + 3] \notin Role
    <3>1. Core(i + 3)
      BY <2>4
    <3> QED  BY <2>4, <3>1
  <2>5. CASE /\ t.words[i] \in Role /\ t.words[i + 1] \in Role
             /\ t.words[i + 2] \in Role /\ t.words[i + 3] \in Role /\ n = 4
    <3>1. Core(i + 4)
      BY <2>5
    <3> QED  BY <2>5, <3>1
  <2> QED  BY <2>1, <2>2, <2>3, <2>4, <2>5
<1> QED  BY <1>1 DEF CoreStart

\* What is no exception holds no stop word (coreIsFalse, morphIsFalse).
LEMMA NotFalse ==
  ASSUME NEW t, NEW i \in Nat, NEW w \in Nat,
         ~CoreIsFalse(Slice(t, i, w)) \/ ~MorphIsFalse(Slice(t, i, w)),
         NEW k \in i..(i + w - 1)
  PROVE  t.words[k] \notin Stop
<1>1. k - i + 1 \in DOMAIN Slice(t, i, w)
  BY DEF Slice
<1>2. Slice(t, i, w)[k - i + 1] = t.words[k]
  BY DEF Slice
<1> QED  BY <1>1, <1>2 DEF CoreIsFalse, MorphIsFalse

\* A window that is accepted holds at least one word, all within the text.
LEMMA WindowIn ==
  ASSUME NEW t \in Texts, NEW i \in Nat \ {0}, NEW w \in 1..3, Acceptable(t, i, w)
  PROVE  i \in 1..Len(t.words) /\ i + w - 1 \in 1..Len(t.words)
BY DEF Acceptable, Window

\* The spans a search may find in the text at hand.
SpanSet == [from : 1..Size, to : 1..Size]

\* What is in a list of spans.
LEMMA Elements ==
  ASSUME text \in Texts, NEW s \in Seq(SpanSet), NEW j \in DOMAIN s
  PROVE  s[j] \in SpanSet /\ s[j].from \in 1..Size /\ s[j].to \in 1..Size
           /\ Size \in Nat
<1>1. s[j] \in SpanSet
  OBVIOUS
<1> QED  BY <1>1 DEF SpanSet, Size

\* The ends of a span that findFIOMorph has found.
LEMMA SpanEnds ==
  ASSUME NamesInv, NEW j \in DOMAIN morph
  PROVE  /\ morph[j].from \in Nat \ {0} /\ morph[j].to \in Nat
         /\ Size \in Nat /\ morph[j].to <= Size
<1>1. text \in Texts /\ morph \in Seq(SpanSet)
  BY DEF NamesInv, NamesTypeOK, SpanSet
<1> QED  BY <1>1, Elements

\* The same for a span of findFIO.
LEMMA ChunkEnds ==
  ASSUME NamesInv, NEW j \in DOMAIN fio
  PROVE  /\ fio[j].from \in Nat \ {0} /\ fio[j].to \in Nat
         /\ Size \in Nat /\ fio[j].to <= Size
<1>1. text \in Texts /\ fio \in Seq(SpanSet)
  BY DEF NamesInv, NamesTypeOK, SpanSet
<1> QED  BY <1>1, Elements

\* A list with one more span.
LEMMA Appended ==
  ASSUME NEW X, NEW s \in Seq(X), NEW x \in X
  PROVE  /\ Append(s, x) \in Seq(X)
         /\ Len(s) \in Nat /\ DOMAIN s = 1..Len(s)
         /\ DOMAIN Append(s, x) = 1..(Len(s) + 1)
         /\ \A j \in DOMAIN s : s[j] \in X /\ Append(s, x)[j] = s[j]
         /\ Append(s, x)[Len(s) + 1] = x
OBVIOUS

\* A longer list covers what a shorter one did, and its last span.
LEMMA InAppend ==
  ASSUME NEW X, NEW s \in Seq(X), NEW x \in X, NEW k
  PROVE  /\ In(k, s) => In(k, Append(s, x))
         /\ k \in x.from..x.to => In(k, Append(s, x))
BY Appended DEF In

----------------------------------------------------------------------------
(* Every step keeps the invariant.                                         *)

\* The searches start with no span and with the widest window.
LEMMA NamesInvInit == NamesInit => NamesInv
<1> SUFFICES ASSUME NamesInit PROVE NamesInv
  OBVIOUS
<1>1. phase = "capitals" /\ at = 1 /\ width = 3 /\ fio = << >> /\ morph = << >>
  BY DEF NamesInit
<1> QED  BY <1>1 DEF NamesInit, NamesInv, NamesTypeOK, Started, Tried, MorphOK,
                     FioOK, SpansInOrder, NoNameSkipped

\* A chunk of capitalised words (findFIO).
LEMMA ChunkKeeps ==
  ASSUME NamesInv, NEW n \in 2..4, TakeChunk(n)
  PROVE  NamesInv'
<1> DEFINE c == CoreStart(text, at, n)
           size == at + n - c
           x == [from |-> c, to |-> at + n - 1]
<1>1. /\ phase = "capitals" /\ at' = at + n /\ at + n - 1 <= Size
      /\ UNCHANGED <<text, phase, width, morph>>
      /\ \A k \in at..(at + n - 2) : text.gaps[k] \in {"near", "wide"}
      /\ \/ fio' = fio
         \/ fio' = Append(fio, x) /\ ~(size < 2) /\ ~CoreIsFalse(Slice(text, c, size))
  <2>1. /\ phase = "capitals" /\ at' = at + n /\ at + n - 1 <= Size
        /\ UNCHANGED <<text, phase, width, morph>>
        /\ \A k \in at..(at + n - 2) : text.gaps[k] \in {"near", "wide"}
    BY DEF TakeChunk, Chunk, Size
  <2>2. fio' = IF AfterDot(text, at) \/ size < 2 \/ CoreIsFalse(Slice(text, c, size))
               THEN fio ELSE Append(fio, x)
    BY DEF TakeChunk
  <2> HIDE DEF c, size, x
  <2>3. AfterDot(text, at) \in BOOLEAN /\ CoreIsFalse(Slice(text, c, size)) \in BOOLEAN
    BY DEF AfterDot, CoreIsFalse
  <2>4. fio' = fio \/ (fio' = Append(fio, x) /\ ~(size < 2)
                         /\ ~CoreIsFalse(Slice(text, c, size)))
    BY <2>2, <2>3
  <2> QED  BY <2>1, <2>4
<1>2. /\ text \in Texts /\ at \in Nat \ {0} /\ width = 3 /\ morph = << >>
      /\ fio \in Seq([from : 1..Size, to : 1..Size]) /\ Size \in Nat
  BY <1>1 DEF NamesInv, NamesTypeOK, Started, Size
<1>3. c \in at..(at + n) /\ (c < at + n => text.words[c] \notin Role)
  BY <1>2, CoreStartIn
<1> HIDE DEF c
<1>4. Size' = Size
  BY <1>1 DEF Size
<1>5. /\ fio \in Seq(SpanSet)
      /\ \A j \in DOMAIN fio : /\ fio[j] \in SpanSet /\ fio[j].to < at
                               /\ fio[j].from \in Nat /\ fio[j].to \in Nat
      /\ \A i, j \in DOMAIN fio : i < j => fio[i].to < fio[j].from
  <2>1. fio \in Seq(SpanSet)
    BY <1>2 DEF SpanSet
  <2>2. /\ \A j \in DOMAIN fio : fio[j].to < at
        /\ \A i, j \in DOMAIN fio : i < j => fio[i].to < fio[j].from
    BY <1>1 DEF NamesInv, SpansInOrder
  <2> QED  BY <1>2, <2>1, <2>2, Elements
<1>6. CASE fio' = fio
  <2>1. NamesTypeOK'
    BY <1>1, <1>2, <1>4, <1>6 DEF NamesInv, NamesTypeOK
  <2>2. FioOK'
    BY <1>1, <1>6 DEF NamesInv, FioOK
  <2>3. SpansInOrder'
    BY <1>1, <1>2, <1>6, <1>5 DEF SpansInOrder
  <2> QED  BY <1>1, <1>2, <2>1, <2>2, <2>3
              DEF NamesInv, Started, Tried, MorphOK, NoNameSkipped
<1>7. CASE /\ fio' = Append(fio, x) /\ ~(size < 2)
           /\ ~CoreIsFalse(Slice(text, c, size))
  <2>1. x \in SpanSet /\ x.from = c /\ x.to = at + n - 1
    BY <1>1, <1>2, <1>3, <1>7, SMTT(20) DEF SpanSet
  <2>2. ChunkOK(text, x)
    <3>1. c \in Nat /\ c < at + n /\ x.to - x.from + 1 = size
      BY <1>2, <1>3, <1>7, <2>1
    <3>2. \A k \in x.from..(x.to - 1) : text.gaps[k] \in {"near", "wide"}
      BY <1>1, <1>2, <1>3, <2>1
    <3>3. size >= 2
      BY <1>2, <1>3, <1>7
    <3> HIDE DEF size, x
    <3> QED  BY <1>3, <1>7, <2>1, <3>1, <3>2, <3>3 DEF ChunkOK
  <2> HIDE DEF x
  <2>3. /\ fio' \in Seq(SpanSet)
        /\ Len(fio) \in Nat /\ DOMAIN fio = 1..Len(fio)
        /\ DOMAIN fio' = 1..(Len(fio) + 1)
        /\ \A j \in DOMAIN fio : fio[j] \in SpanSet /\ fio'[j] = fio[j]
        /\ fio'[Len(fio) + 1] = x
    BY <1>7, <1>5, <2>1, Appended
  <2>4. NamesTypeOK'
    BY <1>1, <1>2, <1>4, <2>3, SMTT(20) DEF NamesInv, NamesTypeOK, SpanSet
  <2>5. FioOK'
    <3> SUFFICES ASSUME NEW j \in DOMAIN fio' PROVE ChunkOK(text, fio'[j])
      BY <1>1 DEF FioOK
    <3> QED  BY <2>2, <2>3 DEF NamesInv, FioOK
  <2>6. SpansInOrder'
    <3>1. \A i, j \in DOMAIN fio' : i < j => fio'[i].to < fio'[j].from
      <4> SUFFICES ASSUME NEW i \in DOMAIN fio', NEW j \in DOMAIN fio', i < j
                   PROVE  fio'[i].to < fio'[j].from
        OBVIOUS
      <4>1. CASE j \in DOMAIN fio
        BY <1>5, <2>3, <4>1
      <4>2. CASE j = Len(fio) + 1
        <5>1. i \in DOMAIN fio
          BY <2>3, <4>2
        <5>2. fio'[i].to < at /\ fio'[i].to \in Nat
          BY <1>5, <2>3, <5>1
        <5>3. fio'[j].from = c
          BY <2>1, <2>3, <4>2
        <5> QED  BY <1>2, <1>3, <5>2, <5>3
      <4> QED  BY <2>3, <4>1, <4>2
    <3>2. \A i \in DOMAIN fio' : fio'[i].to < at'
      <4>1. at' = at + n /\ at \in Nat /\ x.to = at + n - 1
        BY <1>1, <1>2, <2>1
      <4>2. \A i \in DOMAIN fio : fio'[i].to < at /\ fio'[i].to \in Nat
        BY <1>5, <2>3
      <4> QED  BY <2>3, <4>1, <4>2
    <3> QED  BY <1>1, <1>2, <3>1, <3>2 DEF SpansInOrder
  <2> QED  BY <1>1, <1>2, <2>4, <2>5, <2>6
              DEF NamesInv, Started, Tried, MorphOK, NoNameSkipped
<1> QED  BY <1>1, <1>6, <1>7

\* The steps of findFIO that find nothing, and the change to findFIOMorph.
LEMMA CapitalsKeep ==
  ASSUME NamesInv, NoChunk \/ EndCapitals
  PROVE  NamesInv'
<1>1. /\ phase = "capitals" /\ UNCHANGED <<text, width, fio, morph>>
      /\ width = 3 /\ morph = << >> /\ at \in Nat \ {0}
  BY DEF NoChunk, EndCapitals, NamesInv, NamesTypeOK, Started
<1>2. Size' = Size
  BY <1>1 DEF Size
<1>3. \/ phase' = "capitals" /\ at' = at + 1
      \/ phase' = "morph" /\ at' = 1
  BY DEF NoChunk, EndCapitals
<1>4. fio \in Seq(SpanSet) /\ text \in Texts
  BY DEF NamesInv, NamesTypeOK, SpanSet
<1>5. \A j \in DOMAIN fio : fio[j].to \in Nat /\ fio[j].to < at
  BY <1>1, <1>4, Elements DEF NamesInv, SpansInOrder
<1>6. NamesTypeOK'
  BY <1>1, <1>2, <1>3 DEF NamesInv, NamesTypeOK
<1>7. SpansInOrder'
  BY <1>1, <1>3, <1>5 DEF NamesInv, SpansInOrder
<1>8. Started' /\ Tried' /\ MorphOK' /\ FioOK'
  BY <1>1, <1>3 DEF NamesInv, Started, Tried, MorphOK, FioOK
<1>9. NoNameSkipped'
  BY <1>1, <1>2, <1>3 DEF NoNameSkipped
<1> QED  BY <1>6, <1>7, <1>8, <1>9 DEF NamesInv

\* A window is taken (findFIOMorph).
LEMMA AcceptKeeps == NamesInv /\ Accept => NamesInv'
<1> SUFFICES ASSUME NamesInv, Accept PROVE NamesInv'
  OBVIOUS
<1> DEFINE x == [from |-> at, to |-> at + width - 1]
<1>1. /\ phase = "morph" /\ phase' = "morph" /\ at' = at + width /\ width' = 3
      /\ width > 0 /\ Acceptable(text, at, width) /\ morph' = Append(morph, x)
      /\ UNCHANGED <<text, fio>>
  BY DEF Accept
<1>2. /\ text \in Texts /\ at \in Nat \ {0} /\ width \in 1..3
      /\ morph \in Seq(SpanSet) /\ Size \in Nat
  BY <1>1 DEF NamesInv, NamesTypeOK, SpanSet, Size
<1>3. Size' = Size
  BY <1>1 DEF Size
<1>4. at \in 1..Size /\ at + width - 1 \in 1..Size
  BY <1>1, <1>2, WindowIn DEF Size
<1>5. x \in SpanSet /\ x.from = at /\ x.to = at + width - 1
  BY <1>4 DEF SpanSet
<1> HIDE DEF x
<1>6. /\ morph' \in Seq(SpanSet)
      /\ Len(morph) \in Nat /\ DOMAIN morph = 1..Len(morph)
      /\ DOMAIN morph' = 1..(Len(morph) + 1)
      /\ \A j \in DOMAIN morph : morph[j] \in SpanSet /\ morph'[j] = morph[j]
      /\ morph'[Len(morph) + 1] = x
  BY <1>1, <1>2, <1>5, Appended
<1>7. NamesTypeOK'
  BY <1>1, <1>2, <1>3, <1>6 DEF NamesInv, NamesTypeOK, SpanSet
<1>8. Started' /\ FioOK'
  BY <1>1 DEF NamesInv, Started, FioOK
<1>9. Tried'
  BY <1>1 DEF Tried
<1>10. MorphOK'
  <2>1. Widest(text, x)
    BY <1>1, <1>2, <1>5 DEF NamesInv, Tried, Widest
  <2> SUFFICES ASSUME NEW j \in DOMAIN morph' PROVE Widest(text, morph'[j])
    BY <1>1 DEF MorphOK
  <2> QED  BY <1>6, <2>1 DEF NamesInv, MorphOK
<1>11. SpansInOrder'
  <2>1. /\ \A j \in DOMAIN morph : morph[j].from <= morph[j].to
                                     /\ morph[j].to < at
                                     /\ morph[j].from \in Nat /\ morph[j].to \in Nat
        /\ \A i, j \in DOMAIN morph : i < j => morph[i].to < morph[j].from
        /\ \A i, j \in DOMAIN fio : i < j => fio[i].to < fio[j].from
    BY <1>2, Elements DEF NamesInv, SpansInOrder
  <2>2. ASSUME NEW i \in DOMAIN morph', NEW j \in DOMAIN morph', i < j
        PROVE  morph'[i].to < morph'[j].from
    <3>1. i \in DOMAIN morph /\ (j \in DOMAIN morph \/ j = Len(morph) + 1)
      BY <1>6, <2>2
    <3>2. CASE j \in DOMAIN morph
      BY <1>6, <2>1, <2>2, <3>1, <3>2
    <3>3. CASE j = Len(morph) + 1
      <4>1. morph'[i].to < at /\ morph'[j].from = at
        BY <1>5, <1>6, <2>1, <3>1, <3>3
      <4> QED  BY <4>1
    <3> QED  BY <3>1, <3>2, <3>3
  <2>3. ASSUME NEW j \in DOMAIN morph'
        PROVE  morph'[j].from <= morph'[j].to /\ morph'[j].to < at'
    <3>1. CASE j \in DOMAIN morph
      <4>1. morph'[j] = morph[j]
        BY <1>6, <3>1
      <4> QED  BY <1>1, <1>2, <2>1, <3>1, <4>1
    <3>2. CASE j = Len(morph) + 1
      <4>1. morph'[j].from = at /\ morph'[j].to = at + width - 1
        BY <1>5, <1>6, <3>2
      <4> QED  BY <1>1, <1>2, <4>1
    <3> QED  BY <1>6, <2>3, <3>1, <3>2
  <2> QED  BY <1>1, <2>1, <2>2, <2>3 DEF SpansInOrder
<1>12. NoNameSkipped'
  <2> SUFFICES ASSUME NEW i \in 1..Size, i < at', NEW w \in 1..3,
                      Acceptable(text, i, w)
               PROVE  In(i, morph')
    BY <1>1, <1>3 DEF NoNameSkipped
  <2>1. CASE i < at
    BY <1>1, <1>2, <1>5, <2>1, InAppend DEF NamesInv, NoNameSkipped
  <2>2. CASE i >= at
    <3>1. i \in x.from..x.to
      BY <1>1, <1>2, <1>5, <2>2
    <3> QED  BY <1>1, <1>2, <1>5, <3>1, InAppend
  <2> QED  BY <1>2, <2>1, <2>2
<1> QED  BY <1>7, <1>8, <1>9, <1>10, <1>11, <1>12 DEF NamesInv

\* A window is refused; a narrower one is tried, or the next word.
LEMMA RefuseKeeps == NamesInv /\ (Narrow \/ Skip \/ EndMorph) => NamesInv'
<1> SUFFICES ASSUME NamesInv, Narrow \/ Skip \/ EndMorph PROVE NamesInv'
  OBVIOUS
<1>1. phase = "morph" /\ UNCHANGED <<text, fio, morph>>
  BY DEF Narrow, Skip, EndMorph
<1>2. /\ text \in Texts /\ at \in Nat \ {0} /\ width \in 0..3
      /\ morph \in Seq(SpanSet) /\ Size \in Nat
  BY DEF NamesInv, NamesTypeOK, SpanSet, Size
<1>3. Size' = Size
  BY <1>1 DEF Size
<1>4. \/ /\ phase' = "morph" /\ at' = at /\ width' = width - 1
         /\ width > 0 /\ ~Acceptable(text, at, width)
      \/ phase' = "morph" /\ at' = at + 1 /\ width' = 3 /\ width = 0
      \/ phase' = "named" /\ at' = at /\ width' = width /\ at > Size
  BY DEF Narrow, Skip, EndMorph
<1>5. NamesTypeOK'
  BY <1>1, <1>2, <1>3, <1>4 DEF NamesInv, NamesTypeOK
<1>6. Started' /\ MorphOK' /\ FioOK'
  BY <1>1, <1>3, <1>4 DEF NamesInv, Started, MorphOK, FioOK
<1>7. Tried'
  BY <1>1, <1>2, <1>4 DEF NamesInv, Tried
<1>8. SpansInOrder'
  <2>1. \A j \in DOMAIN morph : morph[j].to \in Nat /\ morph[j].to < at
                                  /\ morph[j].from <= morph[j].to
    BY <1>2, Elements DEF NamesInv, SpansInOrder
  <2> QED  BY <1>1, <1>2, <1>4, <2>1 DEF NamesInv, SpansInOrder
<1>9. NoNameSkipped'
  <2> SUFFICES ASSUME NEW i \in 1..Size, i < at', NEW w \in 1..3,
                      Acceptable(text, i, w)
               PROVE  In(i, morph)
    BY <1>1, <1>3 DEF NoNameSkipped
  <2>1. i < at
    <3>1. CASE i = at
      BY <1>1, <1>2, <1>4, <3>1 DEF NamesInv, Tried
    <3> QED  BY <1>2, <1>4, <3>1
  <2> QED  BY <1>1, <2>1 DEF NamesInv, NoNameSkipped
<1> QED  BY <1>5, <1>6, <1>7, <1>8, <1>9 DEF NamesInv

----------------------------------------------------------------------------
(* The theorems.                                                           *)

\* The invariant holds in every state of both searches, for every text.
THEOREM NamesInvariance == NamesSpec => []NamesInv
<1>1. NamesInit => NamesInv
  BY NamesInvInit
<1>2. NamesInv /\ [NamesNext]_namesVars => NamesInv'
  <2>1. ASSUME NamesInv, UNCHANGED namesVars
        PROVE  NamesInv'
    BY <2>1 DEF NamesInv, NamesTypeOK, Started, Tried, MorphOK, FioOK,
                SpansInOrder, NoNameSkipped, namesVars, Size, In
  <2> QED  BY <2>1, ChunkKeeps, CapitalsKeep, AcceptKeeps, RefuseKeeps
              DEF NamesNext
<1> QED  BY <1>1, <1>2, PTL DEF NamesSpec

\* The spans of a search come in order and do not overlap (findFIO,
\* findFIOMorph: i += w).
THEOREM SpansOrdered == NamesSpec => []SpansInOrder
<1>1. NamesInv => SpansInOrder
  BY DEF NamesInv
<1> QED  BY <1>1, NamesInvariance, PTL

\* Every word at which an acceptable window starts is masked (findFIOMorph).
THEOREM NamesNotSkipped == NamesSpec => []NoNameSkipped
<1>1. NamesInv => NoNameSkipped
  BY DEF NamesInv
<1> QED  BY <1>1, NamesInvariance, PTL

\* No word of the stop list is ever masked as a name (coreIsFalse and
\* morphIsFalse on every way to a span).
THEOREM StopWordsAreKept == NamesSpec => []StopWordsKept
<1>1. NamesInv => StopWordsKept
  <2> SUFFICES ASSUME NamesInv, NEW k \in 1..Size, Covered(k)
               PROVE  text.words[k] \notin Stop
    BY DEF StopWordsKept
  <2>1. CASE In(k, fio)
    <3>1. PICK j \in DOMAIN fio : k \in fio[j].from..fio[j].to
      BY <2>1 DEF In
    <3> DEFINE n == fio[j].to - fio[j].from + 1
    <3>2. fio[j].from \in Nat /\ fio[j].to \in Nat
      BY ChunkEnds
    <3>3. n \in Nat /\ ~CoreIsFalse(Slice(text, fio[j].from, n))
      BY <3>2 DEF NamesInv, FioOK, ChunkOK
    <3>4. k \in fio[j].from..(fio[j].from + n - 1)
      BY <3>1, <3>2
    <3> HIDE DEF n
    <3> QED  BY <3>2, <3>3, <3>4, NotFalse
  <2>2. CASE In(k, morph)
    <3>1. PICK j \in DOMAIN morph : k \in morph[j].from..morph[j].to
      BY <2>2 DEF In
    <3> DEFINE n == morph[j].to - morph[j].from + 1
    <3>2. Widest(text, morph[j])
      BY DEF NamesInv, MorphOK
    <3>3. morph[j].from \in Nat /\ morph[j].to \in Nat
      BY SpanEnds
    <3>4. n \in 1..3 /\ Acceptable(text, morph[j].from, n)
      BY <3>2 DEF Widest
    <3>5. k \in morph[j].from..(morph[j].from + n - 1)
      BY <3>1, <3>3
    <3> HIDE DEF n
    <3>6. n \in Nat /\ ~MorphIsFalse(Slice(text, morph[j].from, n))
      BY <3>4 DEF Acceptable
    <3> QED  BY <3>3, <3>5, <3>6, NotFalse
  <2> QED  BY <2>1, <2>2 DEF Covered
<1> QED  BY <1>1, NamesInvariance, PTL

\* A word that is no name is masked by findFIOMorph only between two that are,
\* and only if no list of ordinary words has it (classifyName, disqualified).
THEOREM OrdinaryWordsAreKept == NamesSpec => []OrdinaryWordsKept
<1>1. NamesInv => OrdinaryWordsKept
  <2> SUFFICES ASSUME NamesInv, NEW k \in 1..Size, In(k, morph),
                      ~NameLike(text.words[k]), text.words[k] \notin Patronymic
               PROVE  /\ \E j \in DOMAIN morph :
                           morph[j] = [from |-> k - 1, to |-> k + 1]
                      /\ NameLike(text.words[k - 1])
                      /\ NameLike(text.words[k + 1])
                      /\ ~Disqualified(text.words[k])
    BY DEF OrdinaryWordsKept
  <2>1. PICK j \in DOMAIN morph : k \in morph[j].from..morph[j].to
    BY DEF In
  <2> DEFINE i == morph[j].from
             n == morph[j].to - i + 1
  <2>2. /\ morph[j] \in SpanSet
        /\ i \in Nat /\ morph[j].to \in Nat
    <3>1. morph \in Seq(SpanSet)
      BY DEF NamesInv, NamesTypeOK, SpanSet
    <3>2. morph[j] \in SpanSet
      BY <3>1, Elements
    <3> QED  BY <3>2, SpanEnds
  <2>3. n \in 1..3 /\ Named(text, i, n)
    BY DEF NamesInv, MorphOK, Widest, Acceptable
  <2>4. k \in i..(i + n - 1) /\ i + n - 1 = morph[j].to
    BY <2>1, <2>2
  <2>5. morph[j] = [from |-> i, to |-> i + n - 1]
    BY <2>2, <2>4 DEF SpanSet
  <2> HIDE DEF i, n
  <2>6. n # 1 /\ ~AllNames(text, i, n)
    BY <2>2, <2>3, <2>4 DEF Named, AllNames
  <2>7. Bridge(text, i, n)
    BY <2>3, <2>6 DEF Named
  <2>8. n = 3 /\ k = i + 1
    BY <2>2, <2>4, <2>7 DEF Bridge
  <2>9. i = k - 1 /\ i + n - 1 = k + 1 /\ i + 2 = k + 1
    BY <2>2, <2>8
  <2> QED  BY <2>5, <2>7, <2>8, <2>9 DEF Bridge
<1> QED  BY <1>1, NamesInvariance, PTL

\* A name on its own is masked from its first word to its last
\* (findFIOMorph tries the wide windows first).
THEOREM FullNamesMasked == NamesSpec => []FullNameMasked
<1>1. NamesInv => FullNameMasked
  <2> SUFFICES ASSUME NamesInv, phase = "named", NEW i \in 1..Size, NEW w \in 1..3,
                      Alone(text, i, w), Acceptable(text, i, w),
                      NEW k \in i..(i + w - 1)
               PROVE  In(k, morph)
    BY DEF FullNameMasked
  <2>1. In(i, morph)
    BY DEF NamesInv, Started, NoNameSkipped, NamesTypeOK, Size
  <2>2. PICK j \in DOMAIN morph : i \in morph[j].from..morph[j].to
    BY <2>1 DEF In
  <2> DEFINE f == morph[j].from
             n == morph[j].to - f + 1
  <2>3. f \in Nat \ {0} /\ morph[j].to \in Nat
    BY SpanEnds
  <2>4. /\ n \in 1..3 /\ Acceptable(text, f, n)
        /\ \A v \in 1..3 : v > n => ~Acceptable(text, f, v)
    BY DEF NamesInv, MorphOK, Widest
  <2>5. f + n - 1 = morph[j].to
    BY <2>3
  <2>6. \A m \in f..(f + n - 2) : text.gaps[m] \in {"near", "hyphen"}
    BY <2>4 DEF Acceptable, Window
  <2>7. f = i
    <3>1. CASE f < i
      <4>1. i > 1 /\ i - 1 \in f..(f + n - 2)
        BY <2>2, <2>3, <2>5, <3>1, SMTT(20)
      <4> QED  BY <2>6, <4>1 DEF Alone
    <3> QED  BY <2>2, <2>3, <3>1
  <2>8. w <= n
    BY <2>4, <2>7
  <2>9. k \in f..morph[j].to
    BY <2>3, <2>4, <2>5, <2>7, <2>8
  <2> QED  BY <2>9 DEF In
<1> QED  BY <1>1, NamesInvariance, PTL

\* A role word in front of a name is not masked by findFIO, which cuts it off;
\* findFIOMorph masks none that is built neither like a surname nor like a
\* patronymic.
THEOREM RolesAreKept == NamesSpec => []RoleKept
<1>1. NamesInv => RoleKept
  <2> SUFFICES ASSUME NamesInv, NEW k \in 1..Size, text.words[k] \in Role
               PROVE  /\ (k > 1 => text.gaps[k - 1] \notin {"near", "wide"})
                           => ~In(k, fio)
                      /\ ~NameLike(text.words[k]) /\ text.words[k] \notin Patronymic
                           => ~In(k, morph)
    BY DEF RoleKept
  <2>1. ASSUME k > 1 => text.gaps[k - 1] \notin {"near", "wide"}
        PROVE  ~In(k, fio)
    <3> SUFFICES ASSUME NEW j \in DOMAIN fio, k \in fio[j].from..fio[j].to
                 PROVE  FALSE
      BY DEF In
    <3>1. fio[j].from \in Nat \ {0} /\ fio[j].to \in Nat
      BY ChunkEnds
    <3>2. /\ text.words[fio[j].from] \notin Role
          /\ \A m \in fio[j].from..(fio[j].to - 1) : text.gaps[m] \in {"near", "wide"}
      BY DEF NamesInv, FioOK, ChunkOK
    <3>3. k # fio[j].from
      BY <3>2
    <3>4. k > 1 /\ k - 1 \in fio[j].from..(fio[j].to - 1)
      BY <3>1, <3>3
    <3> QED  BY <2>1, <3>2, <3>4
  <2>2. ASSUME ~NameLike(text.words[k]), text.words[k] \notin Patronymic
        PROVE  ~In(k, morph)
    <3> SUFFICES ASSUME NEW j \in DOMAIN morph, k \in morph[j].from..morph[j].to
                 PROVE  FALSE
      BY DEF In
    <3> DEFINE i == morph[j].from
               n == morph[j].to - i + 1
    <3>1. i \in Nat /\ morph[j].to \in Nat
      BY SpanEnds
    <3>2. n \in 1..3 /\ Named(text, i, n)
      BY DEF NamesInv, MorphOK, Widest, Acceptable
    <3>3. k \in i..(i + n - 1)
      BY <3>1
    <3> HIDE DEF i, n
    <3> QED  BY <2>2, <3>1, <3>2, <3>3, SMTT(20) DEF Named, AllNames, Bridge, Disqualified
  <2> QED  BY <2>1, <2>2
<1> QED  BY <1>1, NamesInvariance, PTL

\* A run of words with joins inside and none at the ends of the pair i, i + 1
\* that meets the pair is part of it.
LEMMA WithinPair ==
  ASSUME NEW t, NEW i \in Nat \ {0}, NEW f \in Nat \ {0}, NEW e \in Nat,
         NEW J, J \cap {"apart", "dot"} = {},
         e <= Len(t.words), Len(t.words) \in Nat,
         \A k \in f..(e - 1) : t.gaps[k] \in J,
         FamousAlone(t, i, 2),
         \E k \in {i, i + 1} : k \in f..e
  PROVE  i <= f /\ e <= i + 1
<1>1. \A k \in {i - 1, i + 1} :
        k \in 1..(Len(t.words) - 1) => t.gaps[k] \in {"apart", "dot"}
  BY DEF FamousAlone
<1>2. CASE f < i
  <2>1. i - 1 \in f..(e - 1) /\ i - 1 \in 1..(Len(t.words) - 1)
    BY <1>2
  <2> QED  BY <1>1, <2>1
<1>3. CASE e > i + 1
  <2>1. i + 1 \in f..(e - 1) /\ i + 1 \in 1..(Len(t.words) - 1)
    BY <1>3
  <2> QED  BY <1>1, <2>1
<1> QED  BY <1>2, <1>3

\* A famous pair is an exception in either order (coreIsFalse, morphIsFalse).
LEMMA PairIsFalse ==
  ASSUME NEW t, NEW i \in Nat, FamousAlone(t, i, 2)
  PROVE  CoreIsFalse(Slice(t, i, 2)) /\ MorphIsFalse(Slice(t, i, 2))
<1> DEFINE s == Slice(t, i, 2)
<1>1. s \in Famous \/ <<t.words[i + 1], t.words[i]>> \in Famous
  BY DEF FamousAlone
<1>2. s = <<t.words[i], t.words[i + 1]>>
  BY DEF Slice
<1>3. Len(s) = 2 /\ s[1] = t.words[i] /\ s[2] = t.words[i + 1]
  BY <1>2
<1>4. {<<s[1], s[2]>>, <<s[2], s[1]>>} \cap Famous # {}
  BY <1>1, <1>2, <1>3
<1> HIDE DEF s
<1>5. CoreIsFalse(s) /\ MorphIsFalse(s)
  BY <1>3, <1>4 DEF CoreIsFalse, MorphIsFalse
<1> QED  BY <1>5 DEF s

\* A famous person's name of two words stays (coreIsFalse, morphIsFalse).
THEOREM FamousPairsAreKept == NamesSpec => []FamousPairKept
<1>1. NamesInv => FamousPairKept
  <2> SUFFICES ASSUME NamesInv, NEW i \in 1..Size, FamousAlone(text, i, 2),
                      text.words[i] \notin Patronymic,
                      text.words[i + 1] \notin Patronymic,
                      NEW k, k \in {i, i + 1}
               PROVE  ~Covered(k)
    BY DEF FamousPairKept
  <2>1. /\ i \in Nat \ {0}
        /\ CoreIsFalse(Slice(text, i, 2)) /\ MorphIsFalse(Slice(text, i, 2))
        /\ Len(text.words) \in Nat
    BY PairIsFalse DEF NamesInv, NamesTypeOK, Size
  <2>2. ~In(k, fio)
    <3> SUFFICES ASSUME NEW j \in DOMAIN fio, k \in fio[j].from..fio[j].to
                 PROVE  FALSE
      BY DEF In
    <3> DEFINE f == fio[j].from
               e == fio[j].to
    <3>1. f \in Nat \ {0} /\ e \in Nat /\ e <= Len(text.words)
      BY ChunkEnds DEF Size
    <3>2. /\ e - f + 1 >= 2 /\ ~CoreIsFalse(Slice(text, f, e - f + 1))
          /\ \A m \in f..(e - 1) : text.gaps[m] \in {"near", "wide"}
      BY DEF NamesInv, FioOK, ChunkOK
    <3> HIDE DEF f, e
    <3>3. {"near", "wide"} \cap {"apart", "dot"} = {}
      OBVIOUS
    <3>4. k \in f..e
      BY DEF f, e
    <3>5. i <= f /\ e <= i + 1
      <4> DEFINE J == {"near", "wide"}
      <4>1. \A m \in f..(e - 1) : text.gaps[m] \in J
        BY <3>2
      <4>2. J \cap {"apart", "dot"} = {}
        BY <3>3
      <4> HIDE DEF J
      <4> QED  BY <2>1, <3>1, <3>4, <4>1, <4>2, WithinPair
    <3>6. f = i /\ e - f + 1 = 2
      BY <2>1, <3>1, <3>2, <3>5
    <3> QED  BY <2>1, <3>2, <3>6
  <2>3. ~In(k, morph)
    <3> SUFFICES ASSUME NEW j \in DOMAIN morph, k \in morph[j].from..morph[j].to
                 PROVE  FALSE
      BY DEF In
    <3> DEFINE f == morph[j].from
               e == morph[j].to
               n == e - f + 1
    <3>1. f \in Nat \ {0} /\ e \in Nat /\ e <= Len(text.words)
      BY SpanEnds DEF Size
    <3>2. n \in 1..3 /\ Acceptable(text, f, n)
      BY DEF NamesInv, MorphOK, Widest
    <3>3. {"near", "hyphen"} \cap {"apart", "dot"} = {}
      OBVIOUS
    <3>4. k \in f..e
      OBVIOUS
    <3> HIDE DEF f, e
    <3>5. \A m \in f..(e - 1) : text.gaps[m] \in {"near", "hyphen"}
      BY <3>1, <3>2 DEF Acceptable, Window
    <3>6. i <= f /\ e <= i + 1
      <4> DEFINE J == {"near", "hyphen"}
      <4>1. \A m \in f..(e - 1) : text.gaps[m] \in J
        BY <3>5
      <4>2. J \cap {"apart", "dot"} = {}
        BY <3>3
      <4> HIDE DEF J
      <4> QED  BY <2>1, <3>1, <3>4, <4>1, <4>2, WithinPair
    <3>7. (n = 2 /\ f = i) \/ (n = 1 /\ f \in {i, i + 1})
      BY <2>1, <3>1, <3>2, <3>6
    <3> HIDE DEF n
    <3> QED  BY <2>1, <3>2, <3>7 DEF Acceptable, Named
  <2> QED  BY <2>2, <2>3 DEF Covered
<1> QED  BY <1>1, NamesInvariance, PTL
=============================================================================
