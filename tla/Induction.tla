----------------------------- MODULE Induction -----------------------------
(***************************************************************************)
(* Induction and recursion over the natural numbers, with sets and         *)
(* functions where the library's theorems take operators, and what two     *)
(* sequences show that are joined.                                         *)
(***************************************************************************)
EXTENDS Naturals, Sequences, WellFoundedInduction, TLAPS

\* Every nonempty set of naturals has a least element.
LEMMA Least ==
  ASSUME NEW T \in SUBSET Nat, T # {}
  PROVE  \E n \in T : \A m \in T : n <= m
<1> DEFINE Less == {ss \in Nat \X Nat : ss[1] < ss[2]}
<1>1. IsWellFoundedOn(Less, Nat)
  BY NatLessThanWellFounded DEF OpToRel
<1>2. PICK n \in T : \A m \in T : ~(<<m, n>> \in Less)
  <2> HIDE DEF Less
  <2> QED  BY <1>1, WFMin
<1>3. ASSUME NEW m \in T
      PROVE  n <= m
  <2>1. <<m, n>> \in Nat \X Nat /\ ~(<<m, n>> \in Less)
    BY <1>2
  <2>2. ~(m < n)
    BY <2>1
  <2> QED  BY <2>2
<1> QED  BY <1>3

\* A set that holds 0 and the successor of each of its members holds every
\* natural number.
LEMMA SetInduction ==
  ASSUME NEW T \in SUBSET Nat, 0 \in T, \A n \in T : n + 1 \in T
  PROVE  T = Nat
<1>1. SUFFICES ASSUME Nat \ T # {}
               PROVE  FALSE
  OBVIOUS
<1>2. PICK n \in Nat \ T : \A m \in Nat \ T : n <= m
  BY <1>1, Least
<1>3. n # 0 /\ n - 1 \in Nat
  BY <1>2
<1>4. n - 1 \in T
  BY <1>2, <1>3
<1> QED  BY <1>2, <1>3, <1>4

\* The function g on 0..N starts with a and goes on by step.
Recurs(g, N, V, a, step) ==
  /\ g \in [0..N -> V]
  /\ g[0] = a
  /\ \A n \in 1..N : g[n] = step[<<n, g[n - 1]>>]

\* A function is defined by its value at 0 and a step.
LEMMA Recursion ==
  ASSUME NEW N \in Nat, NEW V, NEW a \in V, NEW step \in [(1..N) \X V -> V]
  PROVE  \E g : Recurs(g, N, V, a, step)
<1> DEFINE Good(n, g) == /\ g \in [0..N -> V]
                         /\ g[0] = a
                         /\ \A k \in 1..N : k <= n => g[k] = step[<<k, g[k - 1]>>]
           T == {n \in Nat : n <= N => \E g \in [0..N -> V] : Good(n, g)}
<1>1. 0 \in T
  <2>1. Good(0, [k \in 0..N |-> a])
    OBVIOUS
  <2> QED  BY <2>1
<1>2. ASSUME NEW n \in T
      PROVE  n + 1 \in T
  <2>1. SUFFICES ASSUME n + 1 <= N
                 PROVE  \E g \in [0..N -> V] : Good(n + 1, g)
    OBVIOUS
  <2>2. PICK g \in [0..N -> V] : Good(n, g)
    BY <2>1
  <2>3. n + 1 \in 1..N /\ n \in 0..N /\ g[n] \in V
    BY <2>1
  <2>4. <<n + 1, g[n]>> \in (1..N) \X V
    BY <2>3
  <2> DEFINE h == [g EXCEPT ![n + 1] = step[<<n + 1, g[n]>>]]
  <2>5. h \in [0..N -> V] /\ h[n + 1] = step[<<n + 1, g[n]>>]
    BY <2>3, <2>4
  <2>6. \A k \in 0..N : k # n + 1 => h[k] = g[k]
    BY <2>3
  <2>7. h[0] = a
    BY <2>2, <2>6
  <2>8. ASSUME NEW k \in 1..N, k <= n + 1
        PROVE  h[k] = step[<<k, h[k - 1]>>]
    <3>1. k - 1 \in 0..N /\ k - 1 # n + 1 /\ h[k - 1] = g[k - 1]
      BY <2>6, <2>8
    <3>2. CASE k = n + 1
      <4>1. k - 1 = n
        BY <3>2
      <4> HIDE DEF h
      <4> QED  BY <2>5, <3>1, <3>2, <4>1
    <3>3. CASE k # n + 1
      <4>1. k <= n /\ k \in 0..N
        BY <2>8, <3>3
      <4>2. g[k] = step[<<k, g[k - 1]>>]
        BY <2>2, <4>1
      <4> HIDE DEF h
      <4> QED  BY <2>6, <3>1, <3>3, <4>1, <4>2
    <3> QED  BY <3>2, <3>3
  <2>9. Good(n + 1, h)
    <3> HIDE DEF h
    <3> QED  BY <2>5, <2>7, <2>8
  <2> QED  BY <2>5, <2>9
<1>3. T = Nat
  <2>1. T \in SUBSET Nat
    OBVIOUS
  <2> HIDE DEF T
  <2> QED  BY <1>1, <1>2, <2>1, SetInduction
<1>4. N \in T
  <2> HIDE DEF T
  <2> QED  BY <1>3
<1>5. PICK g \in [0..N -> V] : Good(N, g)
  BY <1>4
<1> QED  BY <1>5 DEF Recurs

\* A function that obeys the equations of a recursion is the recursion's.
LEMMA Recursive ==
  ASSUME NEW N \in Nat, NEW V, NEW a \in V, NEW step \in [(1..N) \X V -> V],
         NEW f, DOMAIN f = 0..N, f = [n \in 0..N |-> f[n]], f[0] = a,
         \A n \in 1..N : f[n - 1] \in V => f[n] = step[<<n, f[n - 1]>>]
  PROVE  Recurs(f, N, V, a, step)
<1> DEFINE T == {n \in Nat : n <= N => f[n] \in V}
<1>1. 0 \in T
  OBVIOUS
<1>2. ASSUME NEW n \in T
      PROVE  n + 1 \in T
  <2>1. SUFFICES ASSUME n + 1 <= N
                 PROVE  f[n + 1] \in V
    OBVIOUS
  <2>2. n + 1 \in 1..N /\ (n + 1) - 1 = n /\ f[n] \in V
    BY <2>1
  <2>3. <<n + 1, f[n]>> \in (1..N) \X V
    BY <2>2
  <2> QED  BY <2>2, <2>3
<1>3. T = Nat
  <2>1. T \in SUBSET Nat
    OBVIOUS
  <2> HIDE DEF T
  <2> QED  BY <1>1, <1>2, <2>1, SetInduction
<1>4. \A n \in 0..N : f[n] \in V
  <2>1. \A n \in 0..N : n \in T
    <3> HIDE DEF T
    <3> QED  BY <1>3
  <2> QED  BY <2>1
<1>5. \A n \in 1..N : f[n] = step[<<n, f[n - 1]>>]
  <2>1. \A n \in 1..N : n - 1 \in 0..N
    OBVIOUS
  <2> QED  BY <1>4, <2>1
<1> QED  BY <1>4, <1>5 DEF Recurs

----------------------------------------------------------------------------
\* One sequence after another.
Join(a, b) == a \o b

\* What it shows at each place.
LEMMA Joined ==
  ASSUME NEW V, NEW a \in Seq(V), NEW b \in Seq(V)
  PROVE  /\ Join(a, b) \in Seq(V) /\ Len(Join(a, b)) = Len(a) + Len(b)
         /\ \A k \in 1..Len(a) : Join(a, b)[k] = a[k]
         /\ \A k \in 1..Len(b) : Join(a, b)[Len(a) + k] = b[k]
BY DEF Join
=============================================================================
