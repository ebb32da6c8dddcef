--------------------------- MODULE MaskingProofs ---------------------------
(***************************************************************************)
(* Demask restores a text character by character if its replacements are   *)
(* spelled nowhere else (Spelling).                                        *)
(*                                                                         *)
(* What the masking strategies guarantee for every text and every rule: no *)
(* two detected words get the same replacement, and a text that contains   *)
(* none of its own replacements comes back word for word, whatever part of *)
(* its mask returns and whatever the detectors see in texts (RoundTrips):  *)
(* nothing is assumed of the constant Sees.                                *)
(***************************************************************************)
EXTENDS RoundTrips, Spelling, Induction, FiniteSetTheorems

----------------------------------------------------------------------------
(* Demask on characters: the parts of a text.                              *)

\* N parts of a text.
Parts(part, N, V) == N \in Nat /\ part \in [1..N -> Seq(V)]

\* The parts of a text put together, one after another.
Together(g, N, V, part) ==
  /\ g \in [0..N -> Seq(V)]
  /\ g[0] = << >>
  /\ \A i \in 1..N : g[i] = Join(g[i - 1], part[i])

\* They can be, and FlattenSeq of the first m of them is what m steps give.
LEMMA FlatEquation ==
  ASSUME NEW N, NEW V, NEW part, Parts(part, N, V)
  PROVE  \E g : /\ Together(g, N, V, part)
                /\ \A m \in 0..N : FlattenSeq([j \in 1..m |-> part[j]]) = g[m]
<1> N \in Nat /\ part \in [1..N -> Seq(V)]
  BY DEF Parts
<1> DEFINE S == Seq(V)
           a == << >>
           add == [x \in (1..N) \X S |-> Join(x[2], part[x[1]])]
<1>1. a \in S
  OBVIOUS
<1>2. add \in [(1..N) \X S -> S]
  <2>1. ASSUME NEW x \in (1..N) \X S
        PROVE  Join(x[2], part[x[1]]) \in S
    BY Joined
  <2> QED  BY <2>1
<1>3. PICK g : Recurs(g, N, S, a, add)
  <2> HIDE DEF S, a, add
  <2> QED  BY <1>1, <1>2, Recursion
<1>4. Together(g, N, V, part)
  <2>1. ASSUME NEW i \in 1..N
        PROVE  g[i] = Join(g[i - 1], part[i])
    <3>1. g[i] = add[<<i, g[i - 1]>>]
      BY <1>3 DEF Recurs
    <3>2. <<i, g[i - 1]>> \in (1..N) \X S
      <4>1. i - 1 \in 0..N
        OBVIOUS
      <4> QED  BY <1>3, <4>1 DEF Recurs
    <3> QED  BY <3>1, <3>2
  <2> QED  BY <1>3, <2>1 DEF Recurs, Together
<1> HIDE DEF S, a, add
<1>5. ASSUME NEW m \in 0..N
      PROVE  FlattenSeq([j \in 1..m |-> part[j]]) = g[m]
  <2> DEFINE q == [j \in 1..m |-> part[j]]
  <2>1. q \in Seq(Seq(V)) /\ Len(q) = m /\ \A j \in 1..m : q[j] = part[j]
    OBVIOUS
  <2> HIDE DEF q
  <2>2. CASE m = 0
    <3>1. q = << >>
      BY <2>1, <2>2
    <3> QED  BY <1>4, <2>1, <2>2, <3>1 DEF FlattenSeq, Together, q
  <2>3. CASE m # 0
    <3> DEFINE Flat(f) == f = [i \in 1..m |-> IF i = 1 THEN q[i] ELSE f[i-1] \o q[i]]
               h == [i \in 1..m |-> g[i]]
               f == CHOOSE f : Flat(f)
    <3>1. Flat(h)
      <4>1. ASSUME NEW i \in 1..m
            PROVE  h[i] = IF i = 1 THEN q[i] ELSE h[i-1] \o q[i]
        <5>1. h[i] = g[i] /\ g[i] = Join(g[i - 1], q[i])
          BY <1>4, <2>1 DEF Together
        <5>2. CASE i = 1
          <6>1. g[i - 1] = << >>
            BY <1>4, <5>2 DEF Together
          <6>2. q[i] \in Seq(V)
            BY <2>1
          <6> HIDE DEF h
          <6>3. Join(<< >>, q[i]) = q[i]
            BY <6>2 DEF Join
          <6> QED  BY <5>1, <5>2, <6>1, <6>3
        <5>3. CASE i # 1
          <6>1. i - 1 \in 1..m
            BY <5>3
          <6>2. h[i - 1] = g[i - 1]
            BY <6>1
          <6> HIDE DEF h
          <6> QED  BY <5>1, <5>3, <6>2 DEF Join
        <5> QED  BY <5>2, <5>3
      <4>2. h = [i \in 1..m |-> h[i]]
        OBVIOUS
      <4> HIDE DEF h
      <4> QED  BY <4>1, <4>2
    <3>2. Flat(f)
      <4> HIDE DEF h, Flat
      <4> QED  BY <3>1
    <3>3. FlattenSeq(q) = f[m]
      BY <2>1, <2>3 DEF FlattenSeq
    <3> HIDE DEF f
    <3>4. \A i \in 1..m : f[i] = IF i = 1 THEN q[i] ELSE f[i-1] \o q[i]
      BY <3>2
    <3>5. \A i \in 1..m : h[i] = IF i = 1 THEN q[i] ELSE h[i-1] \o q[i]
      <4> HIDE DEF h
      <4> QED  BY <3>1
    <3> HIDE DEF h, Flat
    <3> DEFINE T == {n \in Nat : n \in 1..m => f[n] = h[n]}
    <3>6. 0 \in T
      OBVIOUS
    <3>7. ASSUME NEW n \in T
          PROVE  n + 1 \in T
      <4>1. SUFFICES ASSUME n + 1 \in 1..m
                     PROVE  f[n + 1] = h[n + 1]
        OBVIOUS
      <4> DEFINE z == n + 1
      <4>2. z - 1 = n /\ (z # 1 => n \in 1..m)
        BY <4>1
      <4>3. z \in 1..m
        BY <4>1
      <4>4. n \in 1..m => f[n] = h[n]
        OBVIOUS
      <4> HIDE DEF z, T
      <4> QED  BY <3>4, <3>5, <4>2, <4>3, <4>4 DEF z
    <3>8. T = Nat
      <4>1. T \in SUBSET Nat
        OBVIOUS
      <4> HIDE DEF T
      <4> QED  BY <3>6, <3>7, <4>1, SetInduction
    <3>9. f[m] = h[m]
      <4>1. m \in T /\ m \in 1..m
        <5> HIDE DEF T
        <5> QED  BY <2>3, <3>8
      <4> QED  BY <4>1
    <3>10. h[m] = g[m]
      BY <2>3 DEF h
    <3> QED  BY <3>3, <3>9, <3>10 DEF q
  <2> QED  BY <2>2, <2>3
<1> QED  BY <1>4, <1>5

\* What has been put together stays where it is.
Grown(g, i, j) ==
  Len(g[i]) <= Len(g[j]) /\ \A k \in 1..Len(g[i]) : g[j][k] = g[i][k]

LEMMA TogetherGrows ==
  ASSUME NEW N, NEW V, NEW part, Parts(part, N, V), NEW g,
         Together(g, N, V, part)
  PROVE  \A i, j \in 0..N : i <= j => Grown(g, i, j)
<1> N \in Nat /\ part \in [1..N -> Seq(V)]
  BY DEF Parts
<1> SUFFICES ASSUME NEW i \in 0..N, NEW j \in 0..N, i <= j
             PROVE  Grown(g, i, j)
  OBVIOUS
<1> DEFINE Good(n) == /\ Len(g[i]) <= Len(g[n])
                      /\ \A k \in 1..Len(g[i]) : g[n][k] = g[i][k]
           T == {n \in Nat : n \in i..N => Good(n)}
<1>1. \A n \in 0..N : g[n] \in Seq(V) /\ Len(g[n]) \in Nat
  <2>1. g \in [0..N -> Seq(V)]
    BY DEF Together
  <2> QED  BY <2>1
<1>2. 0 \in T
  <2>1. 0 \in i..N => i = 0
    OBVIOUS
  <2> QED  BY <1>1, <2>1
<1>3. ASSUME NEW n \in T
      PROVE  n + 1 \in T
  <2>1. SUFFICES ASSUME n + 1 \in i..N
                 PROVE  Good(n + 1)
    <3> HIDE DEF Good
    <3> QED  OBVIOUS
  <2>2. CASE n + 1 = i
    BY <1>1, <2>2
  <2>3. CASE n + 1 # i
    <3> DEFINE z == n + 1
               a == g[n]
               b == g[z]
               c == g[i]
    <3>1. n \in i..N /\ n \in 0..N /\ z \in 1..N /\ z - 1 = n
      BY <2>1, <2>3
    <3>2. /\ Len(c) <= Len(a)
          /\ \A k \in 1..Len(c) : a[k] = c[k]
      BY <3>1
    <3> HIDE DEF T, Good, z
    <3>3. b = Join(a, part[z])
      BY <3>1 DEF Together
    <3>4. a \in Seq(V) /\ part[z] \in Seq(V)
      BY <1>1, <3>1
    <3>5. Len(c) \in Nat
      BY <1>1
    <3> HIDE DEF a, b, c
    <3> DEFINE e == part[z]
    <3>6. e \in Seq(V) /\ b = Join(a, e)
      BY <3>3, <3>4
    <3> HIDE DEF e
    <3>7. Len(b) = Len(a) + Len(e)
      BY <3>4, <3>6, Joined
    <3>8. \A k \in 1..Len(a) : b[k] = a[k]
      BY <3>4, <3>6, Joined
    <3>9. Len(a) \in Nat /\ Len(e) \in Nat
      BY <3>4, <3>6
    <3>10. Len(c) <= Len(b) /\ \A k \in 1..Len(c) : b[k] = c[k]
      BY <3>2, <3>5, <3>7, <3>8, <3>9
    <3> QED  BY <3>10 DEF Good, b, c, z
  <2> QED  BY <2>2, <2>3
<1>4. T = Nat
  <2>1. T \in SUBSET Nat
    OBVIOUS
  <2> HIDE DEF T
  <2> QED  BY <1>2, <1>3, <2>1, SetInduction
<1>5. j \in T /\ j \in i..N
  <2>1. j \in Nat /\ j \in i..N
    OBVIOUS
  <2> HIDE DEF T
  <2> QED  BY <1>4, <2>1
<1> QED  BY <1>5 DEF Grown

\* Where the parts stand in the whole.
Placed(g, N, part) ==
  \A i \in 1..N :
    /\ Len(g[i]) = Len(g[i - 1]) + Len(part[i])
    /\ \A k \in 1..Len(part[i]) : g[N][Len(g[i - 1]) + k] = part[i][k]

LEMMA TogetherPlaces ==
  ASSUME NEW N, NEW V, NEW part, Parts(part, N, V), NEW g,
         Together(g, N, V, part)
  PROVE  Placed(g, N, part)
<1> N \in Nat /\ part \in [1..N -> Seq(V)]
  BY DEF Parts
<1> SUFFICES ASSUME NEW i \in 1..N
             PROVE  /\ Len(g[i]) = Len(g[i - 1]) + Len(part[i])
                    /\ \A k \in 1..Len(part[i]) :
                         g[N][Len(g[i - 1]) + k] = part[i][k]
  BY DEF Placed
<1> DEFINE a == g[i - 1]
           b == g[i]
           e == part[i]
<1>1. i - 1 \in 0..N /\ i \in 0..N /\ N \in i..N
  OBVIOUS
<1>2. a \in Seq(V) /\ b = Join(a, e)
  BY <1>1 DEF Together
<1>3. e \in Seq(V)
  OBVIOUS
<1>4. \A k \in 1..Len(b) : g[N][k] = b[k]
  <2>1. \A x, y \in 0..N : x <= y => Grown(g, x, y)
    BY TogetherGrows
  <2>2. N \in 0..N /\ i <= N
    BY <1>1
  <2>3. Grown(g, i, N)
    BY <1>1, <2>1, <2>2
  <2> QED  BY <2>3 DEF Grown
<1> HIDE DEF a, b, e
<1>5. Len(b) = Len(a) + Len(e)
  BY <1>2, <1>3, Joined
<1>6. \A k \in 1..Len(e) : b[Len(a) + k] = e[k]
  <2>1. a \in Seq(V)
    BY <1>2
  <2>2. \A k \in 1..Len(e) : Join(a, e)[Len(a) + k] = e[k]
    BY <1>3, <2>1, Joined
  <2> QED  BY <1>2, <2>2
<1>7. Len(a) \in Nat /\ Len(e) \in Nat
  BY <1>2, <1>3
<1>8. \A k \in 1..Len(e) : Len(a) + k \in 1..Len(b)
  BY <1>5, <1>7
<1> QED  BY <1>4, <1>5, <1>6, <1>8 DEF a, b, e

----------------------------------------------------------------------------
(* Documents and their masks.                                              *)

\* The mask and the original up to piece i.
MaskedTo(d, i) == FlattenSeq([j \in 1..i |-> Shown(d[j])])
PlainTo(d, i) == FlattenSeq([j \in 1..i |-> d[j].orig])

\* The length of the mask up to piece i.
Upto(d, i) == Len(MaskedTo(d, i))

\* What pieces are.
LEMMA PieceFacts ==
  ASSUME NEW d \in Documents
  PROVE  /\ Len(d) \in Nat /\ DOMAIN d = 1..Len(d)
         /\ \A i \in 1..Len(d) :
              /\ d[i].orig \in Seq(Characters) /\ Len(d[i].orig) \in Nat \ {0}
              /\ Shown(d[i]) \in Seq(Characters) /\ Len(Shown(d[i])) \in Nat \ {0}
              /\ d[i].fake # Copied => Shown(d[i]) = d[i].fake
              /\ d[i].fake = Copied => Shown(d[i]) = d[i].orig
         /\ \A i, j \in 1..Len(d) :
              d[i].fake # Copied /\ d[i].fake = d[j].fake => i = j
<1> DEFINE Piece == [orig : Seq(Characters), fake : Seq(Characters) \cup {Copied}]
<1>1. /\ d \in Seq(Piece)
      /\ \A i \in DOMAIN d : d[i].orig # << >> /\ d[i].fake # << >>
      /\ \A i, j \in DOMAIN d : d[i].fake # Copied /\ d[i].fake = d[j].fake => i = j
  BY SpellingAssumption
<1>2. Len(d) \in Nat /\ DOMAIN d = 1..Len(d) /\ \A i \in 1..Len(d) : d[i] \in Piece
  <2> HIDE DEF Piece
  <2> QED  BY <1>1
<1>3. \A s \in Seq(Characters) : s # << >> => Len(s) \in Nat \ {0}
  OBVIOUS
<1>4. ASSUME NEW i \in 1..Len(d)
      PROVE  /\ d[i].orig \in Seq(Characters) /\ Len(d[i].orig) \in Nat \ {0}
             /\ Shown(d[i]) \in Seq(Characters) /\ Len(Shown(d[i])) \in Nat \ {0}
             /\ d[i].fake # Copied => Shown(d[i]) = d[i].fake
             /\ d[i].fake = Copied => Shown(d[i]) = d[i].orig
  <2>1. /\ d[i].orig \in Seq(Characters) /\ d[i].orig # << >>
        /\ d[i].fake \in Seq(Characters) \cup {Copied} /\ d[i].fake # << >>
    BY <1>1, <1>2
  <2>2. CASE d[i].fake = Copied
    BY <1>3, <2>1, <2>2 DEF Shown
  <2>3. CASE d[i].fake # Copied
    BY <1>3, <2>1, <2>3 DEF Shown
  <2> QED  BY <2>2, <2>3
<1> QED  BY <1>1, <1>2, <1>4

\* Where a piece's replacement, or the piece, stands in the mask.
LEMMA MaskedPlaces ==
  ASSUME NEW d \in Documents
  PROVE  /\ \A i \in 0..Len(d) : /\ MaskedTo(d, i) \in Seq(Characters)
                                 /\ Upto(d, i) \in Nat
         /\ Upto(d, 0) = 0
         /\ \A i \in 1..Len(d) :
              /\ Upto(d, i) = Upto(d, i - 1) + Len(Shown(d[i]))
              /\ \A k \in 1..Len(Shown(d[i])) :
                   MaskedTo(d, Len(d))[Upto(d, i - 1) + k] = Shown(d[i])[k]
         /\ \A i, j \in 0..Len(d) : i <= j => Upto(d, i) <= Upto(d, j)
<1> DEFINE N == Len(d)
           part == [j \in 1..N |-> Shown(d[j])]
<1>1. N \in Nat /\ Parts(part, N, Characters)
  BY PieceFacts DEF Parts
<1>2. \A j \in 1..N : part[j] = Shown(d[j])
  OBVIOUS
<1> HIDE DEF N, part
<1>3. PICK g : /\ Together(g, N, Characters, part)
               /\ \A m \in 0..N : FlattenSeq([j \in 1..m |-> part[j]]) = g[m]
  BY <1>1, FlatEquation
<1>4. \A i \in 0..N : MaskedTo(d, i) = g[i]
  <2>1. ASSUME NEW i \in 0..N
        PROVE  MaskedTo(d, i) = g[i]
    <3>1. \A j \in 1..i : part[j] = Shown(d[j])
      BY <1>2, <1>1
    <3>2. [j \in 1..i |-> part[j]] = [j \in 1..i |-> Shown(d[j])]
      BY <3>1
    <3> QED  BY <1>3, <3>2 DEF MaskedTo
  <2> QED  BY <2>1
<1>5. \A i \in 0..N : Upto(d, i) = Len(g[i])
  BY <1>4 DEF Upto
<1>6. g \in [0..N -> Seq(Characters)] /\ g[0] = << >>
  BY <1>3 DEF Together
<1>7. \A i \in 0..N : MaskedTo(d, i) \in Seq(Characters) /\ Upto(d, i) \in Nat
  BY <1>4, <1>5, <1>6
<1>8. Upto(d, 0) = 0
  BY <1>1, <1>5, <1>6
<1>9. Placed(g, N, part)
  BY <1>1, <1>3, TogetherPlaces
<1>10. ASSUME NEW i \in 1..N
      PROVE  /\ Upto(d, i) = Upto(d, i - 1) + Len(Shown(d[i]))
             /\ \A k \in 1..Len(Shown(d[i])) :
                  MaskedTo(d, N)[Upto(d, i - 1) + k] = Shown(d[i])[k]
  <2>1. /\ Len(g[i]) = Len(g[i - 1]) + Len(part[i])
        /\ \A k \in 1..Len(part[i]) : g[N][Len(g[i - 1]) + k] = part[i][k]
    BY <1>9 DEF Placed
  <2>2. i \in 0..N /\ i - 1 \in 0..N /\ N \in 0..N
    BY <1>1
  <2>3. /\ Upto(d, i) = Len(g[i]) /\ Upto(d, i - 1) = Len(g[i - 1])
        /\ MaskedTo(d, N) = g[N] /\ part[i] = Shown(d[i])
    BY <1>2, <1>4, <1>5, <2>2
  <2> QED  BY <2>1, <2>3
<1>11. \A i, j \in 0..N : i <= j => Upto(d, i) <= Upto(d, j)
  <2>1. \A i, j \in 0..N : i <= j => Grown(g, i, j)
    BY <1>1, <1>3, TogetherGrows
  <2>2. \A i, j \in 0..N : i <= j => Len(g[i]) <= Len(g[j])
    BY <2>1 DEF Grown
  <2> QED  BY <1>5, <2>2
<1> QED  BY <1>7, <1>8, <1>10, <1>11 DEF N

\* The original is the pieces' originals, one after another.
LEMMA PlainPlaces ==
  ASSUME NEW d \in Documents
  PROVE  /\ PlainTo(d, 0) = << >>
         /\ \A i \in 0..Len(d) : PlainTo(d, i) \in Seq(Characters)
         /\ \A i \in 1..Len(d) :
              PlainTo(d, i) = Join(PlainTo(d, i - 1), d[i].orig)
<1> DEFINE N == Len(d)
           part == [j \in 1..N |-> d[j].orig]
<1>1. N \in Nat /\ Parts(part, N, Characters)
  BY PieceFacts DEF Parts
<1>2. \A j \in 1..N : part[j] = d[j].orig
  OBVIOUS
<1> HIDE DEF N, part
<1>3. PICK g : /\ Together(g, N, Characters, part)
               /\ \A m \in 0..N : FlattenSeq([j \in 1..m |-> part[j]]) = g[m]
  BY <1>1, FlatEquation
<1>4. \A i \in 0..N : PlainTo(d, i) = g[i]
  <2>1. ASSUME NEW i \in 0..N
        PROVE  PlainTo(d, i) = g[i]
    <3>1. \A j \in 1..i : part[j] = d[j].orig
      BY <1>2, <1>1
    <3>2. [j \in 1..i |-> part[j]] = [j \in 1..i |-> d[j].orig]
      BY <3>1
    <3> QED  BY <1>3, <3>2 DEF PlainTo
  <2> QED  BY <2>1
<1>5. /\ g \in [0..N -> Seq(Characters)] /\ g[0] = << >>
      /\ \A i \in 1..N : g[i] = Join(g[i - 1], part[i])
  BY <1>3 DEF Together
<1>6. PlainTo(d, 0) = << >> /\ \A i \in 0..N : PlainTo(d, i) \in Seq(Characters)
  BY <1>1, <1>4, <1>5
<1>7. ASSUME NEW i \in 1..N
      PROVE  PlainTo(d, i) = Join(PlainTo(d, i - 1), d[i].orig)
  <2>1. i \in 0..N /\ i - 1 \in 0..N
    BY <1>1
  <2> QED  BY <1>2, <1>4, <1>5, <2>1
<1> QED  BY <1>6, <1>7 DEF N

----------------------------------------------------------------------------
(* What is spelled where.                                                  *)

\* Where pieces begin and end, in numbers.
Offsets(d) ==
  /\ Len(d) \in Nat
  /\ \A i \in 0..Len(d) : Upto(d, i) \in Nat
  /\ \A i \in 1..Len(d) : /\ Upto(d, i) = Upto(d, i - 1) + Len(Shown(d[i]))
                          /\ Len(Shown(d[i])) \in Nat \ {0}
  /\ \A i, j \in 0..Len(d) : i <= j => Upto(d, i) <= Upto(d, j)

LEMMA OffsetsHold == \A d \in Documents : Offsets(d) /\ Upto(d, 0) = 0
BY MaskedPlaces, PieceFacts DEF Offsets

\* A place belongs to one piece.
LEMMA OnePiece ==
  ASSUME NEW d, Offsets(d), NEW i \in 1..Len(d), NEW j \in 1..Len(d), NEW o \in Nat,
         Upto(d, i - 1) <= o, o < Upto(d, i),
         Upto(d, j - 1) <= o, o < Upto(d, j)
  PROVE  i = j
<1>1. /\ i - 1 \in 0..Len(d) /\ j - 1 \in 0..Len(d)
      /\ i \in 0..Len(d) /\ j \in 0..Len(d)
  BY DEF Offsets
<1>2. /\ Upto(d, i) \in Nat /\ Upto(d, j) \in Nat
      /\ Upto(d, i - 1) \in Nat /\ Upto(d, j - 1) \in Nat
  BY <1>1 DEF Offsets
<1>3. ASSUME i < j
      PROVE  FALSE
  <2>1. i <= j - 1
    BY <1>1, <1>3
  <2>2. Upto(d, i) <= Upto(d, j - 1)
    BY <1>1, <2>1 DEF Offsets
  <2> QED  BY <1>2, <2>2
<1>4. ASSUME j < i
      PROVE  FALSE
  <2>1. j <= i - 1
    BY <1>1, <1>4
  <2>2. Upto(d, j) <= Upto(d, i - 1)
    BY <1>1, <2>1 DEF Offsets
  <2> QED  BY <1>2, <2>2
<1> QED  BY <1>1, <1>3, <1>4

\* The text and the document at hand.
LEMMA TheMask ==
  ASSUME doc \in Documents
  PROVE  /\ MaskedText = MaskedTo(doc, Len(doc))
         /\ Original = PlainTo(doc, Len(doc))
         /\ Len(MaskedText) = Upto(doc, Len(doc))
         /\ MaskedText \in Seq(Characters)
         /\ \A i \in 1..Len(doc) : StartOf(i) = 1 + Upto(doc, i - 1)
<1>1. DOMAIN doc = 1..Len(doc) /\ Len(doc) \in Nat
  BY PieceFacts
<1>2. MaskedText = MaskedTo(doc, Len(doc)) /\ Original = PlainTo(doc, Len(doc))
  BY <1>1 DEF MaskedText, Original, MaskedTo, PlainTo
<1>3. \A i \in 1..Len(doc) : StartOf(i) = 1 + Upto(doc, i - 1)
  BY DEF StartOf, Upto, MaskedTo
<1>4. MaskedTo(doc, Len(doc)) \in Seq(Characters)
  <2>1. Len(doc) \in 0..Len(doc)
    BY <1>1
  <2> QED  BY <2>1, MaskedPlaces
<1> QED  BY <1>2, <1>3, <1>4 DEF Upto

\* Legible, in terms of offsets: what is spelled at an offset o of the mask is
\* spelled in a replacement, and if that begins there it is not longer.
LEMMA SpelledInside ==
  ASSUME doc \in Documents, Legible, NEW o \in Nat, o < Len(MaskedText),
         NEW pair \in Pairs(doc), Occurs(pair[1], 1 + o)
  PROVE  \E j \in 1..Len(doc) :
           /\ doc[j].fake # Copied
           /\ Upto(doc, j - 1) <= o /\ o < Upto(doc, j)
           /\ Upto(doc, j - 1) = o => Len(pair[1]) <= Len(doc[j].fake)
<1> DEFINE p == 1 + o
<1>1. DOMAIN doc = 1..Len(doc) /\ Len(doc) \in Nat
  BY PieceFacts
<1>2. \A j \in 1..Len(doc) : StartOf(j) = 1 + Upto(doc, j - 1)
  BY TheMask
<1>3. \A j \in 1..Len(doc) :
        doc[j].fake # Copied =>
          /\ Upto(doc, j) = Upto(doc, j - 1) + Len(doc[j].fake)
          /\ Len(doc[j].fake) \in Nat \ {0}
          /\ Upto(doc, j - 1) \in Nat
  <2>1. ASSUME NEW j \in 1..Len(doc), doc[j].fake # Copied
        PROVE  /\ Upto(doc, j) = Upto(doc, j - 1) + Len(doc[j].fake)
               /\ Len(doc[j].fake) \in Nat \ {0}
               /\ Upto(doc, j - 1) \in Nat
    <3>1. Shown(doc[j]) = doc[j].fake
      BY <2>1, PieceFacts
    <3>2. /\ Upto(doc, j) = Upto(doc, j - 1) + Len(Shown(doc[j]))
          /\ Len(Shown(doc[j])) \in Nat \ {0}
      BY <2>1, OffsetsHold DEF Offsets
    <3>3. j - 1 \in 0..Len(doc)
      BY <1>1
    <3>4. Upto(doc, j - 1) \in Nat
      BY <3>3, OffsetsHold DEF Offsets
    <3> QED  BY <3>1, <3>2, <3>4
  <2> QED  BY <2>1
<1>4. p \in 1..Len(MaskedText)
  <2>1. Len(MaskedText) \in Nat
    BY TheMask
  <2> QED  BY <2>1
<1>5. \/ \E j \in DOMAIN doc : Within(p, j)
      \/ \E j \in DOMAIN doc :
           /\ doc[j].fake # Copied /\ p = StartOf(j)
           /\ Len(pair[1]) <= Len(doc[j].fake)
  <2> HIDE DEF p
  <2>1. Occurs(pair[1], p)
    BY DEF p
  <2> QED  BY <1>4, <2>1 DEF Legible
<1>6. CASE \E j \in DOMAIN doc : Within(p, j)
  <2>1. PICK j \in 1..Len(doc) : Within(p, j)
    BY <1>1, <1>6
  <2>2. /\ doc[j].fake # Copied
        /\ p > 1 + Upto(doc, j - 1)
        /\ p < 1 + Upto(doc, j - 1) + Len(doc[j].fake)
    BY <1>2, <2>1 DEF Within
  <2>3. /\ Upto(doc, j) = Upto(doc, j - 1) + Len(doc[j].fake)
        /\ Len(doc[j].fake) \in Nat /\ Upto(doc, j - 1) \in Nat
    BY <1>3, <2>2
  <2>4. Upto(doc, j - 1) < o /\ o < Upto(doc, j)
    BY <2>2, <2>3
  <2>5. Upto(doc, j - 1) <= o /\ Upto(doc, j - 1) # o
    BY <2>3, <2>4
  <2> HIDE DEF p
  <2> QED  BY <2>2, <2>4, <2>5
<1>7. CASE \E j \in DOMAIN doc :
             /\ doc[j].fake # Copied /\ p = StartOf(j)
             /\ Len(pair[1]) <= Len(doc[j].fake)
  <2>1. PICK j \in 1..Len(doc) :
          /\ doc[j].fake # Copied /\ p = StartOf(j)
          /\ Len(pair[1]) <= Len(doc[j].fake)
    BY <1>1, <1>7
  <2>2. p = 1 + Upto(doc, j - 1)
    BY <1>2, <2>1
  <2>3. /\ Upto(doc, j) = Upto(doc, j - 1) + Len(doc[j].fake)
        /\ Len(doc[j].fake) \in Nat \ {0} /\ Upto(doc, j - 1) \in Nat
    BY <1>3, <2>1
  <2>4. Upto(doc, j - 1) <= o /\ o < Upto(doc, j)
    BY <2>2, <2>3
  <2> HIDE DEF p
  <2> QED  BY <2>1, <2>4
<1> QED  BY <1>5, <1>6, <1>7

\* Pairs are the masked pieces' replacements and originals.
LEMMA PairsAre ==
  ASSUME doc \in Documents, NEW pair \in Pairs(doc)
  PROVE  \E j \in 1..Len(doc) : /\ doc[j].fake # Copied
                                /\ pair = <<doc[j].fake, doc[j].orig>>
BY PieceFacts DEF Pairs

\* No key is spelled in an ordinary piece.
LEMMA NothingElsewhere ==
  ASSUME doc \in Documents, Legible,
         NEW i \in 1..Len(doc), doc[i].fake = Copied,
         NEW k \in 0..(Len(doc[i].orig) - 1), NEW pair \in Pairs(doc)
  PROVE  ~Occurs(pair[1], 1 + Upto(doc, i - 1) + k)
<1> DEFINE o == Upto(doc, i - 1) + k
<1>1. /\ Len(doc[i].orig) \in Nat /\ Shown(doc[i]) = doc[i].orig
      /\ Len(doc) \in Nat
  BY PieceFacts
<1>2. /\ i - 1 \in 0..Len(doc) /\ i \in 0..Len(doc) /\ Len(doc) \in 0..Len(doc)
      /\ i <= Len(doc)
  BY <1>1
<1>3. /\ Upto(doc, i - 1) \in Nat /\ Upto(doc, Len(doc)) \in Nat
      /\ Upto(doc, i) = Upto(doc, i - 1) + Len(doc[i].orig)
      /\ Upto(doc, i) <= Upto(doc, Len(doc))
  BY <1>1, <1>2, OffsetsHold DEF Offsets
<1>4. Len(MaskedText) = Upto(doc, Len(doc))
  BY TheMask
<1>5. /\ o \in Nat /\ o < Len(MaskedText)
      /\ Upto(doc, i - 1) <= o /\ o < Upto(doc, i)
      /\ 1 + Upto(doc, i - 1) + k = 1 + o
  <2> DEFINE u == Upto(doc, i - 1)
             v == Upto(doc, i)
             w == Upto(doc, Len(doc))
             z == Len(doc[i].orig)
  <2>1. /\ u \in Nat /\ w \in Nat /\ z \in Nat /\ k \in Nat /\ k < z
        /\ v = u + z /\ v <= w /\ Len(MaskedText) = w
    BY <1>1, <1>3, <1>4
  <2> HIDE DEF u, v, w, z
  <2>2. /\ u + k \in Nat /\ u + k < w /\ u <= u + k /\ u + k < v
        /\ 1 + u + k = 1 + (u + k)
    BY <2>1
  <2> QED  BY <2>1, <2>2 DEF u, v, w
<1> HIDE DEF o
<1>6. SUFFICES ASSUME Occurs(pair[1], 1 + o)
               PROVE  FALSE
  BY <1>5
<1>7. PICK j \in 1..Len(doc) :
        /\ doc[j].fake # Copied
        /\ Upto(doc, j - 1) <= o /\ o < Upto(doc, j)
  BY <1>5, <1>6, SpelledInside
<1>8. i = j
  BY <1>5, <1>7, OnePiece, OffsetsHold
<1> QED  BY <1>7, <1>8

\* At the start of a replacement its own key is spelled, and is the longest
\* key that is, or one of the longest, and then the same.
LEMMA OwnKey ==
  ASSUME doc \in Documents, Legible,
         NEW i \in 1..Len(doc), doc[i].fake # Copied
  PROVE  LET p == 1 + Upto(doc, i - 1)
         IN /\ <<doc[i].fake, doc[i].orig>> \in Pairs(doc)
            /\ Occurs(doc[i].fake, p)
            /\ \A pair \in Pairs(doc) :
                 Occurs(pair[1], p) =>
                   /\ Len(pair[1]) <= Len(doc[i].fake)
                   /\ Len(pair[1]) >= Len(doc[i].fake) =>
                        pair = <<doc[i].fake, doc[i].orig>>
<1> DEFINE o == Upto(doc, i - 1)
           F == doc[i].fake
           M == MaskedText
           l == Len(F)
<1>1. /\ Shown(doc[i]) = F /\ F \in Seq(Characters) /\ l \in Nat \ {0}
      /\ Len(doc) \in Nat /\ DOMAIN doc = 1..Len(doc)
  BY PieceFacts
<1>2. /\ i - 1 \in 0..Len(doc) /\ i \in 0..Len(doc) /\ Len(doc) \in 0..Len(doc)
      /\ i <= Len(doc)
  BY <1>1
<1>3. /\ o \in Nat /\ Upto(doc, Len(doc)) \in Nat
      /\ Upto(doc, i) = o + l
      /\ Upto(doc, i) <= Upto(doc, Len(doc))
  BY <1>1, <1>2, OffsetsHold DEF Offsets
<1>4. M \in Seq(Characters) /\ Len(M) = Upto(doc, Len(doc))
      /\ M = MaskedTo(doc, Len(doc))
  BY TheMask
<1>5. \A k \in 1..l : M[o + k] = F[k]
  <2>1. \A k \in 1..Len(Shown(doc[i])) :
          MaskedTo(doc, Len(doc))[Upto(doc, i - 1) + k] = Shown(doc[i])[k]
    BY MaskedPlaces
  <2> QED  BY <1>1, <1>4, <2>1
<1>6. o + l <= Len(M) /\ Len(M) \in Nat
  BY <1>3, <1>4
<1>7. <<F, doc[i].orig>> \in Pairs(doc)
  BY <1>1 DEF Pairs
<1>8. \A j \in 1..Len(doc) :
        Upto(doc, j - 1) <= o /\ o < Upto(doc, j) => j = i
  <2>1. Upto(doc, i - 1) <= o /\ o < Upto(doc, i)
    BY <1>1, <1>3
  <2>2. Offsets(doc)
    BY OffsetsHold
  <2>3. o \in Nat
    BY <1>3
  <2> HIDE DEF o
  <2> QED  BY <2>1, <2>2, <2>3, OnePiece
<1>9. ASSUME NEW pair \in Pairs(doc), Occurs(pair[1], 1 + o)
      PROVE  Len(pair[1]) <= l
  <2>1. PICK j \in 1..Len(doc) :
          /\ Upto(doc, j - 1) <= o /\ o < Upto(doc, j)
          /\ Upto(doc, j - 1) = o => Len(pair[1]) <= Len(doc[j].fake)
    <3>1. o \in Nat /\ o < Len(M)
      BY <1>1, <1>3, <1>6
    <3> HIDE DEF o
    <3> QED  BY <1>9, <3>1, SpelledInside
  <2>2. j = i
    <3> HIDE DEF o
    <3> QED  BY <1>8, <2>1
  <2> QED  BY <2>1, <2>2
<1> HIDE DEF M, F, l, o
<1>10. SubSeq(M, 1 + o, 1 + o + l - 1) = F
  <2> DEFINE s == SubSeq(M, 1 + o, 1 + o + l - 1)
  <2>1. s \in Seq(Characters) /\ Len(s) = l
    BY <1>1, <1>3, <1>4, <1>6
  <2>2. \A k \in 1..l : s[k] = M[o + k]
    BY <1>1, <1>3, <1>4, <1>6
  <2>3. \A k \in 1..l : s[k] = F[k]
    BY <1>5, <2>2
  <2> HIDE DEF s
  <2>4. Len(F) = l
    BY DEF l
  <2>5. s = F
    BY <1>1, <2>1, <2>3, <2>4
  <2> QED  BY <2>5 DEF s
<1>11. Occurs(F, 1 + o)
  <2>1. 1 + o + l - 1 <= Len(M)
    BY <1>1, <1>3, <1>6
  <2> QED  BY <1>10, <2>1 DEF Occurs, M, l
<1>12. ASSUME NEW pair \in Pairs(doc), Occurs(pair[1], 1 + o), Len(pair[1]) >= l
       PROVE  pair = <<F, doc[i].orig>>
  <2>1. PICK j \in 1..Len(doc) :
          doc[j].fake # Copied /\ pair = <<doc[j].fake, doc[j].orig>>
    BY <1>12, PairsAre
  <2>2. Len(pair[1]) = l
    <3>1. Len(doc[j].fake) \in Nat
      BY <2>1, PieceFacts
    <3> QED  BY <1>1, <1>9, <1>12, <2>1, <3>1
  <2>3. pair[1] = SubSeq(M, 1 + o, 1 + o + l - 1)
    BY <1>12, <2>2 DEF Occurs, M
  <2>4. doc[j].fake = doc[i].fake
    BY <1>10, <2>1, <2>3 DEF F
  <2>5. j = i
    BY <2>1, <2>4, PieceFacts
  <2> QED  BY <2>1, <2>5 DEF F
<1> QED  BY <1>7, <1>9, <1>11, <1>12 DEF o, F, l

----------------------------------------------------------------------------
(* The keys.                                                               *)

\* All pairs stand in the list, long keys first.
KeysOK(d, s) ==
  /\ DOMAIN s \subseteq Nat
  /\ \A k \in DOMAIN s : s[k] \in Pairs(d)
  /\ \A pair \in Pairs(d) : \E k \in DOMAIN s : s[k] = pair
  /\ Sorted(s)

\* A list of a finite set's elements that names none twice names them all.
LEMMA AllListed ==
  ASSUME NEW S, IsFiniteSet(S), NEW s \in SetToSeqs(S)
  PROVE  /\ DOMAIN s \subseteq Nat
         /\ \A k \in DOMAIN s : s[k] \in S
         /\ \A x \in S : \E k \in DOMAIN s : s[k] = x
<1> DEFINE n == Cardinality(S)
           D == 1..n
<1>1. n \in Nat
  BY FS_CardinalityType
<1>2. s \in [D -> S] /\ \A i, j \in D : i # j => s[i] # s[j]
  BY DEF SetToSeqs
<1>3. s \in Injection(D, S)
  <2> HIDE DEF D
  <2> QED  BY <1>2 DEF Injection, IsInjective
<1>4. IsFiniteSet(D) /\ Cardinality(D) = n
  <2>1. 1 \in Int /\ n \in Int
    BY <1>1
  <2> QED  BY <1>1, <2>1, FS_Interval
<1>5. s \in Surjection(D, S)
  <2> HIDE DEF D
  <2> QED  BY <1>3, <1>4, FS_Injection
<1>6. \A x \in S : \E k \in D : s[k] = x
  <2> HIDE DEF D
  <2> QED  BY <1>5 DEF Surjection
<1>7. D \subseteq Nat
  OBVIOUS
<1> HIDE DEF D
<1> QED  BY <1>2, <1>6, <1>7

\* A document has finitely many pairs.
LEMMA PairsFinite ==
  ASSUME NEW d \in Documents
  PROVE  IsFiniteSet(Pairs(d))
<1> DEFINE D == {j \in DOMAIN d : d[j].fake # Copied}
           f == [i \in D |-> <<d[i].fake, d[i].orig>>]
<1>1. Len(d) \in Nat /\ DOMAIN d = 1..Len(d)
  BY PieceFacts
<1>2. IsFiniteSet(1..Len(d))
  <2>1. 1 \in Int /\ Len(d) \in Int
    BY <1>1
  <2> QED  BY <2>1, FS_Interval
<1>3. IsFiniteSet(D)
  <2>1. D \subseteq 1..Len(d)
    BY <1>1
  <2> HIDE DEF D
  <2> QED  BY <1>2, <2>1, FS_Subset
<1>4. f \in Surjection(D, Pairs(d))
  <2>1. Pairs(d) = {<<d[i].fake, d[i].orig>> : i \in D}
    BY DEF Pairs
  <2> HIDE DEF D
  <2> QED  BY <2>1 DEF Surjection
<1> HIDE DEF D, f
<1> QED  BY <1>3, <1>4, FS_Surjection

\* The keys that sort.Slice puts in order are the keys of the mapping.
LEMMA KeysSorted ==
  ASSUME NEW d \in Documents, NEW s \in SetToSeqs(Pairs(d)), Sorted(s)
  PROVE  KeysOK(d, s)
BY PairsFinite, AllListed DEF KeysOK

----------------------------------------------------------------------------
(* The replacer's invariant.                                               *)

\* At a place p, with r written, the replacer has come to the end, or to the
\* start of a replacement, or into an ordinary piece of which it has copied k
\* characters.
AtEnd(d, p, r) == p = 1 + Upto(d, Len(d)) /\ r = PlainTo(d, Len(d))

AtFake(d, i, p, r) ==
  d[i].fake # Copied /\ p = 1 + Upto(d, i - 1) /\ r = PlainTo(d, i - 1)

Amid(d, i, k, p, r) ==
  /\ d[i].fake = Copied
  /\ p = 1 + Upto(d, i - 1) + k
  /\ r = Join(PlainTo(d, i - 1), SubSeq(d[i].orig, 1, k))

InStep(d, p, r) ==
  \/ AtEnd(d, p, r)
  \/ \E i \in 1..Len(d) : AtFake(d, i, p, r)
  \/ \E i \in 1..Len(d) : \E k \in 0..(Len(d[i].orig) - 1) : Amid(d, i, k, p, r)

SpellingInv ==
  /\ doc \in Documents
  /\ demask \in {"sort", "replace", "restored"}
  /\ demask = "sort" => pos = 1 /\ restored = << >>
  /\ demask = "replace" => /\ KeysOK(doc, pairs)
                           /\ Legible => InStep(doc, pos, restored)
  /\ SpelledRoundTrip

\* Behind a piece the replacer is in step.
LEMMA EdgeInStep ==
  ASSUME NEW d \in Documents, NEW i \in 0..Len(d)
  PROVE  InStep(d, 1 + Upto(d, i), PlainTo(d, i))
<1>1. Len(d) \in Nat
  BY PieceFacts
<1>2. CASE i = Len(d)
  BY <1>2 DEF InStep, AtEnd
<1>3. CASE i # Len(d)
  <2> DEFINE j == i + 1
             P == PlainTo(d, i)
             u == Upto(d, i)
             o == d[j].orig
  <2>1. j \in 1..Len(d) /\ j - 1 = i
    BY <1>1, <1>3
  <2>2. P \in Seq(Characters) /\ u \in Nat
    BY PlainPlaces, MaskedPlaces
  <2> HIDE DEF j, P, u
  <2>3. o \in Seq(Characters) /\ Len(o) \in Nat \ {0}
    BY <2>1, PieceFacts
  <2>4. PlainTo(d, j - 1) = P /\ Upto(d, j - 1) = u
    BY <2>1 DEF P, u
  <2>5. CASE d[j].fake # Copied
    BY <2>1, <2>4, <2>5 DEF InStep, AtFake, P, u
  <2>6. CASE d[j].fake = Copied
    <3>1. P = Join(P, SubSeq(o, 1, 0))
      <4> HIDE DEF o
      <4>1. SubSeq(o, 1, 0) = << >>
        BY <2>3
      <4>2. P \o << >> = P
        BY <2>2
      <4> QED  BY <4>1, <4>2 DEF Join
    <3>2. 1 + u = 1 + u + 0
      BY <2>2
    <3>3. 0 \in 0..(Len(d[j].orig) - 1)
      BY <2>3
    <3>4. Amid(d, j, 0, 1 + u, P)
      BY <2>4, <2>6, <3>1, <3>2 DEF Amid
    <3>5. InStep(d, 1 + u, P)
      BY <2>1, <3>3, <3>4 DEF InStep
    <3> QED  BY <3>5 DEF u, P
  <2> QED  BY <2>5, <2>6
<1> QED  BY <1>2, <1>3

\* At the start of a replacement the replacer writes what it stands for.
LEMMA FakeReplaced ==
  ASSUME doc \in Documents, Legible, KeysOK(doc, pairs),
         NEW i \in 1..Len(doc), AtFake(doc, i, pos, restored)
  PROVE  /\ Matching # {}
         /\ \A k \in Matching :
              (\A j \in Matching : k <= j) =>
                pairs[k] = <<doc[i].fake, doc[i].orig>>
<1> DEFINE own == <<doc[i].fake, doc[i].orig>>
           p == 1 + Upto(doc, i - 1)
<1>1. /\ own \in Pairs(doc)
      /\ Occurs(own[1], p)
      /\ \A pair \in Pairs(doc) :
           Occurs(pair[1], p) => /\ Len(pair[1]) <= Len(own[1])
                                 /\ Len(pair[1]) >= Len(own[1]) => pair = own
  <2>1. doc[i].fake # Copied
    BY DEF AtFake
  <2> QED  BY <2>1, OwnKey
<1>2. pos = p
  BY DEF AtFake
<1> HIDE DEF own, p
<1>3. PICK z \in DOMAIN pairs : pairs[z] = own
  BY <1>1 DEF KeysOK
<1>4. z \in Matching
  BY <1>1, <1>2, <1>3 DEF Matching
<1>5. ASSUME NEW k \in Matching, \A j \in Matching : k <= j
      PROVE  pairs[k] = own
  <2>1. /\ k \in DOMAIN pairs /\ k \in Nat /\ z \in Nat /\ k <= z
        /\ pairs[k] \in Pairs(doc) /\ Occurs(pairs[k][1], p)
    BY <1>2, <1>4, <1>5 DEF Matching, KeysOK
  <2>2. CASE k = z
    BY <1>3, <2>2
  <2>3. CASE k # z
    <3>1. k < z
      BY <2>1, <2>3
    <3>2. Len(pairs[k][1]) >= Len(pairs[z][1])
      BY <2>1, <3>1 DEF KeysOK, Sorted
    <3> QED  BY <1>1, <1>3, <2>1, <3>2
  <2> QED  BY <2>2, <2>3
<1> QED  BY <1>4, <1>5 DEF own

\* Inside an ordinary piece nothing is replaced, at the end neither.
LEMMA NothingReplaced ==
  ASSUME doc \in Documents, Legible, KeysOK(doc, pairs),
         \/ AtEnd(doc, pos, restored)
         \/ \E i \in 1..Len(doc) : \E k \in 0..(Len(doc[i].orig) - 1) :
              Amid(doc, i, k, pos, restored)
  PROVE  Matching = {}
<1>1. SUFFICES ASSUME NEW x \in Matching
               PROVE  FALSE
  OBVIOUS
<1>2. pairs[x] \in Pairs(doc) /\ Occurs(pairs[x][1], pos)
  BY <1>1 DEF Matching, KeysOK
<1>3. CASE AtEnd(doc, pos, restored)
  <2> DEFINE l == Len(pairs[x][1])
             m == Len(MaskedText)
  <2>1. l \in Nat \ {0}
    <3>1. PICK j \in 1..Len(doc) :
            doc[j].fake # Copied /\ pairs[x] = <<doc[j].fake, doc[j].orig>>
      BY <1>2, PairsAre
    <3>2. Len(doc[j].fake) \in Nat \ {0}
      BY <3>1, PieceFacts
    <3> QED  BY <3>1, <3>2
  <2>2. m \in Nat /\ pos = 1 + m
    BY <1>3, TheMask DEF AtEnd
  <2>3. pos + l - 1 <= m
    BY <1>2 DEF Occurs
  <2> HIDE DEF l, m
  <2> QED  BY <2>1, <2>2, <2>3
<1>4. CASE \E i \in 1..Len(doc) : \E k \in 0..(Len(doc[i].orig) - 1) :
             Amid(doc, i, k, pos, restored)
  <2>1. PICK i \in 1..Len(doc) : \E k \in 0..(Len(doc[i].orig) - 1) :
          Amid(doc, i, k, pos, restored)
    BY <1>4
  <2>2. PICK k \in 0..(Len(doc[i].orig) - 1) : Amid(doc, i, k, pos, restored)
    BY <2>1
  <2>3. doc[i].fake = Copied /\ pos = 1 + Upto(doc, i - 1) + k
    BY <2>2 DEF Amid
  <2>4. ~Occurs(pairs[x][1], 1 + Upto(doc, i - 1) + k)
    BY <1>2, <2>3, NothingElsewhere
  <2> QED  BY <1>2, <2>3, <2>4
<1> QED  BY <1>3, <1>4

\* One more character of an ordinary piece.
LEMMA CharacterCopied ==
  ASSUME NEW d \in Documents, NEW i \in 1..Len(d),
         NEW k \in 0..(Len(d[i].orig) - 1), NEW p, NEW r, Amid(d, i, k, p, r)
  PROVE  /\ p <= Upto(d, Len(d))
         /\ InStep(d, p + 1, Append(r, MaskedTo(d, Len(d))[p]))
<1> DEFINE o == d[i].orig
           z == k + 1
           u == Upto(d, i - 1)
           P == PlainTo(d, i - 1)
           c == MaskedTo(d, Len(d))[p]
<1>1. /\ d[i].fake = Copied /\ p = 1 + u + k /\ r = Join(P, SubSeq(o, 1, k))
  BY DEF Amid
<1>2. /\ o \in Seq(Characters) /\ Len(o) \in Nat \ {0} /\ Shown(d[i]) = o
      /\ Len(d) \in Nat
  BY <1>1, PieceFacts
<1>3. /\ i - 1 \in 0..Len(d) /\ i \in 0..Len(d) /\ Len(d) \in 0..Len(d)
      /\ i <= Len(d)
  BY <1>2
<1>4. u \in Nat /\ P \in Seq(Characters)
  BY <1>3, MaskedPlaces, PlainPlaces
<1>5. /\ Upto(d, i) = u + Len(o)
      /\ Upto(d, i) <= Upto(d, Len(d)) /\ Upto(d, Len(d)) \in Nat
  BY <1>2, <1>3, OffsetsHold DEF Offsets
<1>6. k \in Nat /\ z \in 1..Len(o) /\ z - 1 = k
  BY <1>2
<1>7. p = u + z
  BY <1>1, <1>4, <1>6
<1>8. \A x \in 1..Len(o) : MaskedTo(d, Len(d))[u + x] = o[x]
  <2>1. \A x \in 1..Len(Shown(d[i])) :
          MaskedTo(d, Len(d))[Upto(d, i - 1) + x] = Shown(d[i])[x]
    BY MaskedPlaces
  <2> QED  BY <1>2, <2>1
<1> HIDE DEF u, P, z, o
<1>9. c = o[z]
  BY <1>6, <1>7, <1>8
<1>10. p <= Upto(d, Len(d))
  <2> DEFINE w == Upto(d, Len(d))
             v == Upto(d, i)
             l == Len(o)
  <2>1. v = u + l /\ v <= w /\ w \in Nat /\ l \in Nat /\ z \in 1..l
    BY <1>2, <1>5, <1>6
  <2> HIDE DEF w, v, l
  <2>2. p <= w
    BY <1>4, <1>7, <2>1
  <2> QED  BY <2>2 DEF w
<1>11. p + 1 = 1 + u + z
  BY <1>4, <1>6, <1>7
<1> HIDE DEF c
<1>12. Append(r, c) = Join(P, SubSeq(o, 1, z))
  <2> DEFINE a == SubSeq(o, 1, k)
             b == SubSeq(o, 1, z)
  <2>1. /\ a \in Seq(Characters) /\ Len(a) = k
        /\ \A x \in 1..k : a[x] = o[x]
    BY <1>2, <1>6
  <2>2. /\ b \in Seq(Characters) /\ Len(b) = z
        /\ \A x \in 1..z : b[x] = o[x]
    BY <1>2, <1>6
  <2>3. c \in Characters
    BY <1>2, <1>6, <1>9
  <2> HIDE DEF a, b
  <2>4. b = Append(a, c)
    <3>1. Append(a, c) \in Seq(Characters) /\ Len(Append(a, c)) = z
      BY <1>6, <2>1, <2>3 DEF z
    <3>2. \A x \in 1..z : Append(a, c)[x] = b[x]
      <4>1. ASSUME NEW x \in 1..z
            PROVE  Append(a, c)[x] = b[x]
        <5>1. CASE x \in 1..k
          BY <2>1, <2>2, <2>3, <5>1
        <5>2. CASE x \notin 1..k
          <6>1. x = z /\ x = k + 1
            BY <1>6, <5>2
          <6> QED  BY <1>9, <2>1, <2>2, <2>3, <6>1
        <5> QED  BY <5>1, <5>2
      <4> QED  BY <4>1
    <3> DEFINE e == Append(a, c)
    <3> HIDE DEF e
    <3>3. e \in Seq(Characters) /\ Len(e) = Len(b) /\ \A x \in 1..Len(b) : e[x] = b[x]
      BY <2>2, <3>1, <3>2 DEF e
    <3>4. e = b
      BY <2>2, <3>3
    <3> QED  BY <3>4 DEF e
  <2>5. r = P \o a
    BY <1>1 DEF Join, a
  <2>6. Append(P \o a, c) = P \o Append(a, c)
    BY <1>4, <2>1, <2>3
  <2> QED  BY <2>4, <2>5, <2>6 DEF Join, b
<1>13. CASE z = Len(o)
  <2>1. SubSeq(o, 1, z) = o
    BY <1>2, <1>13
  <2>2. Append(r, c) = PlainTo(d, i)
    BY <1>12, <2>1, PlainPlaces DEF o, P
  <2>3. p + 1 = 1 + Upto(d, i)
    BY <1>2, <1>4, <1>5, <1>11, <1>13
  <2>4. InStep(d, p + 1, Append(r, c))
    BY <1>3, <2>2, <2>3, EdgeInStep
  <2> QED  BY <1>10, <2>4 DEF c
<1>14. CASE z # Len(o)
  <2>1. z \in 0..(Len(o) - 1)
    BY <1>2, <1>6, <1>14
  <2>2. Amid(d, i, z, p + 1, Append(r, c))
    BY <1>1, <1>11, <1>12 DEF Amid, o, P, u
  <2>3. InStep(d, p + 1, Append(r, c))
    BY <2>1, <2>2 DEF InStep, o
  <2> QED  BY <1>10, <2>3 DEF c
<1> QED  BY <1>13, <1>14

LEMMA ReplaceKeeps ==
  ASSUME doc \in Documents, Legible, KeysOK(doc, pairs),
         InStep(doc, pos, restored), Replace
  PROVE  InStep(doc, pos', restored')
<1>1. PICK k \in Matching : /\ \A j \in Matching : k <= j
                            /\ restored' = restored \o pairs[k][2]
                            /\ pos' = pos + Len(pairs[k][1])
  BY DEF Replace
<1>2. PICK i \in 1..Len(doc) : AtFake(doc, i, pos, restored)
  BY <1>1, NothingReplaced DEF InStep
<1>3. pairs[k] = <<doc[i].fake, doc[i].orig>>
  BY <1>1, <1>2, FakeReplaced
<1>4. /\ doc[i].fake # Copied
      /\ pos = 1 + Upto(doc, i - 1) /\ restored = PlainTo(doc, i - 1)
  BY <1>2 DEF AtFake
<1>5. restored' = PlainTo(doc, i)
  <2>1. restored' = Join(restored, doc[i].orig)
    BY <1>1, <1>3 DEF Join
  <2> QED  BY <1>4, <2>1, PlainPlaces
<1>6. pos' = 1 + Upto(doc, i)
  <2>1. /\ Upto(doc, i) = Upto(doc, i - 1) + Len(Shown(doc[i]))
        /\ Len(Shown(doc[i])) \in Nat
    BY OffsetsHold DEF Offsets
  <2>2. Shown(doc[i]) = doc[i].fake /\ Len(doc) \in Nat
    BY <1>4, PieceFacts
  <2>3. i - 1 \in 0..Len(doc)
    BY <2>2
  <2>4. Upto(doc, i - 1) \in Nat
    BY <2>3, OffsetsHold DEF Offsets
  <2>5. pos' = 1 + Upto(doc, i - 1) + Len(Shown(doc[i]))
    BY <1>1, <1>3, <1>4, <2>2
  <2> QED  BY <2>1, <2>4, <2>5
<1>7. i \in 0..Len(doc)
  BY PieceFacts
<1> QED  BY <1>5, <1>6, <1>7, EdgeInStep

LEMMA CopyKeeps ==
  ASSUME doc \in Documents, Legible, KeysOK(doc, pairs),
         InStep(doc, pos, restored), Copy1
  PROVE  InStep(doc, pos', restored')
<1>1. /\ pos <= Len(MaskedText) /\ Matching = {}
      /\ restored' = Append(restored, MaskedText[pos]) /\ pos' = pos + 1
  BY DEF Copy1
<1>2. /\ MaskedText = MaskedTo(doc, Len(doc))
      /\ Len(MaskedText) = Upto(doc, Len(doc))
  BY TheMask
<1>3. ~AtEnd(doc, pos, restored)
  <2>1. Len(MaskedText) \in Nat
    BY TheMask
  <2> QED  BY <1>1, <1>2, <2>1 DEF AtEnd
<1>4. ASSUME NEW i \in 1..Len(doc)
      PROVE  ~AtFake(doc, i, pos, restored)
  BY <1>1, FakeReplaced
<1>5. PICK i \in 1..Len(doc) : \E k \in 0..(Len(doc[i].orig) - 1) :
        Amid(doc, i, k, pos, restored)
  BY <1>3, <1>4 DEF InStep
<1>6. PICK k \in 0..(Len(doc[i].orig) - 1) : Amid(doc, i, k, pos, restored)
  BY <1>5
<1> QED  BY <1>1, <1>2, <1>6, CharacterCopied

LEMMA EndRestores ==
  ASSUME doc \in Documents, Legible, KeysOK(doc, pairs),
         InStep(doc, pos, restored), EndReplace
  PROVE  restored = Original
<1>1. pos > Len(MaskedText)
  BY DEF EndReplace
<1>2. /\ Original = PlainTo(doc, Len(doc))
      /\ Len(MaskedText) = Upto(doc, Len(doc)) /\ Len(MaskedText) \in Nat
  BY TheMask
<1>3. ASSUME NEW i \in 1..Len(doc), AtFake(doc, i, pos, restored)
      PROVE  FALSE
  <2>1. Matching # {}
    BY <1>3, FakeReplaced
  <2>2. PICK k \in Matching : TRUE
    BY <2>1
  <2>3. pairs[k] \in Pairs(doc) /\ Occurs(pairs[k][1], pos)
    BY <2>2 DEF Matching, KeysOK
  <2>4. PICK j \in 1..Len(doc) :
          doc[j].fake # Copied /\ pairs[k] = <<doc[j].fake, doc[j].orig>>
    BY <2>3, PairsAre
  <2>5. Len(pairs[k][1]) \in Nat \ {0}
    BY <2>4, PieceFacts
  <2>6. pos + Len(pairs[k][1]) - 1 <= Len(MaskedText)
    BY <2>3 DEF Occurs
  <2>7. pos \in Nat
    <3>1. pos = 1 + Upto(doc, i - 1) /\ Len(doc) \in Nat
      BY <1>3, PieceFacts DEF AtFake
    <3>2. i - 1 \in 0..Len(doc)
      BY <3>1
    <3>3. Upto(doc, i - 1) \in Nat
      BY <3>2, OffsetsHold DEF Offsets
    <3> QED  BY <3>1, <3>3
  <2> QED  BY <1>1, <1>2, <2>5, <2>6, <2>7
<1>4. ASSUME NEW i \in 1..Len(doc), NEW k \in 0..(Len(doc[i].orig) - 1),
             Amid(doc, i, k, pos, restored)
      PROVE  FALSE
  <2>1. pos <= Upto(doc, Len(doc))
    BY <1>4, CharacterCopied
  <2>2. pos \in Nat
    <3>1. pos = 1 + Upto(doc, i - 1) + k /\ Len(doc) \in Nat
      BY <1>4, PieceFacts DEF Amid
    <3>2. i - 1 \in 0..Len(doc)
      BY <3>1
    <3>3. Upto(doc, i - 1) \in Nat
      BY <3>2, OffsetsHold DEF Offsets
    <3> QED  BY <3>1, <3>3
  <2> QED  BY <1>1, <1>2, <2>1, <2>2
<1>5. AtEnd(doc, pos, restored)
  BY <1>3, <1>4 DEF InStep
<1> QED  BY <1>2, <1>5 DEF AtEnd

LEMMA SpellingStep == SpellingInv /\ [SpellingNext]_spellingVars => SpellingInv'
<1> SUFFICES ASSUME SpellingInv, [SpellingNext]_spellingVars
             PROVE  SpellingInv'
  OBVIOUS
<1>1. doc \in Documents
  BY DEF SpellingInv
<1>2. doc' = doc
  BY DEF SpellingNext, SortKeys, Replace, Copy1, EndReplace, spellingVars
<1>3. Legible' <=> Legible
  BY <1>2 DEF Legible, Within, StartOf, Occurs, MaskedText
<1>4. Original' = Original
  BY <1>2 DEF Original
<1>5. CASE SortKeys
  <2>1. /\ demask' = "replace" /\ pos' = 1 /\ restored' = << >>
        /\ pairs' \in SetToSeqs(Pairs(doc)) /\ Sorted(pairs')
    BY <1>5 DEF SortKeys, SpellingInv
  <2>2. KeysOK(doc, pairs')
    BY <1>1, <2>1, KeysSorted
  <2>3. InStep(doc, 1, << >>)
    <3>1. Upto(doc, 0) = 0 /\ PlainTo(doc, 0) = << >>
      BY <1>1, MaskedPlaces, PlainPlaces
    <3>2. 0 \in 0..Len(doc) /\ 1 + 0 = 1
      BY <1>1, PieceFacts
    <3>3. InStep(doc, 1 + Upto(doc, 0), PlainTo(doc, 0))
      BY <1>1, <3>2, EdgeInStep
    <3> QED  BY <3>1, <3>2, <3>3
  <2> QED  BY <1>1, <1>2, <2>1, <2>2, <2>3 DEF SpellingInv, SpelledRoundTrip
<1>6. CASE Replace \/ Copy1
  <2>1. demask = "replace" /\ demask' = "replace" /\ pairs' = pairs
    BY <1>6 DEF Replace, Copy1
  <2>2. KeysOK(doc, pairs) /\ (Legible => InStep(doc, pos, restored))
    BY <2>1 DEF SpellingInv
  <2>3. Legible => InStep(doc, pos', restored')
    BY <1>1, <1>6, <2>2, ReplaceKeeps, CopyKeeps
  <2> QED  BY <1>1, <1>2, <1>3, <2>1, <2>2, <2>3
           DEF SpellingInv, SpelledRoundTrip
<1>7. CASE EndReplace
  <2>1. /\ demask = "replace" /\ demask' = "restored" /\ restored' = restored
    BY <1>7 DEF EndReplace
  <2>2. KeysOK(doc, pairs) /\ (Legible => InStep(doc, pos, restored))
    BY <2>1 DEF SpellingInv
  <2>3. Legible => restored = Original
    BY <1>1, <1>7, <2>2, EndRestores
  <2> QED  BY <1>1, <1>2, <1>3, <1>4, <2>1, <2>3
           DEF SpellingInv, SpelledRoundTrip
<1>8. CASE UNCHANGED spellingVars
  <2>1. /\ pairs' = pairs /\ pos' = pos /\ restored' = restored
        /\ demask' = demask
    BY <1>8 DEF spellingVars
  <2> QED  BY <1>2, <1>3, <1>4, <2>1 DEF SpellingInv, SpelledRoundTrip
<1> QED  BY <1>5, <1>6, <1>7, <1>8 DEF SpellingNext

\* For every document, whatever replacements spell and however keys of one
\* length are sorted, strings.Replacer restores the document character by
\* character, if its replacements are spelled nowhere else in the mask.
THEOREM SpellingRestored == SpellingSpec => []SpelledRoundTrip
<1>1. SpellingInit => SpellingInv
  BY DEF SpellingInit, SpellingInv, SpelledRoundTrip
<1>2. SpellingInv => SpelledRoundTrip
  BY DEF SpellingInv
<1> QED  BY <1>1, <1>2, SpellingStep, PTL DEF SpellingSpec

----------------------------------------------------------------------------
(* Masking word by word.                                                   *)

USE MaskingAssumption

----------------------------------------------------------------------------
(* Counters.                                                               *)

\* The counter of a detected word counts finitely many words.
LEMMA CounterFinite ==
  ASSUME NEW text \in Text, NEW D \in SUBSET DOMAIN text, NEW i \in D
  PROVE  /\ IsFiniteSet({m \in D : m <= i /\ Sees(text, m) = Sees(text, i)})
         /\ Counter(text, D, i) \in Nat
<1> DEFINE C == {m \in D : m <= i /\ Sees(text, m) = Sees(text, i)}
<1>1. DOMAIN text = 1..Len(text) /\ Len(text) \in Nat
  BY DEF Text
<1>2. IsFiniteSet(1..Len(text)) /\ C \subseteq 1..Len(text)
  BY <1>1, FS_Interval
<1>3. IsFiniteSet(C)
  BY <1>2, FS_Subset
<1> QED  BY <1>3, FS_CardinalityType DEF Counter

\* Two words of one type have different counters
\* (counters[span.Type]++ in Mask).
LEMMA CountersDiffer ==
  ASSUME NEW text \in Text, NEW D \in SUBSET DOMAIN text,
         NEW i \in D, NEW j \in D, Sees(text, i) = Sees(text, j), i < j
  PROVE  Counter(text, D, i) # Counter(text, D, j)
<1> DEFINE C(k) == {m \in D : m <= k /\ Sees(text, m) = Sees(text, k)}
<1>1. DOMAIN text = 1..Len(text) /\ Len(text) \in Nat
  BY DEF Text
<1>2. IsFiniteSet(C(j))
  BY CounterFinite
<1>3. C(i) \subseteq C(j) /\ j \in C(j) /\ j \notin C(i)
  BY <1>1
<1>4. SUFFICES ASSUME Cardinality(C(i)) = Cardinality(C(j))
               PROVE  FALSE
  BY DEF Counter
<1>5. C(i) = C(j)
  BY <1>2, <1>3, <1>4, FS_Subset
<1> QED  BY <1>5, <1>3

----------------------------------------------------------------------------
(* The synthetic strategy.                                                 *)

\* A made-up value has its type, is no value and, if there is one, is unused
\* (synthValue's loop leaves by an unused value only).
LEMMA SynthValueFacts ==
  ASSUME NEW t \in Types, NEW c \in Nat, NEW used
  PROVE  LET w == SynthValue(t, c, used)
         IN /\ w \in Word
            /\ w.type = t
            /\ w.kind \in {"token", "fake", "stuck"}
            /\ t \in Ungenerated => w = Token(t, c)
            /\ t \notin Ungenerated => w.kind \in {"fake", "stuck"}
            /\ w.kind = "fake" => w \notin used
<1> DEFINE try(k) == Fake(t, (c + k) % Pool[t])
           free == {k \in 0..(Pool[t] - 1) : try(k) \notin used}
           first == CHOOSE k \in free : \A m \in free : k <= m
<1>1. CASE t \in Ungenerated
  <2>1. SynthValue(t, c, used) = Token(t, c)
    BY <1>1 DEF SynthValue
  <2> QED  BY <1>1, <2>1 DEF Token, Word, Kinds
<1>2. CASE t \notin Ungenerated /\ free = {}
  <2>1. SynthValue(t, c, used) = Stuck(t)
    BY <1>2 DEF SynthValue
  <2> QED  BY <1>2, <2>1 DEF Stuck, Word, Kinds
<1>3. CASE t \notin Ungenerated /\ free # {}
  <2>1. SynthValue(t, c, used) = try(first)
    BY <1>3 DEF SynthValue
  <2>2. free \in SUBSET Nat
    OBVIOUS
  <2>3. first \in free
    <3> HIDE DEF free
    <3> QED  BY <1>3, <2>2, Least
  <2>4. try(first) \notin used /\ first \in Nat
    <3> HIDE DEF first
    <3> QED  BY <2>3
  <2>5. (c + first) % Pool[t] \in Nat
    <3>1. Pool[t] \in Nat \ {0}
      OBVIOUS
    <3> HIDE DEF first
    <3> QED  BY <2>4, <3>1
  <2> HIDE DEF first
  <2> QED  BY <1>3, <2>1, <2>4, <2>5 DEF Fake, Word, Kinds
<1> QED  BY <1>1, <1>2, <1>3

\* Each detected word gets the value made for its type and counter that no
\* word in front of it has got (the loop of MaskSynthetic and its used map).
LEMMA SyntheticEquation ==
  ASSUME NEW text \in Text, NEW D \in SUBSET DOMAIN text,
         \A i \in D : Sees(text, i) \in Types
  PROVE  LET W == SyntheticWords(text, D)
         IN /\ DOMAIN W = D
            /\ \A i \in D :
                 W[i] = SynthValue(Sees(text, i), Counter(text, D, i),
                                   {W[j] : j \in {k \in D : k < i}})
<1> DEFINE N == Len(text)
           new(n, before) ==
             IF n \in D
             THEN SynthValue(Sees(text, n), Counter(text, D, n),
                             {before[i] : i \in D \cap DOMAIN before})
             ELSE text[n]
           Fills(f) == f = [n \in 0..N |->
                              IF n = 0 THEN << >>
                              ELSE Append(f[n - 1], new(n, f[n - 1]))]
           fill == CHOOSE f : Fills(f)
           step == [p \in (1..N) \X Seq(Word) |-> Append(p[2], new(p[1], p[2]))]
<1>1. SyntheticWords(text, D) = [i \in D |-> fill[N][i]]
  BY DEF SyntheticWords
<1>2. N \in Nat /\ DOMAIN text = 1..N /\ \A n \in 1..N : text[n] \in Word
  BY DEF Text
<1>3. ASSUME NEW n \in 1..N, NEW before
      PROVE  new(n, before) \in Word
  <2>1. CASE n \in D
    BY <2>1, SynthValueFacts, CounterFinite
  <2>2. CASE n \notin D
    BY <1>2, <2>2 DEF Word
  <2> QED  BY <2>1, <2>2
<1> HIDE DEF new
<1>4. step \in [(1..N) \X Seq(Word) -> Seq(Word)]
  BY <1>3
<1>5. \E f : Fills(f)
  <2> DEFINE a == << >>
             V == Seq(Word)
  <2>1. a \in V /\ step \in [(1..N) \X V -> V]
    BY <1>4
  <2>2. PICK g : Recurs(g, N, V, a, step)
    <3>1. N \in Nat
      BY <1>2
    <3> HIDE DEF N, step, a, V
    <3>2. a \in V
      BY <2>1
    <3>3. step \in [(1..N) \X V -> V]
      BY <2>1
    <3> QED  BY <3>1, <3>2, <3>3, Recursion
  <2>3. ASSUME NEW n \in 1..N
        PROVE  g[n] = Append(g[n - 1], new(n, g[n - 1]))
    <3>1. g[n - 1] \in Seq(Word)
      BY <1>2, <2>2, SMTT(20) DEF Recurs
    <3>2. step[<<n, g[n - 1]>>] = Append(g[n - 1], new(n, g[n - 1]))
      BY <3>1 DEF step
    <3> QED  BY <2>2, <3>2 DEF Recurs
  <2>4. Fills(g)
    BY <1>2, <2>2, <2>3 DEF Recurs
  <2> QED  BY <2>4
<1>6. Fills(fill)
  BY <1>5
<1> HIDE DEF fill
<1>7. /\ fill[0] = << >>
      /\ \A n \in 1..N : fill[n] = Append(fill[n - 1], new(n, fill[n - 1]))
  <2>1. 0 \in 0..N /\ \A n \in 1..N : n \in 0..N /\ n # 0
    BY <1>2
  <2> QED  BY <1>6, <2>1
<1> DEFINE Built(n) == /\ fill[n] \in Seq(Word)
                       /\ Len(fill[n]) = n
                       /\ \A i \in 1..n : fill[n][i] = fill[i][i]
           T == {n \in Nat : n <= N => Built(n)}
<1>8. T = Nat
  <2>1. 0 \in T
    <3>1. fill[0] \in Seq(Word) /\ Len(fill[0]) = 0
      BY <1>7
    <3> QED  BY <3>1
  <2>2. ASSUME NEW n \in T
        PROVE  n + 1 \in T
    <3>1. SUFFICES ASSUME n + 1 <= N
                   PROVE  Built(n + 1)
      <4> HIDE DEF Built
      <4> QED  OBVIOUS
    <3>2. n \in Nat /\ n <= N /\ n + 1 \in 1..N
      BY <1>2, <3>1
    <3>3. /\ fill[n] \in Seq(Word)
          /\ Len(fill[n]) = n
          /\ \A i \in 1..n : fill[n][i] = fill[i][i]
      BY <3>2
    <3>4. fill[n + 1] = Append(fill[n], new(n + 1, fill[n]))
      BY <1>7, <3>2
    <3>5. new(n + 1, fill[n]) \in Word
      BY <1>3, <3>2
    <3>6. fill[n + 1] \in Seq(Word) /\ Len(fill[n + 1]) = n + 1
      BY <3>2, <3>3, <3>4, <3>5
    <3>7. \A i \in 1..n : fill[n + 1][i] = fill[n][i]
      BY <3>2, <3>3, <3>4, <3>5
    <3> QED  BY <3>2, <3>3, <3>6, <3>7
  <2> HIDE DEF T
  <2>3. T \in SUBSET Nat
    BY DEF T
  <2> QED  BY <2>1, <2>2, <2>3, SetInduction
<1>9. \A n \in 0..N : Built(n)
  <2>1. ASSUME NEW n \in 0..N
        PROVE  n \in T /\ n <= N
    <3> HIDE DEF T
    <3> QED  BY <1>8, <1>2
  <2> HIDE DEF Built
  <2> QED  BY <2>1
<1> HIDE DEF T
<1> DEFINE W == SyntheticWords(text, D)
<1>10. \A i \in D : W[i] = fill[i][i]
  <2>1. \A i \in D : i \in 1..N /\ N \in 0..N
    BY <1>2
  <2> QED  BY <1>1, <1>9, <2>1
<1>11. ASSUME NEW i \in D
       PROVE  W[i] = SynthValue(Sees(text, i), Counter(text, D, i),
                                {W[j] : j \in {k \in D : k < i}})
  <2>1. i \in 1..N /\ i - 1 \in 0..N
    BY <1>2
  <2> DEFINE before == fill[i - 1]
  <2>2. /\ before \in Seq(Word) /\ Len(before) = i - 1
        /\ \A j \in 1..(i - 1) : before[j] = fill[j][j]
    BY <1>9, <2>1
  <2>3. new(i, before) \in Word
    BY <1>3, <2>1
  <2>4. fill[i][i] = new(i, before)
    <3>1. fill[i] = Append(before, new(i, before))
      BY <1>7, <2>1
    <3> HIDE DEF before
    <3> QED  BY <2>1, <2>2, <2>3, <3>1
  <2>5. D \cap DOMAIN before = {k \in D : k < i}
    <3> HIDE DEF before
    <3> QED  BY <1>2, <2>1, <2>2
  <2>6. \A j \in {k \in D : k < i} : before[j] = W[j]
    <3>1. \A j \in {k \in D : k < i} : j \in 1..(i - 1)
      BY <1>2, <2>1
    <3> HIDE DEF before, W
    <3> QED  BY <1>10, <2>2, <3>1
  <2>7. {before[j] : j \in D \cap DOMAIN before} = {W[j] : j \in {k \in D : k < i}}
    <3> HIDE DEF before, W
    <3> QED  BY <2>5, <2>6
  <2>8. new(i, before) = SynthValue(Sees(text, i), Counter(text, D, i),
                              {before[j] : j \in D \cap DOMAIN before})
    BY DEF new
  <2> HIDE DEF before, W
  <2> QED  BY <1>10, <2>4, <2>7, <2>8
<1> QED  BY <1>1, <1>11
----------------------------------------------------------------------------
(* The words that mask a text, whatever the strategy.                      *)

\* A text is a sequence of words.
LEMMA TextWords ==
  ASSUME NEW text \in Text, NEW i \in DOMAIN text
  PROVE  text[i] \in Word /\ text[i].type \in Types \cup {NoType}
<1>1. text[i] \in Word
  BY DEF Text
<1> QED  BY <1>1 DEF Word

\* What is detected stands in the text and has a type.
LEMMA DetectedPlaces ==
  ASSUME NEW text, NEW o
  PROVE  /\ Detected(text, o) \in SUBSET DOMAIN text
         /\ \A i \in Detected(text, o) : Sees(text, i) \in Types
BY DEF Detected

\* The strategies write placeholders, fakes and asterisks, never a client's
\* value; only fakes look like values to the detectors.
LEMMA ReplacementKinds ==
  ASSUME NEW text \in Text, NEW o \in Options, NEW i \in Detected(text, o)
  PROVE  LET w == MaskedWords(text, o)[i]
         IN /\ w \in Word
            /\ w.kind \in {"token", "fake", "stars", "stuck"}
            /\ o.strategy # "synthetic" => w.kind \in {"token", "stars"}
            /\ o.strategy # "asterisks" => w.type = Sees(text, i)
<1> DEFINE D == Detected(text, o)
<1>1. D \in SUBSET DOMAIN text /\ \A k \in D : Sees(text, k) \in Types
  BY DetectedPlaces
<1>2. CASE o.strategy = "token"
  <2>1. MaskedWords(text, o)[i] = Token(Sees(text, i), Counter(text, D, i))
    BY <1>2 DEF MaskedWords, TokenWords
  <2>2. Sees(text, i) \in Types /\ Counter(text, D, i) \in Nat
    BY <1>1, CounterFinite
  <2> HIDE DEF D
  <2> QED  BY <1>2, <2>1, <2>2 DEF Token, Word, Kinds
<1>3. CASE o.strategy = "asterisks"
  <2>1. MaskedWords(text, o)[i] = Stars(text[i])
    BY <1>3 DEF MaskedWords, StarWords
  <2>2. text[i].type \in Types \cup {NoType}
    BY <1>1, TextWords
  <2> HIDE DEF D
  <2> QED  BY <1>3, <2>1, <2>2 DEF Stars, Word, Kinds
<1>4. CASE o.strategy = "synthetic"
  <2>1. MaskedWords(text, o) = SyntheticWords(text, D)
    BY <1>4 DEF MaskedWords
  <2> HIDE DEF D
  <2>2. i \in D /\ Sees(text, i) \in Types
    BY <1>1 DEF D
  <2>3. Counter(text, D, i) \in Nat
    BY <1>1, <2>2, CounterFinite
  <2> DEFINE W == SyntheticWords(text, D)
             used == {W[j] : j \in {k \in D : k < i}}
  <2>4. W[i] = SynthValue(Sees(text, i), Counter(text, D, i), used)
    <3>1. \A n \in D : W[n] = SynthValue(Sees(text, n), Counter(text, D, n),
                                        {W[j] : j \in {k \in D : k < n}})
      BY <1>1, SyntheticEquation
    <3> HIDE DEF W
    <3> QED  BY <2>2, <3>1
  <2> HIDE DEF W, used
  <2> QED  BY <1>4, <2>1, <2>2, <2>3, <2>4, SynthValueFacts DEF W
<1> QED  BY <1>2, <1>3, <1>4 DEF Options, Strategies

\* Two made-up values are different unless the pool is used up.
LEMMA FakesDistinct ==
  ASSUME NEW text \in Text, NEW D \in SUBSET DOMAIN text,
         \A i \in D : Sees(text, i) \in Types,
         NEW i \in D, NEW j \in D, i < j,
         SyntheticWords(text, D)[j].kind # "stuck"
  PROVE  SyntheticWords(text, D)[i] # SyntheticWords(text, D)[j]
<1> DEFINE W == SyntheticWords(text, D)
           m == Counter(text, D, i)
           n == Counter(text, D, j)
           before(k) == {W[l] : l \in {h \in D : h < k}}
<1>1. m \in Nat /\ n \in Nat
  BY CounterFinite
<1>2. \A k \in D : W[k] = SynthValue(Sees(text, k), Counter(text, D, k), before(k))
  BY SyntheticEquation
<1>3. /\ W[i] = SynthValue(Sees(text, i), m, before(i))
      /\ W[j] = SynthValue(Sees(text, j), n, before(j))
  <2> HIDE DEF W
  <2> QED  BY <1>2
<1>4. W[j].kind # "stuck" /\ (Sees(text, i) = Sees(text, j) => m # n)
  BY CountersDiffer
<1> HIDE DEF W, m, n
<1>5. W[i].type = Sees(text, i) /\ W[j].type = Sees(text, j)
  BY <1>1, <1>3, SynthValueFacts
<1>6. SUFFICES ASSUME W[i] = W[j]
               PROVE  FALSE
  BY DEF W
<1>7. Sees(text, i) = Sees(text, j)
  BY <1>5, <1>6
<1>8. CASE Sees(text, i) \in Ungenerated
  <2>1. W[i] = Token(Sees(text, i), m) /\ W[j] = Token(Sees(text, j), n)
    BY <1>1, <1>3, <1>7, <1>8, SynthValueFacts
  <2>2. W[i].num = m /\ W[j].num = n
    BY <2>1 DEF Token
  <2> QED  BY <1>4, <1>6, <1>7, <2>2
<1>9. CASE Sees(text, i) \notin Ungenerated
  <2>1. W[j].kind = "fake"
    BY <1>1, <1>3, <1>4, <1>7, <1>9, SynthValueFacts
  <2>2. W[j] \notin before(j)
    BY <1>1, <1>3, <2>1, SynthValueFacts
  <2> QED  BY <1>6, <2>2
<1> QED  BY <1>8, <1>9

\* Different detected words get different replacements, except asterisks
\* (counters of Mask, used map of MaskSynthetic).
LEMMA ReplacementsDistinct ==
  ASSUME NEW text \in Text, NEW o \in Options, o.strategy # "asterisks",
         ~Hangs(text, o),
         NEW i \in Detected(text, o), NEW j \in Detected(text, o),
         MaskedWords(text, o)[i] = MaskedWords(text, o)[j]
  PROVE  i = j
<1> DEFINE D == Detected(text, o)
           W == MaskedWords(text, o)
<1>1. D \in SUBSET DOMAIN text /\ \A k \in D : Sees(text, k) \in Types
  BY DetectedPlaces
<1>2. i \in Nat /\ j \in Nat
  BY <1>1 DEF Text
<1>3. ASSUME NEW k \in D, NEW m \in D, k < m
      PROVE  W[k] # W[m]
  <2>1. CASE o.strategy = "token"
    <3>1. /\ W[k] = Token(Sees(text, k), Counter(text, D, k))
          /\ W[m] = Token(Sees(text, m), Counter(text, D, m))
      BY <2>1 DEF MaskedWords, TokenWords
    <3>2. Sees(text, k) = Sees(text, m)
             => Counter(text, D, k) # Counter(text, D, m)
      <4> HIDE DEF D
      <4> QED  BY <1>1, <1>3, CountersDiffer
    <3> HIDE DEF D, W
    <3> QED  BY <3>1, <3>2 DEF Token
  <2>2. CASE o.strategy = "synthetic"
    <3>1. W = SyntheticWords(text, D)
      BY <2>2 DEF MaskedWords
    <3>2. W[m].kind # "stuck"
      BY DEF Hangs
    <3> HIDE DEF D, W
    <3> QED  BY <1>1, <1>3, <3>1, <3>2, FakesDistinct
  <2> QED  BY <2>1, <2>2 DEF Options, Strategies
<1>4. ~(i < j) /\ ~(j < i)
  <2>1. i \in D /\ j \in D /\ W[i] = W[j]
    OBVIOUS
  <2> HIDE DEF D, W
  <2> QED  BY <1>3, <2>1
<1> QED  BY <1>2, <1>4

----------------------------------------------------------------------------
(* The mask and the mapping.                                               *)

\* The masking of one word (Mask, MaskSynthetic, MaskAsterisks).
LEMMA WordsMasked ==
  ASSUME NEW text, NEW o
  PROVE  /\ DOMAIN MaskText(text, o) = DOMAIN text
         /\ \A i \in DOMAIN text :
              MaskText(text, o)[i] = IF i \in Detected(text, o)
                                     THEN MaskedWords(text, o)[i]
                                     ELSE text[i]
BY DEF MaskText

\* Where nothing is detected nothing is changed.
LEMMA NothingMasked ==
  ASSUME NEW text \in Text, NEW o, Detected(text, o) = {}
  PROVE  MaskText(text, o) = text
<1>1. text = [i \in DOMAIN text |-> text[i]]
  BY DEF Text
<1>2. MaskText(text, o) = [i \in DOMAIN text |-> text[i]]
  BY DEF MaskText
<1> QED  BY <1>1, <1>2

\* Every replacement maps to the word it replaced (mapping in Mask and
\* MaskSynthetic); asterisks keep no mapping.
LEMMA MappingFacts ==
  ASSUME NEW text \in Text, NEW o \in Options, ~Hangs(text, o)
  PROVE  LET W == MaskedWords(text, o)
             D == Detected(text, o)
         IN /\ o.strategy = "asterisks" => DOMAIN Mapping(text, o) = {}
            /\ o.strategy # "asterisks" =>
                 /\ DOMAIN Mapping(text, o) = {W[i] : i \in D}
                 /\ \A i \in D : Mapping(text, o)[W[i]] = text[i]
<1> DEFINE D == Detected(text, o)
           W == MaskedWords(text, o)
<1>1. CASE o.strategy = "asterisks"
  BY <1>1 DEF Mapping
<1>2. CASE o.strategy # "asterisks"
  <2>1. Mapping(text, o) = [w \in {W[i] : i \in D} |->
                              text[CHOOSE i \in D : W[i] = w]]
    BY <1>2 DEF Mapping
  <2>2. ASSUME NEW i \in D
        PROVE  Mapping(text, o)[W[i]] = text[i]
    <3>1. \A j \in D : W[j] = W[i] => j = i
      BY <1>2, ReplacementsDistinct
    <3>2. (CHOOSE j \in D : W[j] = W[i]) = i
      BY <3>1
    <3> HIDE DEF D, W
    <3> QED  BY <2>1, <3>2
  <2>3. DOMAIN Mapping(text, o) = {W[i] : i \in D}
    <3> HIDE DEF D, W
    <3> QED  BY <2>1
  <2> QED  BY <1>2, <2>2, <2>3
<1> QED  BY <1>1, <1>2

----------------------------------------------------------------------------
(* Texts go in and texts come out, and no value is made up.                *)

\* A mask is a text.
LEMMA MaskIsText ==
  ASSUME NEW text \in Text, NEW o \in Options
  PROVE  MaskText(text, o) \in Text
<1> DEFINE D == Detected(text, o)
           W == MaskedWords(text, o)
           M == MaskText(text, o)
<1>1. DOMAIN M = 1..Len(text) /\ DOMAIN text = 1..Len(text) /\ Len(text) \in Nat
  BY WordsMasked DEF Text
<1>2. ASSUME NEW i \in DOMAIN text
      PROVE  M[i] \in Word
  <2>1. M[i] = IF i \in D THEN W[i] ELSE text[i]
    BY WordsMasked
  <2>2. text[i] \in Word
    BY TextWords
  <2>3. i \in D => W[i] \in Word
    BY ReplacementKinds
  <2> HIDE DEF D, W, M
  <2> QED  BY <2>1, <2>2, <2>3
<1>3. M = [i \in DOMAIN text |-> M[i]]
  BY DEF MaskText
<1> HIDE DEF M
<1>4. M \in [1..Len(text) -> Word]
  BY <1>1, <1>2, <1>3
<1> QED  BY <1>1, <1>4 DEF M, Text

\* A mapping restores words.
LEMMA MappingToWords ==
  ASSUME NEW text \in Text, NEW o \in Options,
         NEW w \in DOMAIN Mapping(text, o)
  PROVE  Mapping(text, o)[w] \in Word
<1> DEFINE D == Detected(text, o)
           W == MaskedWords(text, o)
           keys == IF o.strategy = "asterisks" THEN {} ELSE {W[i] : i \in D}
           first == CHOOSE i \in D : W[i] = w
<1>1. Mapping(text, o) = [v \in keys |-> text[CHOOSE i \in D : W[i] = v]]
  BY DEF Mapping
<1>2. w \in keys
  <2> HIDE DEF D, W, keys
  <2> QED  BY <1>1
<1>3. \E i \in D : W[i] = w
  <2> HIDE DEF D, W
  <2> QED  BY <1>2
<1>4. first \in D
  <2> HIDE DEF D, W
  <2> QED  BY <1>3
<1>5. Mapping(text, o)[w] = text[first]
  <2> HIDE DEF D, W, keys
  <2> QED  BY <1>1, <1>2
<1>6. first \in DOMAIN text
  BY <1>4, DetectedPlaces
<1> QED  BY <1>5, <1>6, TextWords

\* A part of a text is a text.
LEMMA PickIsText ==
  ASSUME NEW text \in Text, NEW p \in Seq(Nat),
         \A k \in DOMAIN p : p[k] \in DOMAIN text
  PROVE  Pick(text, p) \in Text
<1>1. DOMAIN p = 1..Len(p) /\ Len(p) \in Nat
  OBVIOUS
<1>2. \A k \in DOMAIN p : text[p[k]] \in Word
  BY TextWords
<1>3. Pick(text, p) = [k \in 1..Len(p) |-> text[p[k]]]
  BY <1>1 DEF Pick
<1>4. \A k \in 1..Len(p) : text[p[k]] \in Word
  BY <1>1, <1>2
<1> HIDE DEF Word
<1>5. Pick(text, p) \in [1..Len(p) -> Word]
  BY <1>3, <1>4
<1> DEFINE n == Len(p)
           P == Pick(text, p)
<1>6. n \in Nat /\ P \in [1..n -> Word]
  BY <1>1, <1>5
<1>7. P \in Text
  <2> HIDE DEF n, P
  <2> QED  BY <1>6 DEF Text
<1> QED  BY <1>7

\* Putting words back makes a text.
LEMMA DemaskIsText ==
  ASSUME NEW text \in Text, NEW m, \A w \in DOMAIN m : m[w] \in Word
  PROVE  Demask(text, m) \in Text
<1>1. DOMAIN text = 1..Len(text) /\ Len(text) \in Nat
  BY DEF Text
<1>2. ASSUME NEW i \in DOMAIN text
      PROVE  (IF text[i] \in DOMAIN m THEN m[text[i]] ELSE text[i]) \in Word
  BY TextWords
<1>3. Demask(text, m) \in [1..Len(text) -> Word]
  BY <1>1, <1>2 DEF Demask
<1> QED  BY <1>1, <1>3 DEF Text

\* Every value that shown shows was given.
NothingNew(given, shown) ==
  \A i \in DOMAIN shown :
    LET word == shown[i]
    IN word.kind = "value" => \E k \in DOMAIN given : given[k] = word

\* A mask shows no value that its text does not show.
LEMMA MaskShowsNothingNew ==
  ASSUME NEW text \in Text, NEW o \in Options
  PROVE  NothingNew(text, MaskText(text, o))
<1> DEFINE D == Detected(text, o)
           W == MaskedWords(text, o)
           M == MaskText(text, o)
<1>1. DOMAIN M = DOMAIN text
  BY WordsMasked
<1>2. ASSUME NEW i \in DOMAIN text, M[i].kind = "value"
      PROVE  M[i] = text[i]
  <2>1. M[i] = IF i \in D THEN W[i] ELSE text[i]
    BY WordsMasked
  <2>2. i \in D => W[i].kind # "value"
    BY ReplacementKinds
  <2> HIDE DEF D, W, M
  <2> QED  BY <1>2, <2>1, <2>2
<1> HIDE DEF M
<1> QED  BY <1>1, <1>2 DEF NothingNew, M

----------------------------------------------------------------------------
(* The reverse step.                                                       *)

\* Demask puts back the original of every word of the mask.
LEMMA DemaskPick ==
  ASSUME NEW text \in Text, NEW o \in Options, o.strategy # "asterisks",
         ~Hangs(text, o), CollisionFree(text, o),
         NEW p, \A k \in DOMAIN p : p[k] \in DOMAIN text
  PROVE  Demask(Pick(MaskText(text, o), p), Mapping(text, o)) = Pick(text, p)
<1> DEFINE D == Detected(text, o)
           W == MaskedWords(text, o)
           P == Pick(MaskText(text, o), p)
           m == Mapping(text, o)
<1>1. /\ DOMAIN m = {W[i] : i \in D}
      /\ \A i \in D : m[W[i]] = text[i]
  BY MappingFacts
<1>2. ASSUME NEW k \in DOMAIN p
      PROVE  (IF P[k] \in DOMAIN m THEN m[P[k]] ELSE P[k]) = text[p[k]]
  <2>1. p[k] \in DOMAIN text
    OBVIOUS
  <2>2. P[k] = IF p[k] \in D THEN W[p[k]] ELSE text[p[k]]
    BY <2>1, WordsMasked DEF Pick
  <2>3. CASE p[k] \in D
    <3> HIDE DEF D, W, P, m
    <3> QED  BY <1>1, <2>2, <2>3
  <2>4. CASE p[k] \notin D
    <3>1. \A j \in D : text[p[k]] # W[j]
      BY <2>1 DEF CollisionFree
    <3> HIDE DEF D, W, P, m
    <3> QED  BY <1>1, <2>2, <2>4, <3>1
  <2> QED  BY <2>3, <2>4
<1>3. DOMAIN P = DOMAIN p
  BY DEF Pick
<1>4. Pick(text, p) = [k \in DOMAIN p |-> text[p[k]]]
  BY DEF Pick
<1>5. Demask(P, m) =
        [k \in DOMAIN p |-> IF P[k] \in DOMAIN m THEN m[P[k]] ELSE P[k]]
  BY <1>3 DEF Demask
<1>6. Demask(P, m) = Pick(text, p)
  <2> HIDE DEF P, m
  <2> QED  BY <1>2, <1>4, <1>5
<1> QED  BY <1>6

\* Under every strategy a text without a word written like one of its own
\* replacements is reversible: Process answers whatever part of its mask
\* comes back, if it does not read like the text itself, with the original
\* words at those places, or with the part unchanged where restoring is
\* switched off, or where asterisks leave nothing to restore a part from
\* (Mask, MaskSynthetic, MaskAsterisks, Demask, Process).
THEOREM Reversibility ==
  ASSUME NEW text \in Text, NEW o \in Options,
         ~Hangs(text, o), CollisionFree(text, o),
         NEW p, \A k \in DOMAIN p : p[k] \in DOMAIN text,
         ~ReadsLikeOriginal(text, o, p)
  PROVE  Reversible(text, o, p)
<1> DEFINE D == Detected(text, o)
           M == MaskText(text, o)
           P == Pick(M, p)
           m == Mapping(text, o)
           s == SessionOf(text, o)
<1>1. s.original = text /\ s.masked = M /\ s.mapping = m
  BY DEF SessionOf
<1>2. D = {} => M = text
  BY NothingMasked
<1>3. P = text => D = {}
  BY DEF ReadsLikeOriginal
<1>4. o.strategy = "asterisks" => DOMAIN m = {}
  BY MappingFacts
<1>5. o.strategy # "asterisks" =>
        /\ DOMAIN m = {} <=> D = {}
        /\ Demask(P, m) = Pick(text, p)
  <2> SUFFICES ASSUME o.strategy # "asterisks"
               PROVE  /\ DOMAIN m = {} <=> D = {}
                      /\ Demask(P, m) = Pick(text, p)
    OBVIOUS
  <2>1. DOMAIN m = {MaskedWords(text, o)[i] : i \in D}
    BY MappingFacts
  <2>2. Demask(P, m) = Pick(text, p)
    BY DemaskPick
  <2>3. DOMAIN m = {} <=> D = {}
    <3> HIDE DEF D, m
    <3>1. D = {} => DOMAIN m = {}
      BY <2>1
    <3>2. ASSUME NEW i \in D
          PROVE  MaskedWords(text, o)[i] \in DOMAIN m
      BY <2>1
    <3> QED  BY <3>1, <3>2
  <2> QED  BY <2>2, <2>3
<1>6. Reversible(text, o, p) <=>
        (IF P = text THEN M
         ELSE IF ~o.demask THEN P
         ELSE IF DOMAIN m = {} THEN IF P = M THEN text ELSE P
         ELSE Demask(P, m))
        = (IF ~o.demask THEN P
           ELSE IF o.strategy = "asterisks" /\ D # {} THEN IF P = M THEN text ELSE P
           ELSE Pick(text, p))
  BY <1>1 DEF Reversible, Answer, Restored
<1>7. M = text => P = Pick(text, p)
  OBVIOUS
<1> HIDE DEF D, M, P, m, s
<1>8. CASE P = text
  BY <1>2, <1>3, <1>6, <1>7, <1>8
<1>9. CASE P # text
  BY <1>2, <1>4, <1>5, <1>6, <1>7, <1>9
<1> QED  BY <1>8, <1>9

\* Placeholders never run out.
LEMMA TokensNeverHang ==
  ASSUME NEW text, NEW o, o.strategy = "token"
  PROVE  ~Hangs(text, o)
BY DEF Hangs, MaskedWords, TokenWords, Token

\* Placeholders restore every text that contains none of its own, from every
\* part that does not read like the text itself.
THEOREM TokenReversible ==
  ASSUME NEW text \in Text, NEW o \in Options, o.strategy = "token",
         CollisionFree(text, o),
         NEW p, \A k \in DOMAIN p : p[k] \in DOMAIN text,
         ~ReadsLikeOriginal(text, o, p)
  PROVE  Reversible(text, o, p)
BY Reversibility, TokensNeverHang

----------------------------------------------------------------------------
(* There and back (RoundTrips).                                            *)

\* What is kept is the session of the document, whose generator ended, and
\* the answer is given from it to words of its mask.
TripInv ==
  /\ input \in Text
  /\ opts \in Options
  /\ stage \in {"new", "masked", "answered"}
  /\ stage \in {"masked", "answered"} =>
       /\ ~Hangs(input, opts)
       /\ session = SessionOf(input, opts)
  /\ stage = "answered" =>
       /\ \A k \in DOMAIN sent : sent[k] \in DOMAIN input
       /\ reply = Answer(session, Pick(session.masked, sent), opts)

\* The selections are of words the text has.
LEMMA SelectionsInside ==
  ASSUME NEW n \in Nat, NEW p \in Selections(n)
  PROVE  \A k \in DOMAIN p : p[k] \in 1..n
<1>1. CASE p \in UNION {[1..k -> 1..n] : k \in 0..MaxPick}
  <2>1. PICK k \in 0..MaxPick : p \in [1..k -> 1..n]
    BY <1>1, Zenon
  <2>2. DOMAIN p = 1..k
    BY <2>1
  <2>3. \A j \in 1..k : p[j] \in 1..n
    BY <2>1
  <2> QED  BY <2>2, <2>3
<1>2. CASE p = [i \in 1..n |-> i]
  BY <1>2
<1> QED  BY <1>1, <1>2 DEF Selections

\* The invariant of the two steps.
LEMMA TripInvariance == TripSpec => []TripInv
<1>1. TripInit => TripInv
  BY RoundTripsAssumption DEF TripInit, TripInv
<1>2. TripInv /\ [TripNext]_tripVars => TripInv'
  <2> SUFFICES ASSUME TripInv, [TripNext]_tripVars PROVE TripInv'
    OBVIOUS
  <2>1. CASE Forward
    BY <2>1 DEF TripInv, Forward
  <2>2. ASSUME NEW p \in Selections(Len(input)), SendBack(p)
        PROVE  TripInv'
    <3>1. DOMAIN input = 1..Len(input) /\ Len(input) \in Nat
      BY DEF TripInv, Text
    <3>2. \A k \in DOMAIN p : p[k] \in DOMAIN input
      BY <3>1, SelectionsInside
    <3> QED  BY <2>2, <3>2 DEF TripInv, SendBack
  <2>3. CASE UNCHANGED tripVars
    BY <2>3 DEF TripInv, tripVars
  <2> QED  BY <2>1, <2>2, <2>3 DEF TripNext
<1> QED  BY <1>1, <1>2, PTL DEF TripSpec

\* For every document and every rule, whatever part of the mask comes back is
\* restored word for word, whatever the detectors see in documents, unless the
\* document contains a word that masks it or the part reads like the document
\* itself (Process, Demask).
THEOREM RoundTripsRestore == TripSpec => []RoundTrip
<1>1. TripInv => RoundTrip
  <2> SUFFICES ASSUME TripInv, stage = "answered", CollisionFree(input, opts),
                      ~ReadsLikeOriginal(input, opts, sent)
               PROVE  reply = Restored(input, opts, sent)
    BY DEF RoundTrip
  <2>1. Reversible(input, opts, sent)
    BY Reversibility DEF TripInv
  <2>2. session.masked = MaskText(input, opts)
    BY DEF TripInv, SessionOf
  <2> QED  BY <2>1, <2>2 DEF TripInv, Reversible
<1> QED  BY <1>1, TripInvariance, PTL

\* A mapping has as many entries as words were masked: no value is lost to a
\* shared replacement (counters of Mask, used map of MaskSynthetic).
THEOREM NoReplacementShared == TripSpec => []DistinctReplacements
<1>1. TripInv => DistinctReplacements
  <2> SUFFICES ASSUME TripInv, stage \in {"masked", "answered"},
                      opts.strategy # "asterisks"
               PROVE  Cardinality(DOMAIN session.mapping)
                        = Cardinality(Detected(input, opts))
    BY DEF DistinctReplacements
  <2> DEFINE D == Detected(input, opts)
             W == MaskedWords(input, opts)
             R == {W[i] : i \in D}
             f == [i \in D |-> W[i]]
  <2>1. session.mapping = Mapping(input, opts)
    BY DEF TripInv, SessionOf
  <2>2. DOMAIN session.mapping = R
    BY <2>1, MappingFacts DEF TripInv
  <2>3. \A i, j \in D : W[i] = W[j] => i = j
    BY ReplacementsDistinct DEF TripInv
  <2>4. IsFiniteSet(D)
    <3>1. DOMAIN input = 1..Len(input) /\ Len(input) \in Nat
      BY DEF TripInv, Text
    <3>2. IsFiniteSet(1..Len(input))
      BY <3>1, FS_Interval
    <3>3. D \subseteq DOMAIN input
      BY DetectedPlaces DEF TripInv
    <3> QED  BY <3>1, <3>2, <3>3, FS_Subset
  <2> HIDE DEF D, W
  <2>5. f \in Bijection(D, R)
    BY <2>3 DEF Bijection, Injection, Surjection, IsInjective
  <2>6. ExistsBijection(D, R)
    BY <2>5 DEF ExistsBijection
  <2>7. Cardinality(R) = Cardinality(D)
    BY <2>4, <2>6, FS_Bijection
  <2> QED  BY <2>2, <2>7 DEF D
<1> QED  BY <1>1, TripInvariance, PTL
=============================================================================
