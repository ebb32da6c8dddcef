---------------------------- MODULE SpansProofs ----------------------------
(***************************************************************************)
(* For texts of any length and any number of spans, in whatever order the  *)
(* detectors find them: what is written tiles the input, exactly the       *)
(* characters that are due are masked, placeholders stand apart, differ,   *)
(* and bear the type of the longest span.                                  *)
(***************************************************************************)
EXTENDS Spans, FiniteSetTheorems, TLAPS

USE SpansAssumption

----------------------------------------------------------------------------
(* The invariant.                                                          *)

Piece == [start : 0..Length, end : 0..Length, type : Types \cup {"text"},
          num : Nat]

SpansTypeOK ==
  /\ found \in Seq(Span) /\ spans \in Seq(Span) /\ merged \in Seq(Span)
  /\ composite \in BOOLEAN /\ cardLike \in BOOLEAN /\ present \in BOOLEAN
  /\ kept \in Nat /\ next \in Nat \ {0} /\ lastIdx \in 0..Length
  /\ out \in Seq(Piece)
  /\ pc \in {"collected", "filter", "sort", "merge", "write", "done"}

Anchored == (\E s \in Range(found) : s.type = Anchor) => cardLike

\* What a step that has not begun finds.
Untouched ==
  /\ pc = "collected" => spans = found /\ next = 1 /\ kept = 0
  /\ pc \in {"collected", "filter", "sort"} => merged = << >>
  /\ pc \in {"collected", "filter", "sort", "merge"} => out = << >> /\ lastIdx = 0
  /\ pc = "write" /\ merged = << >> => next = 1

Wanted(s) == composite /\ s.type \in Conditional => cardLike

\* filterComposite: what has been read and is wanted is in front, what has not
\* been read is where it was.
Filtering ==
  pc = "filter" =>
    /\ composite /\ present = cardLike
    /\ Len(spans) = Len(found) /\ next <= Len(spans) + 1 /\ kept < next
    /\ \A i \in next..Len(spans) : spans[i] = found[i]
    /\ \A i \in 1..kept : \E j \in 1..(next - 1) :
         spans[i] = found[j] /\ Wanted(found[j])
    /\ \A j \in 1..(next - 1) : Wanted(found[j]) =>
         \E i \in 1..kept : spans[i] = found[j]

Chosen ==
  pc \in {"sort", "merge"} =>
    spans # << >> /\ \A s : s \in Due <=> \E i \in DOMAIN spans : s = spans[i]

\* A character is in one of the first n spans.
Within(c, s, n) == \E i \in 1..n : s[i].start <= c /\ c < s[i].end

Sorted(s) == \A i, j \in DOMAIN s : i < j => ~Before(s[j], s[i])

\* mergeSpans: the spans that were read have been joined.
Merging ==
  pc = "merge" =>
    /\ Sorted(spans) /\ next \in 2..(Len(spans) + 1) /\ merged # << >>
    /\ \A i \in next..Len(spans) : Last(merged).start <= spans[i].start
    /\ \A i \in 1..(next - 1) : spans[i].end <= Last(merged).end
    /\ \A c \in Nat : Within(c, merged, Len(merged)) <=> Within(c, spans, next - 1)

Merged ==
  pc \in {"write", "done"} =>
    \A c \in Nat : Within(c, merged, Len(merged)) <=> \E s \in Due : c \in Chars(s)

\* A character is in a placeholder that has been written.
Hidden(c) ==
  \E i \in DOMAIN out : out[i].num > 0 /\ out[i].start <= c /\ c < out[i].end

Writing ==
  /\ pc = "write" =>
       /\ next <= Len(merged) + 1
       /\ lastIdx = IF next = 1 THEN 0 ELSE merged[next - 1].end
       /\ next = 1 <=> out = << >>
       /\ out # << >> => out[1].start = 0 /\ Last(out).end = lastIdx
       /\ \A c \in Nat : Hidden(c) <=> Within(c, merged, next - 1)
  /\ pc = "done" =>
       /\ out # << >>
       /\ \A c \in Nat : Hidden(c) <=> Within(c, merged, Len(merged))

\* The placeholders of a type.
Holders(o, t) == {i \in DOMAIN o : o[i].type = t /\ o[i].num > 0}

Counted ==
  \A i \in DOMAIN out :
    out[i].num > 0 => out[i].num <= Cardinality(Holders(out, out[i].type))

SpansInv ==
  /\ SpansTypeOK /\ Anchored /\ Untouched /\ Filtering /\ Chosen /\ Merging
  /\ Merged /\ Writing /\ Counted
  /\ PiecesTile /\ SpansApart /\ PlaceholdersDiffer /\ TypeOfLongest

----------------------------------------------------------------------------
(* Helpers.                                                                *)

\* What a span is.
LEMMA SpanParts ==
  ASSUME NEW s \in Span
  PROVE  /\ s.start \in 0..Length /\ s.end \in 0..Length /\ s.start < s.end
         /\ s.type \in Types /\ s.start \in Nat /\ s.end \in Nat
BY DEF Span

\* A span that a list holds.
LEMMA SpanAt ==
  ASSUME NEW l \in Seq(Span), NEW i \in DOMAIN l
  PROVE  /\ l[i] \in Span /\ l[i].start \in Nat /\ l[i].end \in Nat
         /\ l[i].start < l[i].end /\ l[i].end <= Length /\ Len(l) \in Nat
         /\ i \in 1..Len(l)
<1>1. l[i] \in Span
  OBVIOUS
<1> QED  BY <1>1, SpanParts

\* A list with one more element.
LEMMA Appended ==
  ASSUME NEW X, NEW s \in Seq(X), NEW x \in X
  PROVE  /\ Append(s, x) \in Seq(X)
         /\ Len(Append(s, x)) = Len(s) + 1 /\ Append(s, x) # << >>
         /\ Len(s) \in Nat /\ DOMAIN s = 1..Len(s)
         /\ DOMAIN Append(s, x) = 1..(Len(s) + 1)
         /\ \A j \in DOMAIN s : s[j] \in X /\ Append(s, x)[j] = s[j]
         /\ Append(s, x)[Len(s) + 1] = x
OBVIOUS

\* A list with two more elements (the masking loop writes two pieces).
LEMMA AppendedTwo ==
  ASSUME NEW X, NEW s \in Seq(X), NEW x \in X, NEW y \in X,
         NEW t, t = s \o <<x, y>>
  PROVE  /\ t \in Seq(X) /\ Len(t) = Len(s) + 2 /\ t # << >>
         /\ Len(s) \in Nat /\ DOMAIN s = 1..Len(s)
         /\ DOMAIN t = 1..(Len(s) + 2)
         /\ \A j \in DOMAIN s : t[j] = s[j]
         /\ t[Len(s) + 1] = x /\ t[Len(s) + 2] = y
OBVIOUS

\* Sorting loses nothing: a list put in another order has the same elements
\* (sort.Slice).
LEMMA Reordered ==
  ASSUME NEW n \in Nat, NEW p \in [1..n -> 1..n],
         \A i, j \in 1..n : i # j => p[i] # p[j]
  PROVE  \A j \in 1..n : \E i \in 1..n : p[i] = j
<1>1. p \in Injection(1..n, 1..n)
  BY DEF Injection, IsInjective
<1>2. IsFiniteSet(1..n)
  BY FS_Interval
<1>3. p \in Surjection(1..n, 1..n)
  BY <1>1, <1>2, FS_Injection
<1> QED  BY <1>3 DEF Surjection

----------------------------------------------------------------------------
(* Every step keeps the invariant.                                         *)

\* The spans the detectors find, before anything is done with them.
LEMMA SpansInvInit == Init => SpansInv
<1> SUFFICES ASSUME Init PROVE SpansInv
  OBVIOUS
<1>1. found \in Seq(Span)
  BY DEF Init, Found
<1>2. SpansTypeOK
  <2>1. << >> \in Seq(Span) /\ << >> \in Seq(Piece) /\ 0 \in 0..Length
    OBVIOUS
  <2>2. next = 1 /\ kept = 0 /\ lastIdx = 0 /\ spans = found /\ merged = << >>
          /\ out = << >>
    BY DEF Init
  <2>3. composite \in BOOLEAN /\ cardLike \in BOOLEAN /\ present \in BOOLEAN
          /\ pc = "collected"
    BY DEF Init
  <2>4. 0 \in Nat /\ 1 \in Nat \ {0}
    OBVIOUS
  <2> QED  BY <1>1, <2>1, <2>2, <2>3, <2>4, Zenon DEF SpansTypeOK
<1>3. Anchored /\ Untouched
  BY DEF Init, Anchored, Untouched
<1>4. Filtering /\ Chosen /\ Merging /\ Merged
  BY DEF Init, Filtering, Chosen, Merging, Merged
<1>5. Writing /\ Counted
  BY DEF Init, Writing, Counted
<1>6. PiecesTile /\ SpansApart /\ PlaceholdersDiffer /\ TypeOfLongest
  BY DEF Init, PiecesTile, SpansApart, PlaceholdersDiffer, TypeOfLongest, Range
<1> QED  BY <1>2, <1>3, <1>4, <1>5, <1>6 DEF SpansInv

\* Which spans are due.
LEMMA DueIs ==
  ASSUME SpansTypeOK
  PROVE  /\ \A s : s \in Due <=> \E i \in DOMAIN found : s = found[i] /\ Wanted(s)
         /\ \A s \in Due : s \in Span
BY DEF SpansTypeOK, Due, Wanted, Range

\* collectSpans without composite masking.
LEMMA NoFilterStep == SpansInv /\ NoFilter => SpansInv'
<1> SUFFICES ASSUME SpansInv, NoFilter PROVE SpansInv'
  OBVIOUS
<1> USE DEF SpansInv, NoFilter, input, filter
<1>1. SpansTypeOK' /\ Anchored'
  BY DEF SpansTypeOK, Anchored
<1>2. Untouched'
  BY DEF Untouched
<1>3. Filtering' /\ Merging' /\ merged = << >> /\ out = << >> /\ next = 1
  BY DEF Filtering, Merging, Untouched
<1>4. \A s : s \in Due <=> \E i \in DOMAIN spans : s = spans[i]
  BY DueIs DEF Untouched, Wanted, SpansTypeOK
<1>5. Due' = Due
  BY DEF Due
<1>6. Chosen'
  BY <1>4, <1>5 DEF Chosen
<1>7. Merged'
  BY <1>3, <1>4, <1>5 DEF Merged, Within
<1>8. Writing'
  BY <1>3 DEF Writing, Untouched, Hidden, Within
<1>9. (PiecesTile /\ SpansApart /\ PlaceholdersDiffer /\ TypeOfLongest /\ Counted)'
  BY <1>3 DEF PiecesTile, SpansApart, PlaceholdersDiffer, TypeOfLongest, Counted, Range
<1> QED  BY <1>1, <1>2, <1>3, <1>6, <1>7, <1>8, <1>9

\* filterComposite takes the anchors down.
LEMMA TakeAnchorsStep == SpansInv /\ TakeAnchors => SpansInv'
<1> SUFFICES ASSUME SpansInv, TakeAnchors PROVE SpansInv'
  OBVIOUS
<1> USE DEF SpansInv, TakeAnchors, input
<1>1. SpansTypeOK' /\ Anchored' /\ Untouched'
  BY DEF SpansTypeOK, Anchored, Untouched
<1>2. Filtering'
  BY DEF Filtering, Untouched, Anchored, SpansTypeOK
<1>3. (Chosen /\ Merging /\ Merged /\ Writing)'
  BY DEF Chosen, Merging, Merged, Writing
<1>4. (PiecesTile /\ SpansApart /\ PlaceholdersDiffer /\ TypeOfLongest /\ Counted)'
  BY DEF PiecesTile, SpansApart, PlaceholdersDiffer, TypeOfLongest, Counted,
         Range, Untouched
<1> QED  BY <1>1, <1>2, <1>3, <1>4

\* filterComposite reads one span and overwrites only what it has read.
LEMMA FilterStep == SpansInv /\ Filter => SpansInv'
<1> SUFFICES ASSUME SpansInv, Filter PROVE SpansInv'
  OBVIOUS
<1> USE DEF SpansInv, Filter, input
<1>1. /\ next \in 1..Len(spans) /\ kept \in Nat /\ kept < next
      /\ spans \in Seq(Span) /\ found \in Seq(Span) /\ Len(spans) \in Nat
      /\ spans[next] \in Span /\ Len(found) = Len(spans)
  BY DEF SpansTypeOK, Filtering
<1> DEFINE t == [spans EXCEPT ![kept + 1] = spans[next]]
<1>t. /\ kept + 1 \in 1..Len(spans) /\ t \in Seq(Span) /\ Len(t) = Len(spans)
      /\ t[kept + 1] = spans[next]
      /\ \A i \in 1..Len(spans) : i # kept + 1 => t[i] = spans[i]
  BY <1>1
<1> HIDE DEF t
<1>2. SpansTypeOK'
  <2>1. spans' \in Seq(Span) /\ kept' \in Nat
    BY <1>1, <1>t, SMTT(20) DEF t
  <2> QED  BY <1>1, <2>1 DEF SpansTypeOK
<1>3. Anchored' /\ Untouched'
  BY DEF Anchored, Untouched
<1>4. spans[next] = found[next] /\ (Keeps(spans[next]) <=> Wanted(found[next]))
  BY <1>1 DEF Filtering, Keeps, Wanted
<1>5. Filtering'
  <2>1. CASE Keeps(spans[next])
    <3>1. /\ kept' = kept + 1 /\ Len(spans') = Len(spans)
          /\ spans'[kept + 1] = found[next]
          /\ \A i \in 1..Len(spans) : i # kept + 1 => spans'[i] = spans[i]
      BY <1>4, <1>t, <2>1 DEF t
    <3>2. \A i \in (next + 1)..Len(spans) : spans'[i] = found[i]
      BY <1>1, <3>1, SMTT(20) DEF Filtering
    <3>3. \A i \in 1..(kept + 1) : \E j \in 1..next :
            spans'[i] = found[j] /\ Wanted(found[j])
      <4> TAKE i \in 1..(kept + 1)
      <4>1. CASE i = kept + 1
        BY <1>1, <1>4, <2>1, <3>1, <4>1
      <4>2. CASE i # kept + 1
        <5>1. i \in 1..kept /\ spans'[i] = spans[i]
          BY <1>1, <3>1, <4>2
        <5> QED  BY <1>1, <5>1 DEF Filtering
      <4> QED  BY <4>1, <4>2
    <3>4. \A j \in 1..next : Wanted(found[j]) =>
            \E i \in 1..(kept + 1) : spans'[i] = found[j]
      <4> SUFFICES ASSUME NEW j \in 1..next, Wanted(found[j])
                   PROVE  \E i \in 1..(kept + 1) : spans'[i] = found[j]
        OBVIOUS
      <4>1. CASE j = next
        BY <1>1, <3>1, <4>1
      <4>2. CASE j # next
        <5>1. j \in 1..(next - 1)
          BY <1>1, <4>2
        <5>2. PICK i \in 1..kept : spans[i] = found[j]
          BY <1>1, <5>1 DEF Filtering
        <5>3. i \in 1..(kept + 1) /\ spans'[i] = found[j]
          BY <1>1, <3>1, <5>2
        <5> QED  BY <5>3
      <4> QED  BY <4>1, <4>2
    <3> QED  BY <1>1, <3>1, <3>2, <3>3, <3>4 DEF Filtering, Wanted
  <2>2. CASE ~Keeps(spans[next])
    <3>1. /\ \A i \in (next + 1)..Len(spans) : spans[i] = found[i]
          /\ next + 1 - 1 = next /\ next + 1 <= Len(spans) + 1 /\ kept < next + 1
      BY <1>1 DEF Filtering
    <3>2. \A i \in 1..kept : \E j \in 1..next :
            spans[i] = found[j] /\ Wanted(found[j])
      BY <1>1 DEF Filtering
    <3>3. \A j \in 1..next : Wanted(found[j]) =>
            \E i \in 1..kept : spans[i] = found[j]
      <4> SUFFICES ASSUME NEW j \in 1..next, Wanted(found[j])
                   PROVE  \E i \in 1..kept : spans[i] = found[j]
        OBVIOUS
      <4>1. j \in 1..(next - 1)
        BY <1>1, <1>4, <2>2
      <4> QED  BY <4>1 DEF Filtering
    <3>4. /\ UNCHANGED <<spans, kept, found, composite, cardLike, present>>
          /\ next' = next + 1
      BY <2>2
    <3>5. composite /\ present = cardLike
      BY <1>1 DEF Filtering
    <3> HIDE DEF SpansInv, Filter, input
    <3> QED  BY <1>1, <3>1, <3>2, <3>3, <3>4, <3>5 DEF Filtering, Wanted
  <2> QED  BY <2>1, <2>2
<1>6. (Chosen /\ Merging /\ Merged /\ Writing)'
  BY DEF Chosen, Merging, Merged, Writing
<1>7. (PiecesTile /\ SpansApart /\ PlaceholdersDiffer /\ TypeOfLongest /\ Counted)'
  BY DEF PiecesTile, SpansApart, PlaceholdersDiffer, TypeOfLongest, Counted,
         Range, Untouched
<1> QED  BY <1>2, <1>3, <1>5, <1>6, <1>7

\* filterComposite returns what it has kept.
LEMMA FilterEndStep == SpansInv /\ FilterEnd => SpansInv'
<1> SUFFICES ASSUME SpansInv, FilterEnd PROVE SpansInv'
  OBVIOUS
<1> USE DEF SpansInv, FilterEnd, input, filter
<1>1. /\ kept \in Nat /\ kept <= Len(spans) /\ next - 1 = Len(found)
      /\ spans \in Seq(Span) /\ found \in Seq(Span) /\ Len(spans) \in Nat
      /\ merged = << >> /\ out = << >> /\ lastIdx = 0
  BY DEF SpansTypeOK, Filtering, Untouched
<1>2. spans' \in Seq(Span) /\ Len(spans') = kept
  BY <1>1
<1>3. SpansTypeOK' /\ Anchored'
  BY <1>2 DEF SpansTypeOK, Anchored
<1>4. Untouched' /\ Filtering' /\ Merging'
  BY <1>1 DEF Untouched, Filtering, Merging
<1>5. \A s : s \in Due <=> \E i \in 1..kept : s = spans[i]
  <2>1. \A i \in 1..kept : \E j \in 1..Len(found) :
          spans[i] = found[j] /\ Wanted(found[j])
    BY <1>1 DEF Filtering
  <2>2. \A j \in 1..Len(found) : Wanted(found[j]) =>
          \E i \in 1..kept : spans[i] = found[j]
    BY <1>1 DEF Filtering
  <2>3. SpansTypeOK
    OBVIOUS
  <2>4. \A s : s \in Due <=> \E j \in 1..Len(found) : s = found[j] /\ Wanted(s)
    BY <1>1, <2>3, DueIs
  <2> HIDE DEF SpansInv, FilterEnd, input, filter
  <2> QED  BY <2>1, <2>2, <2>4, SMTT(20)
<1>6. Due' = Due
  BY DEF Due
<1>7. Chosen'
  BY <1>1, <1>2, <1>5, <1>6 DEF Chosen
<1>8. Merged'
  BY <1>1, <1>5, <1>6 DEF Merged, Within
<1>9. Writing'
  BY <1>1 DEF Writing, Hidden, Within
<1>10. (PiecesTile /\ SpansApart /\ PlaceholdersDiffer /\ TypeOfLongest /\ Counted)'
  BY <1>1 DEF PiecesTile, SpansApart, PlaceholdersDiffer, TypeOfLongest, Counted,
              Range
<1> QED  BY <1>3, <1>4, <1>7, <1>8, <1>9, <1>10

\* sort.Slice, and the first span of the result.
LEMMA SortStep == SpansInv /\ Sort => SpansInv'
<1> SUFFICES ASSUME SpansInv, Sort PROVE SpansInv'
  OBVIOUS
<1> USE DEF SpansInv, input, filter
<1> DEFINE n == Len(spans)
<1>1. /\ pc = "sort" /\ next' = 2 /\ pc' = "merge"
      /\ UNCHANGED <<input, filter, out, lastIdx>>
      /\ out = << >> /\ lastIdx = 0
  BY DEF Sort, Untouched
<1>2. spans \in Seq(Span) /\ n \in Nat /\ DOMAIN spans = 1..n /\ 1 \in 1..n
  BY <1>1 DEF SpansTypeOK, Chosen
<1>3. PICK p \in [1..n -> 1..n] :
        /\ \A i, j \in 1..n : i # j => p[i] # p[j]
        /\ \A i, j \in 1..n : i < j => ~Before(spans[p[j]], spans[p[i]])
        /\ spans' = [i \in 1..n |-> spans[p[i]]]
        /\ merged' = <<spans'[1]>>
  BY <1>2 DEF Sort
<1> DEFINE q == [i \in 1..n |-> spans[p[i]]]
<1>q. q \in Seq(Span) /\ Len(q) = n /\ DOMAIN q = 1..n
        /\ \A i \in 1..n : q[i] = spans[p[i]] /\ p[i] \in 1..n
  <2> HIDE DEF n
  <2>1. \A i \in 1..n : p[i] \in 1..n
    BY <1>3
  <2>2. \A i \in 1..n : spans[p[i]] \in Span
    BY <1>2, <2>1
  <2> QED  BY <1>2, <2>1, <2>2
<1>4. spans' \in Seq(Span) /\ Len(spans') = n /\ DOMAIN spans' = 1..n
        /\ \A i \in 1..n : spans'[i] = spans[p[i]] /\ p[i] \in 1..n
  <2> HIDE DEF n
  <2>1. spans' = q
    BY <1>3
  <2> HIDE DEF q
  <2> QED  BY <1>q, <2>1
<1> HIDE DEF q
<1>5. \A j \in 1..n : \E i \in 1..n : p[i] = j
  BY <1>2, <1>3, Reordered
<1> HIDE DEF n
<1>6. Sorted(spans')
  BY <1>3, <1>4 DEF Sorted
<1>7. /\ merged' \in Seq(Span) /\ Len(merged') = 1 /\ DOMAIN merged' = {1}
      /\ merged'[1] = spans'[1] /\ Last(merged') = spans'[1] /\ spans'[1] \in Span
      /\ merged' # << >>
  BY <1>2, <1>3, <1>4 DEF Last
<1>8. SpansTypeOK' /\ Anchored' /\ Untouched' /\ Filtering'
  <2>1. SpansTypeOK'
    BY <1>1, <1>4, <1>7 DEF SpansTypeOK
  <2>2. Anchored' /\ Untouched' /\ Filtering'
    BY <1>1 DEF Anchored, Untouched, Filtering
  <2> QED  BY <2>1, <2>2
<1>9. Due' = Due
  BY <1>1 DEF Due
<1>10. \A s : s \in Due <=> \E i \in 1..n : s = spans'[i]
  <2>1. \A s : s \in Due <=> \E j \in 1..n : s = spans[j]
    BY <1>1, <1>2 DEF Chosen
  <2>2. \A j \in 1..n : \E i \in 1..n : spans[j] = spans'[i]
    <3> TAKE j \in 1..n
    <3>1. PICK i \in 1..n : p[i] = j
      BY <1>5
    <3>2. spans'[i] = spans[j]
      BY <1>4, <3>1
    <3> QED  BY <3>2
  <2>3. \A i \in 1..n : \E j \in 1..n : spans'[i] = spans[j]
    BY <1>4
  <2> SUFFICES ASSUME NEW s PROVE s \in Due <=> \E i \in 1..n : s = spans'[i]
    OBVIOUS
  <2>4. ASSUME s \in Due PROVE \E i \in 1..n : s = spans'[i]
    <3>1. PICK j \in 1..n : s = spans[j]
      BY <2>1, <2>4
    <3> QED  BY <2>2, <3>1
  <2>5. ASSUME NEW i \in 1..n, s = spans'[i] PROVE s \in Due
    <3>1. PICK j \in 1..n : spans'[i] = spans[j]
      BY <2>3
    <3> QED  BY <2>1, <2>5, <3>1
  <2> QED  BY <2>4, <2>5
<1>11. Chosen'
  <2>1. spans' # << >>
    BY <1>2, <1>4
  <2> QED  BY <1>4, <1>9, <1>10, <2>1 DEF Chosen
<1>12. \A i \in 1..n :
         /\ spans'[i].start \in Nat /\ spans'[i].end \in Nat
         /\ spans'[1].start <= spans'[i].start
         /\ spans'[i].start = spans'[1].start => spans'[i].end <= spans'[1].end
  <2> TAKE i \in 1..n
  <2> DEFINE a == spans'[i]
             b == spans'[1]
  <2>1. a \in Span /\ b \in Span
    BY <1>2, <1>4
  <2>2. a.start \in Nat /\ a.end \in Nat /\ b.start \in Nat /\ b.end \in Nat
    BY <2>1, SpanParts
  <2>3. i > 1 => ~Before(a, b)
    BY <1>2, <1>4, <1>6 DEF Sorted
  <2>4. i = 1 => a = b
    OBVIOUS
  <2> HIDE DEF a, b
  <2>5. b.start <= a.start /\ (a.start = b.start => a.end <= b.end)
    BY <1>2, <2>3, <2>2, <2>4, SMTT(20) DEF Before
  <2> QED  BY <2>2, <2>5 DEF a, b
<1>13. Merging'
  <2>1. \A i \in 1..1 : spans'[i].end <= Last(merged').end
    <3>1. spans'[1].end <= spans'[1].end
      BY <1>2, <1>12
    <3> QED  BY <1>7, <3>1
  <2>2. \A c \in Nat : Within(c, merged', 1) <=> Within(c, spans', 1)
    BY <1>7 DEF Within
  <2> QED  BY <1>1, <1>2, <1>4, <1>6, <1>7, <1>12, <2>1, <2>2, SMTT(20) DEF Merging
<1>14. (Merged /\ Writing /\ Counted)'
  BY <1>1 DEF Merged, Writing, Counted
<1>15. (PiecesTile /\ SpansApart /\ PlaceholdersDiffer)'
  BY <1>1, <1>7 DEF PiecesTile, SpansApart, PlaceholdersDiffer
<1>16. TypeOfLongest'
  <2>1. spans'[1] \in Due
    BY <1>2, <1>10
  <2>2. \A t \in Due : t.start = spans'[1].start => t.end <= spans'[1].end
    BY <1>10, <1>12
  <2>3. \A m \in Range(merged') : m = spans'[1]
    BY <1>7 DEF Range
  <2> QED  BY <1>9, <2>1, <2>2, <2>3 DEF TypeOfLongest
<1> QED  BY <1>8, <1>11, <1>13, <1>14, <1>15, <1>16

\* mergeSpans reads one span.
LEMMA MergeStep == SpansInv /\ Merge => SpansInv'
<1> SUFFICES ASSUME SpansInv, Merge PROVE SpansInv'
  OBVIOUS
<1> USE DEF SpansInv, input, filter
<1> DEFINE L == Len(merged)
           last == merged[L]
           curr == spans[next]
<1>1. /\ pc = "merge" /\ pc' = "merge" /\ next' = next + 1
      /\ UNCHANGED <<input, spans, filter, out, lastIdx>>
      /\ out = << >>
      /\ merged' = IF Touches(last, curr)
                   THEN [merged EXCEPT ![L] = Grown(@, curr)]
                   ELSE Append(merged, curr)
  BY DEF Merge, Untouched, Last
<1>2. /\ merged \in Seq(Span) /\ spans \in Seq(Span) /\ L \in Nat \ {0}
      /\ DOMAIN merged = 1..L /\ L \in 1..L /\ Len(spans) \in Nat
      /\ next \in 2..Len(spans) /\ next \in DOMAIN spans
  BY <1>1 DEF SpansTypeOK, Merging, Merge
<1>3. /\ last \in Span /\ curr \in Span /\ Last(merged) = last
      /\ last.start \in Nat /\ last.end \in Nat /\ last.start < last.end
      /\ curr.start \in Nat /\ curr.end \in Nat /\ curr.start < curr.end
      /\ last.start <= curr.start
  BY <1>1, <1>2, SpanParts DEF Last, Merging
<1>4. /\ Sorted(spans)
      /\ \A i \in (next + 1)..Len(spans) : /\ curr.start <= spans[i].start
                                           /\ last.start <= spans[i].start
  <2>1. Sorted(spans)
    BY <1>1 DEF Merging
  <2>2. ASSUME NEW i \in (next + 1)..Len(spans)
        PROVE  curr.start <= spans[i].start /\ last.start <= spans[i].start
    <3>1. ~Before(spans[i], curr)
      BY <1>2, <2>1, <2>2 DEF Sorted
    <3>2. spans[i].start \in Nat
      BY <1>2, <2>2, SpanAt
    <3>3. curr.start <= spans[i].start
      <4> HIDE DEF curr
      <4> QED  BY <1>3, <3>1, <3>2 DEF Before
    <3> HIDE DEF last, curr
    <3> QED  BY <1>3, <3>2, <3>3
  <2> QED  BY <2>1, <2>2
<1>5. /\ \A i \in 1..(next - 1) : spans[i].end \in Nat /\ spans[i].end <= last.end
      /\ \A c \in Nat : Within(c, merged, L) <=> Within(c, spans, next - 1)
  <2>1. /\ \A i \in 1..(next - 1) : spans[i].end <= Last(merged).end
        /\ \A c \in Nat :
             Within(c, merged, Len(merged)) <=> Within(c, spans, next - 1)
    <3> HIDE DEF L, last, curr
    <3> QED  BY <1>1 DEF Merging
  <2>2. \A i \in 1..(next - 1) : spans[i].end \in Nat
    <3>1. ASSUME NEW i \in 1..(next - 1)
          PROVE  i \in DOMAIN spans
      BY <1>2, <3>1
    <3> QED  BY <1>2, <3>1, SpanAt
  <2> QED  BY <1>3, <2>1, <2>2
<1>6. \A c \in Nat : Within(c, spans, next) <=>
        Within(c, spans, next - 1) \/ (curr.start <= c /\ c < curr.end)
  BY <1>2 DEF Within
<1>7. Due' = Due /\ \A s : s \in Due <=> \E i \in DOMAIN spans : s = spans[i]
  BY <1>1 DEF Due, Chosen
<1>8. (Anchored /\ Untouched /\ Filtering /\ Merged /\ Writing /\ Counted)'
  BY <1>1 DEF Anchored, Untouched, Filtering, Merged, Writing, Counted
<1>9. (PiecesTile /\ PlaceholdersDiffer)'
  BY <1>1 DEF PiecesTile, PlaceholdersDiffer
<1>10. Chosen'
  BY <1>1, <1>7 DEF Chosen
<1>0. L = Len(merged) /\ last = merged[L] /\ curr = spans[next]
  OBVIOUS
<1> HIDE DEF L, last, curr
<1>11. CASE Touches(last, curr)
  <2> DEFINE g == Grown(last, curr)
  <2>1. /\ g \in Span /\ g.start = last.start /\ g.type = last.type
        /\ g.end = IF curr.end > last.end THEN curr.end ELSE last.end
    BY <1>3, SpanParts DEF Grown, Span
  <2> HIDE DEF g
  <2> DEFINE t == [merged EXCEPT ![L] = g]
  <2>t. /\ t \in Seq(Span) /\ Len(t) = L /\ DOMAIN t = 1..L
        /\ t[L] = g /\ \A i \in 1..L : i # L => t[i] = merged[i]
    BY <1>0, <1>2, <2>1
  <2>m. merged' = t
    BY <1>0, <1>1, <1>11 DEF g
  <2> HIDE DEF t
  <2>2. /\ merged' \in Seq(Span) /\ Len(merged') = L /\ DOMAIN merged' = 1..L
        /\ merged'[L] = g /\ \A i \in 1..L : i # L => merged'[i] = merged[i]
        /\ merged' # << >> /\ Last(merged') = g
    BY <1>2, <2>t, <2>m DEF Last
  <2>3. SpansTypeOK'
    <3>1. next' \in Nat \ {0}
      BY <1>1, <1>2
    <3> QED  BY <1>1, <2>2, <3>1 DEF SpansTypeOK
  <2>4. SpansApart'
    <3> SUFFICES ASSUME NEW i \in 1..(L - 1)
                 PROVE  merged'[i].end < merged'[i + 1].start
      BY <2>2 DEF SpansApart
    <3>1. i \in 1..L /\ i # L /\ i + 1 \in 1..L
      BY <1>2
    <3>2. merged'[i] = merged[i]
      BY <2>2, <3>1
    <3>3. merged'[i + 1].start = merged[i + 1].start
      BY <1>0, <2>1, <2>2, <3>1
    <3> QED  BY <1>0, <3>2, <3>3 DEF SpansApart
  <2>5. \A c \in Nat : Within(c, merged', L) <=> Within(c, spans, next)
    <3> TAKE c \in Nat
    <3>1. Within(c, merged', L) <=>
            (\E i \in 1..(L - 1) : merged[i].start <= c /\ c < merged[i].end)
              \/ (g.start <= c /\ c < g.end)
      <4>1. \A i \in 1..(L - 1) : i \in 1..L /\ merged'[i] = merged[i]
        BY <1>2, <2>2
      <4>2. \A i \in 1..L : i = L \/ i \in 1..(L - 1)
        BY <1>2
      <4> QED  BY <1>2, <2>2, <4>1, <4>2 DEF Within
    <3>2. Within(c, merged, L) <=>
            (\E i \in 1..(L - 1) : merged[i].start <= c /\ c < merged[i].end)
              \/ (last.start <= c /\ c < last.end)
      BY <1>0, <1>2 DEF Within
    <3>3. (g.start <= c /\ c < g.end) <=>
            (last.start <= c /\ c < last.end) \/ (curr.start <= c /\ c < curr.end)
      BY <1>3, <1>11, <2>1 DEF Touches
    <3> QED  BY <1>5, <1>6, <3>1, <3>2, <3>3
  <2>6. Merging'
    <3>1. ASSUME NEW i \in 1..next PROVE spans[i].end <= g.end
      <4>1. CASE i = next
        BY <1>0, <1>3, <2>1, <4>1
      <4>2. CASE i # next
        <5>1. spans[i].end \in Nat /\ spans[i].end <= last.end
          BY <1>2, <1>5, <4>2
        <5> QED  BY <1>3, <2>1, <5>1
      <4> QED  BY <4>1, <4>2
    <3>2. next + 1 \in 2..(Len(spans) + 1) /\ next + 1 - 1 = next
      BY <1>2
    <3>3. \A i \in (next + 1)..Len(spans) : g.start <= spans[i].start
      BY <1>4, <2>1
    <3>4. pc' = "merge" /\ spans' = spans /\ next' = next + 1 /\ next' - 1 = next
      BY <1>1, <1>2
    <3>5. \A c \in Nat :
            Within(c, merged', Len(merged')) <=> Within(c, spans', next' - 1)
      BY <2>2, <2>5, <3>4, Zenon
    <3>6. Sorted(spans') /\ next' \in 2..(Len(spans') + 1)
      BY <1>4, <3>2, <3>4
    <3>7. \A i \in next'..Len(spans') : Last(merged').start <= spans'[i].start
      BY <2>2, <3>3, <3>4
    <3>8. \A i \in 1..(next' - 1) : spans'[i].end <= Last(merged').end
      BY <2>2, <3>1, <3>4
    <3> QED  BY <2>2, <3>5, <3>6, <3>7, <3>8 DEF Merging
  <2>7. TypeOfLongest'
    <3>1. \A m \in Range(merged') : \E k \in Range(merged) :
            m.start = k.start /\ m.type = k.type
      <4> SUFFICES ASSUME NEW i \in 1..L
                   PROVE  /\ merged'[i].start = merged[i].start
                          /\ merged'[i].type = merged[i].type
        BY <1>2, <2>2 DEF Range
      <4>1. CASE i = L
        BY <1>0, <2>1, <2>2, <4>1
      <4>2. CASE i # L
        BY <2>2, <4>2
      <4> QED  BY <4>1, <4>2
    <3> QED  BY <1>7, <3>1 DEF TypeOfLongest
  <2> QED  BY <1>8, <1>9, <1>10, <2>3, <2>4, <2>6, <2>7
<1>12. CASE ~Touches(last, curr)
  <2>1. /\ merged' \in Seq(Span) /\ Len(merged') = L + 1
        /\ DOMAIN merged' = 1..(L + 1) /\ merged' # << >>
        /\ merged'[L + 1] = curr /\ Last(merged') = curr
        /\ \A i \in 1..L : merged'[i] = merged[i]
    <3>1. merged' = Append(merged, curr)
      BY <1>1, <1>12
    <3> QED  BY <1>0, <1>2, <1>3, <3>1, Appended DEF Last
  <2>2. SpansTypeOK'
    <3>1. next' \in Nat \ {0}
      BY <1>1, <1>2
    <3> QED  BY <1>1, <2>1, <3>1 DEF SpansTypeOK
  <2>3. last.end < curr.start
    BY <1>3, <1>12 DEF Touches
  <2>4. SpansApart'
    <3> SUFFICES ASSUME NEW i \in 1..L
                 PROVE  merged'[i].end < merged'[i + 1].start
      BY <1>2, <2>1 DEF SpansApart
    <3>1. CASE i = L
      BY <1>0, <1>2, <2>1, <2>3, <3>1
    <3>2. CASE i # L
      <4>1. i \in 1..(L - 1) /\ i \in 1..L /\ i + 1 \in 1..L
        BY <1>2, <3>2
      <4>2. merged'[i] = merged[i] /\ merged'[i + 1] = merged[i + 1]
        BY <2>1, <4>1
      <4> QED  BY <1>0, <4>1, <4>2 DEF SpansApart
    <3> QED  BY <3>1, <3>2
  <2>5. \A c \in Nat : Within(c, merged', L + 1) <=> Within(c, spans, next)
    <3> TAKE c \in Nat
    <3>1. Within(c, merged', L + 1) <=>
            Within(c, merged, L) \/ (curr.start <= c /\ c < curr.end)
      BY <1>2, <2>1 DEF Within
    <3> QED  BY <1>5, <1>6, <3>1
  <2>6. Merging'
    <3>1. ASSUME NEW i \in 1..next PROVE spans[i].end <= curr.end
      <4>1. CASE i = next
        BY <1>0, <1>3, <4>1
      <4>2. CASE i # next
        <5>1. spans[i].end \in Nat /\ spans[i].end <= last.end
          BY <1>2, <1>5, <4>2
        <5> QED  BY <1>3, <2>3, <5>1
      <4> QED  BY <4>1, <4>2
    <3>2. next + 1 \in 2..(Len(spans) + 1) /\ next + 1 - 1 = next
      BY <1>2
    <3>3. pc' = "merge" /\ spans' = spans /\ next' = next + 1 /\ next' - 1 = next
      BY <1>1, <1>2
    <3>4. \A c \in Nat :
            Within(c, merged', Len(merged')) <=> Within(c, spans', next' - 1)
      <4>1. Len(merged') = L + 1
        BY <2>1
      <4> QED  BY <2>5, <3>3, <4>1, Zenon
    <3>5. Sorted(spans') /\ next' \in 2..(Len(spans') + 1)
      BY <1>4, <3>2, <3>3
    <3>6. \A i \in next'..Len(spans') : Last(merged').start <= spans'[i].start
      BY <1>4, <2>1, <3>3
    <3>7. \A i \in 1..(next' - 1) : spans'[i].end <= Last(merged').end
      BY <2>1, <3>1, <3>3
    <3> QED  BY <2>1, <3>4, <3>5, <3>6, <3>7 DEF Merging
  <2>7. TypeOfLongest'
    <3>1. curr \in Due
      BY <1>0, <1>2, <1>7
    <3>2. ASSUME NEW t \in Due, t.start = curr.start
          PROVE  t.end <= curr.end
      <4>1. PICK k \in DOMAIN spans : t = spans[k]
        BY <1>7
      <4>2. t.start \in Nat /\ t.end \in Nat /\ t.start < t.end
        BY <1>2, <4>1, SpanAt
      <4>3. CASE k < next
        <5>1. t.end <= last.end
          BY <1>2, <1>5, <4>1, <4>3
        <5> QED  BY <1>3, <2>3, <3>2, <4>2, <5>1
      <4>4. CASE k = next
        BY <1>0, <1>3, <4>1, <4>4
      <4>5. CASE k > next
        <5>1. ~Before(t, curr)
          BY <1>0, <1>2, <1>4, <4>1, <4>5 DEF Sorted
        <5> QED  BY <1>3, <3>2, <4>2, <5>1 DEF Before
      <4> QED  BY <1>2, <4>3, <4>4, <4>5
    <3>3. \A m \in Range(merged') : m \in Range(merged) \/ m = curr
      BY <1>2, <2>1 DEF Range
    <3> QED  BY <1>7, <3>1, <3>2, <3>3 DEF TypeOfLongest
  <2> QED  BY <1>8, <1>9, <1>10, <2>2, <2>4, <2>6, <2>7
<1> QED  BY <1>11, <1>12

\* mergeSpans has read every span.
LEMMA MergeEndStep == SpansInv /\ MergeEnd => SpansInv'
<1> SUFFICES ASSUME SpansInv, MergeEnd PROVE SpansInv'
  OBVIOUS
<1> USE DEF SpansInv, MergeEnd, input, filter
<1>1. /\ spans \in Seq(Span) /\ Len(spans) \in Nat /\ DOMAIN spans = 1..Len(spans)
      /\ next - 1 = Len(spans) /\ merged # << >> /\ out = << >> /\ lastIdx = 0
      /\ Len(merged) \in Nat
  BY DEF SpansTypeOK, Merging, Untouched
<1>2. SpansTypeOK' /\ Anchored'
  BY DEF SpansTypeOK, Anchored
<1>3. (Untouched /\ Filtering /\ Chosen /\ Merging /\ Counted)'
  BY <1>1 DEF Untouched, Filtering, Chosen, Merging, Counted
<1>4. Due' = Due
  BY DEF Due
<1>5. Merged'
  <2> SUFFICES ASSUME NEW c \in Nat
               PROVE  Within(c, merged, Len(merged)) <=> \E s \in Due : c \in Chars(s)
    BY <1>4 DEF Merged
  <2>1. Within(c, merged, Len(merged)) <=> Within(c, spans, Len(spans))
    BY <1>1 DEF Merging
  <2>2. \A i \in 1..Len(spans) :
          c \in Chars(spans[i]) <=> spans[i].start <= c /\ c < spans[i].end
    BY <1>1, SpanAt DEF Chars
  <2>3. \A s : s \in Due <=> \E i \in 1..Len(spans) : s = spans[i]
    BY <1>1 DEF Chosen
  <2> QED  BY <2>1, <2>2, <2>3 DEF Within
<1>6. Writing'
  BY <1>1 DEF Writing, Hidden, Within
<1>7. (PiecesTile /\ SpansApart /\ PlaceholdersDiffer /\ TypeOfLongest)'
  BY <1>1, <1>4 DEF PiecesTile, SpansApart, PlaceholdersDiffer, TypeOfLongest
<1> QED  BY <1>2, <1>3, <1>5, <1>6, <1>7

\* The masking loop writes the text in front of a span and a placeholder.
LEMMA WriteStep == SpansInv /\ Write => SpansInv'
<1> SUFFICES ASSUME SpansInv, Write PROVE SpansInv'
  OBVIOUS
<1> USE DEF SpansInv, input, filter
<1> DEFINE s == merged[next]
           a == Copy(lastIdx, s.start)
           b == Masked(s, Numbered(s.type))
           L == Len(out)
<1>1. /\ pc = "write" /\ pc' = "write" /\ next' = next + 1
      /\ UNCHANGED <<input, spans, filter, merged>>
  BY DEF Write
<1>2. /\ merged \in Seq(Span) /\ out \in Seq(Piece) /\ L \in Nat
      /\ next \in 1..Len(merged) /\ Len(merged) \in Nat /\ lastIdx \in 0..Length
      /\ s \in Span
  BY <1>1 DEF SpansTypeOK, Write
<1>3. /\ s.start \in 0..Length /\ s.end \in 0..Length /\ s.start < s.end
      /\ s.type \in Types
  BY <1>2, SpanParts
<1>4. lastIdx <= s.start
  <2>1. CASE next = 1
    BY <1>1, <1>2, <1>3, <2>1 DEF Writing
  <2>2. CASE next # 1
    <3>1. next - 1 \in 1..(Len(merged) - 1) /\ next - 1 + 1 = next
      BY <1>2, <2>2
    <3>2. merged[next - 1].end < s.start
      BY <3>1 DEF SpansApart
    <3>3. merged[next - 1].end \in Nat
      BY <1>2, <3>1, SpanAt
    <3> QED  BY <1>1, <1>3, <2>2, <3>2, <3>3 DEF Writing
  <2> QED  BY <2>1, <2>2
<1>5. out' = out \o <<a, b>> /\ lastIdx' = s.end
  BY <1>2, <1>3, <1>4, SMTT(20) DEF Write
<1>6. /\ IsFiniteSet(Holders(out, s.type))
      /\ Cardinality(Holders(out, s.type)) \in Nat
      /\ Numbered(s.type) = 1 + Cardinality(Holders(out, s.type))
  <2>1. IsFiniteSet(1..L)
    BY <1>2, FS_Interval
  <2>2. Holders(out, s.type) \in SUBSET (1..L)
    BY <1>2 DEF Holders
  <2>3. IsFiniteSet(Holders(out, s.type))
    BY <2>1, <2>2, FS_Subset
  <2> QED  BY <2>3, FS_CardinalityType DEF Numbered, Holders
<1> DEFINE n == Numbered(s.type)
<1>7. /\ a \in Piece /\ a.start = lastIdx /\ a.end = s.start /\ a.num = 0
      /\ b \in Piece /\ b.start = s.start /\ b.end = s.end /\ b.type = s.type
      /\ b.num = n /\ n \in Nat /\ n > 0
  BY <1>2, <1>3, <1>6 DEF Copy, Masked, Piece
<1> HIDE DEF a, b, n
<1>8. /\ out' \in Seq(Piece) /\ Len(out') = L + 2 /\ out' # << >>
      /\ DOMAIN out = 1..L /\ DOMAIN out' = 1..(L + 2)
      /\ \A j \in 1..L : out'[j] = out[j]
      /\ out'[L + 1] = a /\ out'[L + 2] = b
  BY <1>2, <1>5, <1>7, AppendedTwo
<1>9. SpansTypeOK' /\ Anchored' /\ Untouched'
  <2>1. next' \in Nat \ {0} /\ lastIdx' \in 0..Length /\ merged # << >>
    BY <1>1, <1>2, <1>3, <1>5
  <2> QED  BY <1>1, <1>8, <2>1 DEF SpansTypeOK, Anchored, Untouched
<1>10. (Filtering /\ Chosen /\ Merging /\ Merged)' /\ Due' = Due
  BY <1>1 DEF Filtering, Chosen, Merging, Merged, Due
<1>11. (SpansApart /\ TypeOfLongest)'
  BY <1>1, <1>10 DEF SpansApart, TypeOfLongest
<1>12. Writing'
  <2>1. next + 1 <= Len(merged) + 1 /\ next' # 1 /\ next' - 1 = next
    BY <1>1, <1>2
  <2>2. out'[1].start = 0
    <3>1. CASE next = 1
      BY <1>1, <1>2, <1>7, <1>8, <3>1 DEF Writing
    <3>2. CASE next # 1
      <4>1. 1 \in 1..L
        BY <1>1, <1>2, <3>2 DEF Writing
      <4> QED  BY <1>1, <1>8, <3>2, <4>1 DEF Writing
    <3> QED  BY <3>1, <3>2
  <2>3. Last(out').end = s.end
    BY <1>2, <1>7, <1>8 DEF Last
  <2>4. \A c \in Nat : Hidden(c)' <=> Within(c, merged, next)
    <3> TAKE c \in Nat
    <3>1. Hidden(c)' <=> Hidden(c) \/ (s.start <= c /\ c < s.end)
      <4>1. Hidden(c)' => Hidden(c) \/ (s.start <= c /\ c < s.end)
        <5> SUFFICES ASSUME NEW i \in 1..(L + 2), out'[i].num > 0,
                            out'[i].start <= c, c < out'[i].end
                     PROVE  Hidden(c) \/ (s.start <= c /\ c < s.end)
          BY <1>8 DEF Hidden
        <5>1. CASE i \in 1..L
          BY <1>8, <5>1 DEF Hidden
        <5>2. CASE i = L + 1
          BY <1>7, <1>8, <5>2
        <5>3. CASE i = L + 2
          BY <1>7, <1>8, <5>3
        <5> QED  BY <1>2, <5>1, <5>2, <5>3
      <4>2. Hidden(c) => Hidden(c)'
        <5> SUFFICES ASSUME NEW i \in 1..L, out[i].num > 0,
                            out[i].start <= c, c < out[i].end
                     PROVE  Hidden(c)'
          BY <1>8 DEF Hidden
        <5>1. i \in 1..(L + 2) /\ out'[i] = out[i]
          BY <1>2, <1>8
        <5> QED  BY <1>8, <5>1 DEF Hidden
      <4>3. s.start <= c /\ c < s.end => Hidden(c)'
        <5>1. L + 2 \in 1..(L + 2)
          BY <1>2
        <5> QED  BY <1>7, <1>8, <5>1 DEF Hidden
      <4> QED  BY <4>1, <4>2, <4>3
    <3>2. Within(c, merged, next) <=>
            Within(c, merged, next - 1) \/ (s.start <= c /\ c < s.end)
      BY <1>2 DEF Within
    <3> QED  BY <1>1, <3>1, <3>2 DEF Writing
  <2>5. lastIdx' = IF next' = 1 THEN 0 ELSE merged'[next' - 1].end
    BY <1>1, <1>5, <2>1, Zenon
  <2>6. Last(out').end = lastIdx'
    BY <1>5, <2>3
  <2>7. \A c \in Nat : Hidden(c)' <=> Within(c, merged', next' - 1)
    BY <1>1, <2>1, <2>4, Zenon
  <2> HIDE DEF s
  <2> QED  BY <1>1, <1>8, <2>1, <2>2, <2>5, <2>6, <2>7 DEF Writing
<1>13. PiecesTile'
  <2>1. \A i \in 1..(L + 1) : out'[i].end = out'[i + 1].start
    <3> TAKE i \in 1..(L + 1)
    <3>1. CASE i < L
      <4>1. i \in 1..(L - 1) /\ i \in 1..L /\ i + 1 \in 1..L
        BY <1>2, <3>1
      <4> QED  BY <1>8, <4>1 DEF PiecesTile
    <3>2. CASE i = L
      <4>1. L # 0 /\ out # << >> /\ L \in 1..L
        BY <1>2, <3>2
      <4>2. out[L].end = lastIdx
        BY <1>1, <4>1 DEF Writing, Last
      <4> QED  BY <1>7, <1>8, <3>2, <4>1, <4>2
    <3>3. CASE i = L + 1
      BY <1>2, <1>7, <1>8, <3>3
    <3> QED  BY <1>2, <3>1, <3>2, <3>3
  <2>2. \A i \in 1..(L + 2) : out'[i].start <= out'[i].end
    <3> TAKE i \in 1..(L + 2)
    <3>1. CASE i \in 1..L
      BY <1>8, <3>1 DEF PiecesTile
    <3>2. CASE i = L + 1
      BY <1>4, <1>7, <1>8, <3>2
    <3>3. CASE i = L + 2
      BY <1>3, <1>7, <1>8, <3>3
    <3> QED  BY <1>2, <3>1, <3>2, <3>3
  <2>3. L + 2 - 1 = L + 1
    BY <1>2
  <2> QED  BY <1>1, <1>8, <2>1, <2>2, <2>3 DEF PiecesTile
<1>14. /\ Holders(out', s.type) = Holders(out, s.type) \cup {L + 2}
       /\ \A t : t # s.type => Holders(out', t) = Holders(out, t)
  <2>1. \A i \in 1..(L + 2) : i \in 1..L \/ i = L + 1 \/ i = L + 2
    BY <1>2
  <2>2. 1..L \subseteq 1..(L + 2) /\ L + 2 \in 1..(L + 2)
    BY <1>2
  <2> QED  BY <1>7, <1>8, <2>1, <2>2 DEF Holders
<1>15. Cardinality(Holders(out', s.type)) = n
  <2>1. L + 2 \notin Holders(out, s.type)
    BY <1>2, <1>8 DEF Holders
  <2> DEFINE H == Holders(out, s.type)
  <2>2. IsFiniteSet(H) /\ Cardinality(H) \in Nat /\ n = 1 + Cardinality(H)
    BY <1>6 DEF n
  <2>3. L + 2 \notin H /\ Holders(out', s.type) = H \cup {L + 2}
    BY <1>14, <2>1
  <2> HIDE DEF H
  <2>4. Cardinality(H \cup {L + 2}) = Cardinality(H) + 1
    BY <2>2, <2>3, FS_AddElement
  <2> QED  BY <2>2, <2>3, <2>4
<1>16. \A j \in 1..L : out[j].num > 0 /\ out[j].type = s.type => out[j].num < n
  <2> TAKE j \in 1..L
  <2>1. out[j] \in Piece
    BY <1>2, <1>8
  <2>2. out[j].num \in Nat
    BY <2>1 DEF Piece
  <2> QED  BY <1>6, <1>8, <2>2 DEF Counted, n
<1>17. Counted'
  <2> SUFFICES ASSUME NEW i \in 1..(L + 2), out'[i].num > 0
               PROVE  out'[i].num <= Cardinality(Holders(out', out'[i].type))
    BY <1>8 DEF Counted
  <2>1. CASE i \in 1..L
    <3>1. out'[i] = out[i] /\ out[i].num \in Nat
      <4>1. out'[i] = out[i] /\ out[i] \in Piece
        BY <1>2, <1>8, <2>1
      <4> QED  BY <4>1 DEF Piece
    <3>2. CASE out[i].type = s.type
      BY <1>7, <1>15, <1>16, <2>1, <3>1, <3>2
    <3>3. CASE out[i].type # s.type
      BY <1>8, <1>14, <2>1, <3>1, <3>3 DEF Counted
    <3> QED  BY <3>2, <3>3
  <2>2. CASE i = L + 1
    BY <1>7, <1>8, <2>2
  <2>3. CASE i = L + 2
    BY <1>7, <1>8, <1>15, <2>3
  <2> QED  BY <1>2, <2>1, <2>2, <2>3
<1>18. PlaceholdersDiffer'
  <2> SUFFICES ASSUME NEW i \in 1..(L + 2), NEW j \in 1..(L + 2), i < j,
                      out'[i].num > 0, out'[i].type = out'[j].type,
                      out'[i].num = out'[j].num
               PROVE  FALSE
    BY <1>2, <1>8 DEF PlaceholdersDiffer
  <2>1. CASE j \in 1..L
    <3>1. i \in 1..L
      BY <1>2, <2>1
    <3> QED  BY <1>8, <2>1, <3>1 DEF PlaceholdersDiffer
  <2>2. CASE j = L + 1
    BY <1>7, <1>8, <2>2
  <2>3. CASE j = L + 2
    <3>1. CASE i \in 1..L
      BY <1>7, <1>8, <1>16, <2>3, <3>1
    <3>2. CASE i = L + 1
      BY <1>7, <1>8, <3>2
    <3> QED  BY <1>2, <2>3, <3>1, <3>2
  <2> QED  BY <1>2, <2>1, <2>2, <2>3
<1> QED  BY <1>9, <1>10, <1>11, <1>12, <1>13, <1>17, <1>18

\* The masking loop writes the text behind the last span.
LEMMA WriteRestStep == SpansInv /\ WriteRest => SpansInv'
<1> SUFFICES ASSUME SpansInv, WriteRest PROVE SpansInv'
  OBVIOUS
<1> USE DEF SpansInv, input, filter
<1> DEFINE a == Copy(lastIdx, Length)
           L == Len(out)
<1>1. /\ pc = "write" /\ pc' = "done" /\ out' = Append(out, a)
      /\ UNCHANGED <<input, spans, filter, merged, lastIdx, next>>
  BY DEF WriteRest
<1>2. /\ merged \in Seq(Span) /\ out \in Seq(Piece) /\ L \in Nat
      /\ next - 1 = Len(merged) /\ Len(merged) \in Nat /\ lastIdx \in 0..Length
  <2>1. next \in Nat /\ next > Len(merged) /\ next <= Len(merged) + 1
    BY <1>1 DEF SpansTypeOK, WriteRest, Writing
  <2> QED  BY <2>1 DEF SpansTypeOK
<1>3. a \in Piece /\ a.start = lastIdx /\ a.end = Length /\ a.num = 0
  BY <1>2 DEF Copy, Piece
<1> HIDE DEF a
<1>4. /\ out' \in Seq(Piece) /\ Len(out') = L + 1 /\ out' # << >>
      /\ DOMAIN out = 1..L /\ DOMAIN out' = 1..(L + 1)
      /\ \A j \in 1..L : out'[j] = out[j]
      /\ out'[L + 1] = a
  BY <1>1, <1>2, <1>3, Appended
<1>5. SpansTypeOK' /\ Anchored' /\ Untouched'
  BY <1>1, <1>4 DEF SpansTypeOK, Anchored, Untouched
<1>6. (Filtering /\ Chosen /\ Merging /\ Merged)' /\ Due' = Due
  BY <1>1 DEF Filtering, Chosen, Merging, Merged, Due
<1>7. (SpansApart /\ TypeOfLongest)'
  BY <1>1, <1>6 DEF SpansApart, TypeOfLongest
<1>8. Writing'
  <2>1. \A c \in Nat : Hidden(c)' <=> Hidden(c)
    <3> TAKE c \in Nat
    <3>1. \A i \in 1..(L + 1) : i \in 1..L \/ i = L + 1
      BY <1>2
    <3>2. 1..L \subseteq 1..(L + 1)
      BY <1>2
    <3> QED  BY <1>3, <1>4, <3>1, <3>2 DEF Hidden
  <2>2. \A c \in Nat : Hidden(c) <=> Within(c, merged, Len(merged))
    BY <1>1, <1>2 DEF Writing
  <2>3. \A c \in Nat : Hidden(c)' <=> Within(c, merged', Len(merged'))
    BY <1>1, <2>1, <2>2, Zenon
  <2> QED  BY <1>1, <1>4, <2>3 DEF Writing
<1>9. PiecesTile'
  <2>1. \A i \in 1..L : out'[i].end = out'[i + 1].start
    <3> TAKE i \in 1..L
    <3>1. CASE i < L
      <4>1. i \in 1..(L - 1) /\ i \in 1..L /\ i + 1 \in 1..L
        BY <1>2, <3>1
      <4> QED  BY <1>4, <4>1 DEF PiecesTile
    <3>2. CASE i = L
      <4>1. L # 0 /\ out # << >> /\ L \in 1..L
        BY <1>2, <3>2
      <4>2. out[L].end = lastIdx
        BY <1>1, <4>1 DEF Writing, Last
      <4> QED  BY <1>3, <1>4, <3>2, <4>1, <4>2
    <3> QED  BY <1>2, <3>1, <3>2
  <2>2. \A i \in 1..(L + 1) : out'[i].start <= out'[i].end
    <3> TAKE i \in 1..(L + 1)
    <3>1. CASE i \in 1..L
      BY <1>4, <3>1 DEF PiecesTile
    <3>2. CASE i = L + 1
      BY <1>2, <1>3, <1>4, <3>2
    <3> QED  BY <1>2, <3>1, <3>2
  <2>3. out'[1].start = 0
    <3>1. CASE out = << >>
      BY <1>1, <1>3, <1>4, <3>1 DEF Writing
    <3>2. CASE out # << >>
      <4>1. 1 \in 1..L
        BY <1>2, <3>2
      <4> QED  BY <1>1, <1>4, <3>2, <4>1 DEF Writing
    <3> QED  BY <3>1, <3>2
  <2>4. Last(out').end = Length /\ L + 1 - 1 = L
    BY <1>2, <1>3, <1>4 DEF Last
  <2> QED  BY <1>1, <1>4, <2>1, <2>2, <2>3, <2>4 DEF PiecesTile
<1>10. \A t : Holders(out', t) = Holders(out, t)
  <2>1. \A i \in 1..(L + 1) : i \in 1..L \/ i = L + 1
    BY <1>2
  <2>2. 1..L \subseteq 1..(L + 1)
    BY <1>2
  <2> QED  BY <1>3, <1>4, <2>1, <2>2 DEF Holders
<1>11. \A i \in 1..(L + 1) : out'[i].num > 0 => i \in 1..L /\ out'[i] = out[i]
  <2> TAKE i \in 1..(L + 1)
  <2>1. CASE i \in 1..L
    BY <1>4, <2>1
  <2>2. CASE i = L + 1
    BY <1>3, <1>4, <2>2
  <2> QED  BY <1>2, <2>1, <2>2
<1>12. Counted'
  BY <1>4, <1>10, <1>11 DEF Counted
<1>13. PlaceholdersDiffer'
  <2> SUFFICES ASSUME NEW i \in 1..(L + 1), NEW j \in 1..(L + 1), i # j,
                      out'[i].num > 0,
                      <<out'[i].type, out'[i].num>> = <<out'[j].type, out'[j].num>>
               PROVE  FALSE
    BY <1>4 DEF PlaceholdersDiffer
  <2>1. out'[j].num > 0
    OBVIOUS
  <2> QED  BY <1>4, <1>11, <2>1 DEF PlaceholdersDiffer
<1> QED  BY <1>5, <1>6, <1>7, <1>8, <1>9, <1>12, <1>13

\* The invariant of span collection and masking (service.go:311-344, 540-625,
\* 914-938).
THEOREM SpansInvariance == Spec => []SpansInv
<1>1. SpansInv /\ [Next]_vars => SpansInv'
  <2> SUFFICES ASSUME SpansInv, [Next]_vars PROVE SpansInv'
    OBVIOUS
  <2>1. CASE UNCHANGED vars
    <3> USE <2>1 DEF vars, SpansInv
    <3>1. SpansTypeOK'
      BY DEF SpansTypeOK
    <3>2. (Anchored /\ Untouched)'
      BY DEF Anchored, Untouched
    <3>3. Filtering'
      BY Zenon DEF Filtering, Wanted
    <3>4. (Chosen /\ Merged /\ TypeOfLongest)'
      BY DEF Chosen, Merged, TypeOfLongest, Due
    <3>5. (Merging /\ Writing)'
      BY DEF Merging, Writing, Hidden
    <3>6. (Counted /\ PiecesTile /\ SpansApart /\ PlaceholdersDiffer)'
      BY DEF Counted, PiecesTile, SpansApart, PlaceholdersDiffer
    <3> QED  BY <3>1, <3>4, <3>5, <3>6, <3>2, <3>3
  <2> QED  BY <2>1, NoFilterStep, TakeAnchorsStep, FilterStep, FilterEndStep,
              SortStep, MergeStep, MergeEndStep, WriteStep, WriteRestStep DEF Next
<1> QED  BY <1>1, SpansInvInit, PTL DEF Spec

\* The pieces written tile the input (the slices of the masking loop).
THEOREM InputTiled == Spec => []PiecesTile
<1>1. SpansInv => PiecesTile
  BY DEF SpansInv
<1> QED  BY <1>1, SpansInvariance, PTL

\* Spans that are masked neither overlap nor touch (mergeSpans).
THEOREM SpansStayApart == Spec => []SpansApart
<1>1. SpansInv => SpansApart
  BY DEF SpansInv
<1> QED  BY <1>1, SpansInvariance, PTL

\* Placeholders of a text differ, so that the mapping holds every original
\* (the counters of Mask).
THEOREM PlaceholdersAllDiffer == Spec => []PlaceholdersDiffer
<1>1. SpansInv => PlaceholdersDiffer
  BY DEF SpansInv
<1> QED  BY <1>1, SpansInvariance, PTL

\* A placeholder bears the type of a longest span (mergeSpans' order).
THEOREM LongestTypeWins == Spec => []TypeOfLongest
<1>1. SpansInv => TypeOfLongest
  BY DEF SpansInv
<1> QED  BY <1>1, SpansInvariance, PTL

\* Exactly the characters that are due are masked (filterComposite,
\* mergeSpans and the masking loop together).
THEOREM ExactlyDueMasked == Spec => []MaskedIffDue
<1>1. SpansInv => MaskedIffDue
  <2> SUFFICES ASSUME SpansInv, pc = "done"
               PROVE  UNION {Chars(p) : p \in {q \in Range(out) : q.num > 0}} =
                        UNION {Chars(s) : s \in Due}
    BY DEF MaskedIffDue
  <2>1. out \in Seq(Piece) /\ DOMAIN out = 1..Len(out) /\ Len(out) \in Nat
    BY DEF SpansInv, SpansTypeOK
  <2>2. \A c \in Nat : Hidden(c) <=> \E s \in Due : c \in Chars(s)
    BY DEF SpansInv, Writing, Merged
  <2>3. \A p \in Range(out) : p.start \in Nat /\ p.end \in Nat
    <3>1. \A p \in Range(out) : p \in Piece
      BY <2>1 DEF Range
    <3> QED  BY <3>1 DEF Piece
  <2>4. \A s \in Due : s.start \in Nat /\ s.end \in Nat
    BY DueIs, SpanParts DEF SpansInv
  <2>5. \A c : c \in UNION {Chars(p) : p \in {q \in Range(out) : q.num > 0}} <=>
                 c \in Nat /\ Hidden(c)
    <3> TAKE c
    <3>1. ASSUME NEW p \in Range(out), p.num > 0, c \in Chars(p)
          PROVE  c \in Nat /\ Hidden(c)
      <4>1. c \in Nat /\ p.start <= c /\ c < p.end
        BY <2>3, <3>1 DEF Chars
      <4> QED  BY <3>1, <4>1 DEF Hidden, Range
    <3>2. ASSUME c \in Nat, Hidden(c)
          PROVE  \E p \in Range(out) : p.num > 0 /\ c \in Chars(p)
      <4>1. PICK i \in DOMAIN out :
              out[i].num > 0 /\ out[i].start <= c /\ c < out[i].end
        BY <3>2 DEF Hidden
      <4>2. out[i] \in Range(out)
        BY DEF Range
      <4>3. c \in Chars(out[i])
        BY <2>3, <3>2, <4>1, <4>2 DEF Chars
      <4> QED  BY <4>1, <4>2, <4>3
    <3> QED  BY <3>1, <3>2
  <2>6. \A c : c \in UNION {Chars(s) : s \in Due} => c \in Nat
    BY <2>4 DEF Chars
  <2> QED  BY <2>2, <2>5, <2>6
<1> QED  BY <1>1, SpansInvariance, PTL
=============================================================================
