-------------------------------- MODULE Spans ------------------------------
(***************************************************************************)
(* From the spans the detectors find to the masked text: collectSpans'     *)
(* composite filter, mergeSpans, and the loop that Mask, MaskSynthetic and *)
(* MaskAsterisks share (service.go:311-344, 540-625, 914-938).  Two        *)
(* detectors may find overlapping, nested, touching or equal spans.        *)
(***************************************************************************)
EXTENDS Naturals, Sequences, FiniteSets, Functions

CONSTANTS
  Length,       \* the input's length
  Types,        \* the personal-data types
  Anchor,       \* CARD
  Conditional,  \* the keys of compositeRules
  MaxSpans      \* bound: how many spans the detectors find

ASSUME SpansAssumption ==
  /\ Length \in Nat /\ MaxSpans \in Nat
  /\ Conditional \subseteq Types

VARIABLES
  found,      \* history: the spans the detectors have found, in their order
  composite,  \* Service.composite
  cardLike,   \* reCard matches the input
  spans,      \* the slice collectSpans works on
  present,    \* filterComposite has taken down an anchor
  kept,       \* the length of filterComposite's out, which shares the slice
  merged,     \* mergeSpans' result so far
  out,        \* the pieces written to the strings.Builder
  lastIdx,    \* where the next piece starts
  next,       \* the index of the loop at hand
  pc

vars == <<found, composite, cardLike, spans, present, kept, merged, out,
          lastIdx, next, pc>>
input == <<found, composite, cardLike>>
filter == <<present, kept>>

Span == {s \in [start : 0..Length, end : 0..Length, type : Types] :
           s.start < s.end}

Found == UNION {[1..n -> Span] : n \in 0..MaxSpans}

Last(s) == s[Len(s)]

\* Every CARD span comes from a match of reCard.
Init ==
  /\ found \in Found
  /\ composite \in BOOLEAN
  /\ cardLike \in BOOLEAN
  /\ (\E s \in Range(found) : s.type = Anchor) => cardLike
  /\ spans = found
  /\ present = FALSE /\ kept = 0
  /\ merged = << >> /\ out = << >> /\ lastIdx = 0 /\ next = 1
  /\ pc = "collected"

----------------------------------------------------------------------------
(* collectSpans and filterComposite.                                       *)

\* Without a span the input is returned as it is.
NoFilter ==
  /\ pc = "collected"
  /\ ~composite
  /\ pc' = IF spans = << >> THEN "write" ELSE "sort"
  /\ UNCHANGED <<input, spans, filter, merged, out, lastIdx, next>>

TakeAnchors ==
  /\ pc = "collected"
  /\ composite
  /\ present' = (cardLike \/ \E s \in Range(spans) : s.type = Anchor)
  /\ pc' = "filter"
  /\ UNCHANGED <<input, spans, kept, merged, out, lastIdx, next>>

\* Faulty variant of Keeps for mutation: an anchor must stand in the part of
\* the slice that has been filtered.
Keeps_SoFar(s) ==
  s.type \in Conditional => \E i \in 1..kept : spans[i].type = Anchor

Keeps(s) == s.type \in Conditional => present

\* The loop's range is the slice as it was; out is written over it.
Filter ==
  /\ pc = "filter"
  /\ next <= Len(spans)
  /\ IF Keeps(spans[next])
     THEN /\ spans' = [spans EXCEPT ![kept + 1] = spans[next]]
          /\ kept' = kept + 1
     ELSE UNCHANGED <<spans, kept>>
  /\ next' = next + 1
  /\ UNCHANGED <<input, present, merged, out, lastIdx, pc>>

FilterEnd ==
  /\ pc = "filter"
  /\ next > Len(spans)
  /\ spans' = [i \in 1..kept |-> spans[i]]
  /\ next' = 1
  /\ pc' = IF kept = 0 THEN "write" ELSE "sort"
  /\ UNCHANGED <<input, filter, merged, out, lastIdx>>

----------------------------------------------------------------------------
(* mergeSpans.                                                             *)

\* Faulty variant of Before for mutation: ends are not compared.
Before_StartOnly(s, t) == s.start < t.start

Before(s, t) == s.start < t.start \/ (s.start = t.start /\ s.end > t.end)

\* sort.Slice, in which spans that differ only in type may end in any order.
Sort ==
  /\ pc = "sort"
  /\ \E p \in [DOMAIN spans -> DOMAIN spans] :
       /\ \A i, j \in DOMAIN p : i # j => p[i] # p[j]
       /\ \A i, j \in DOMAIN p : i < j => ~Before(spans[p[j]], spans[p[i]])
       /\ spans' = [i \in DOMAIN spans |-> spans[p[i]]]
       /\ merged' = <<spans'[1]>>
  /\ next' = 2
  /\ pc' = "merge"
  /\ UNCHANGED <<input, filter, out, lastIdx>>

\* Faulty variant of Touches for mutation: touching spans stay apart.
Touches_Strict(last, curr) == curr.start < last.end

Touches(last, curr) == curr.start <= last.end

\* The first span's type stands for everything that is joined to it.
Grown(last, curr) ==
  [last EXCEPT !.end = IF curr.end > last.end THEN curr.end ELSE last.end]

Merge ==
  /\ pc = "merge"
  /\ next <= Len(spans)
  /\ LET curr == spans[next]
     IN merged' = IF Touches(Last(merged), curr)
                  THEN [merged EXCEPT ![Len(merged)] = Grown(@, curr)]
                  ELSE Append(merged, curr)
  /\ next' = next + 1
  /\ UNCHANGED <<input, spans, filter, out, lastIdx, pc>>

MergeEnd ==
  /\ pc = "merge"
  /\ next > Len(spans)
  /\ next' = 1
  /\ pc' = "write"
  /\ UNCHANGED <<input, spans, filter, merged, out, lastIdx>>

----------------------------------------------------------------------------
(* The masking loop.                                                       *)

\* num: the placeholder's number among those of its type; 0: copied text.
Copy(a, b) == [start |-> a, end |-> b, type |-> "text", num |-> 0]
Masked(s, n) == [start |-> s.start, end |-> s.end, type |-> s.type, num |-> n]

\* Faulty variant of Numbered for mutation: one number serves every span.
Numbered_Constant(type) == 1

\* counters[type]
Numbered(type) ==
  1 + Cardinality({i \in DOMAIN out : out[i].type = type /\ out[i].num > 0})

\* Faulty variant of Write for mutation: lastIdx stays before the span.
Write_NotPast ==
  /\ pc = "write"
  /\ next <= Len(merged)
  /\ out' = out \o <<Copy(lastIdx, merged[next].start),
                     Masked(merged[next], Numbered(merged[next].type))>>
  /\ lastIdx' = merged[next].start
  /\ next' = next + 1
  /\ UNCHANGED <<input, spans, filter, merged, pc>>

Write ==
  /\ pc = "write"
  /\ next <= Len(merged)
  /\ LET s == merged[next]
     IN IF s.start < lastIdx THEN UNCHANGED <<out, lastIdx>>
        ELSE /\ out' = out \o <<Copy(lastIdx, s.start),
                                Masked(s, Numbered(s.type))>>
             /\ lastIdx' = s.end
  /\ next' = next + 1
  /\ UNCHANGED <<input, spans, filter, merged, pc>>

WriteRest ==
  /\ pc = "write"
  /\ next > Len(merged)
  /\ out' = Append(out, Copy(lastIdx, Length))
  /\ pc' = "done"
  /\ UNCHANGED <<input, spans, filter, merged, lastIdx, next>>

Next ==
  \/ NoFilter \/ TakeAnchors \/ Filter \/ FilterEnd
  \/ Sort \/ Merge \/ MergeEnd
  \/ Write \/ WriteRest

Spec == Init /\ [][Next]_vars

----------------------------------------------------------------------------
(* Properties.                                                             *)

Chars(s) == s.start..(s.end - 1)

\* What must be masked: with composite masking a conditional type only where
\* the text has something like a card number.
Due == {s \in Range(found) :
          composite /\ s.type \in Conditional => cardLike}

\* The pieces written tile the input: each starts where the one before ended,
\* so that nothing of the input is dropped, doubled or out of order (the
\* slices input[lastIdx:span.Start] and input[span.Start:span.End]).
PiecesTile ==
  /\ \A i \in 1..(Len(out) - 1) : out[i].end = out[i + 1].start
  /\ \A i \in DOMAIN out : out[i].start <= out[i].end
  /\ pc = "done" => out[1].start = 0 /\ Last(out).end = Length

\* In the result a character is masked if and only if a detector's span, its
\* anchor present, covers it: no detected character leaks through an overlap,
\* a nested span or a filter working in place, and nothing else is masked.
MaskedIffDue ==
  pc = "done" =>
    UNION {Chars(p) : p \in {q \in Range(out) : q.num > 0}} =
      UNION {Chars(s) : s \in Due}

\* Two placeholders never stand side by side, nor for the same text twice:
\* whatever the sort made of ties, spans that touch are one (mergeSpans).
SpansApart ==
  \A i \in 1..(Len(merged) - 1) : merged[i].end < merged[i + 1].start

\* No two pieces bear the same placeholder, so that the mapping keeps every
\* original.
PlaceholdersDiffer ==
  \A i, j \in DOMAIN out :
    out[i].num > 0 /\ i # j =>
      <<out[i].type, out[i].num>> # <<out[j].type, out[j].num>>

\* A placeholder bears the type of a longest span that starts where it does.
TypeOfLongest ==
  \A m \in Range(merged) :
    \E s \in Due :
      /\ s.start = m.start /\ s.type = m.type
      /\ \A t \in Due : t.start = m.start => t.end <= s.end
=============================================================================
