------------------------------ MODULE Spelling -----------------------------
(***************************************************************************)
(* Demask on characters (service.go:285-301).  Module Masking replaces     *)
(* whole words; the code hands the mapping to strings.NewReplacer, which   *)
(* goes through the text once from left to right and replaces whatever is  *)
(* spelled like a replacement, the keys in front of the list first.        *)
(*                                                                         *)
(* A document is a list of pieces: ordinary ones, which the mask copies,   *)
(* and masked ones, for which it writes a replacement.                     *)
(***************************************************************************)
EXTENDS Naturals, Sequences, FiniteSets, SequencesExt

CONSTANTS
  Characters,
  Documents,  \* lists of pieces [orig, fake]
  Copied      \* the fake of an ordinary piece: none

\* No piece is empty, and replacements differ (RoundTrips.DistinctReplacements).
ASSUME SpellingAssumption ==
  \A d \in Documents :
    /\ d \in Seq([orig : Seq(Characters), fake : Seq(Characters) \cup {Copied}])
    /\ \A i \in DOMAIN d : d[i].orig # << >> /\ d[i].fake # << >>
    /\ \A i, j \in DOMAIN d : d[i].fake # Copied /\ d[i].fake = d[j].fake => i = j

VARIABLES
  doc,       \* the document whose mask comes back
  pairs,     \* Demask's pairs: keys and originals in the replacer's order
  pos,       \* the character the replacer has come to
  restored,  \* what it has written
  demask     \* "sort", "replace" or "restored"

spellingVars == <<doc, pairs, pos, restored, demask>>

Original == FlattenSeq([i \in DOMAIN doc |-> doc[i].orig])

Shown(p) == IF p.fake = Copied THEN p.orig ELSE p.fake

\* The masked text.
MaskedText == FlattenSeq([i \in DOMAIN doc |-> Shown(doc[i])])

Pairs(d) ==
  {<<d[i].fake, d[i].orig>> : i \in {j \in DOMAIN d : d[j].fake # Copied}}

SpellingInit ==
  /\ doc \in Documents
  /\ pairs = << >>
  /\ pos = 1
  /\ restored = << >>
  /\ demask = "sort"

\* Faulty variant of Sorted for mutation: the short keys come first.
Sorted_ShortFirst(s) ==
  \A i, j \in DOMAIN s : i < j => Len(s[i][1]) <= Len(s[j][1])

Sorted(s) == \A i, j \in DOMAIN s : i < j => Len(s[i][1]) >= Len(s[j][1])

\* The keys come out of the map in any order and are sorted by length.
SortKeys ==
  /\ demask = "sort"
  /\ pairs' \in {s \in SetToSeqs(Pairs(doc)) : Sorted(s)}
  /\ demask' = "replace"
  /\ UNCHANGED <<doc, pos, restored>>

Occurs(key, p) ==
  /\ p + Len(key) - 1 <= Len(MaskedText)
  /\ SubSeq(MaskedText, p, p + Len(key) - 1) = key

Matching == {k \in DOMAIN pairs : Occurs(pairs[k][1], pos)}

Replace ==
  /\ demask = "replace"
  /\ \E k \in Matching :
       /\ \A j \in Matching : k <= j
       /\ restored' = restored \o pairs[k][2]
       /\ pos' = pos + Len(pairs[k][1])
  /\ UNCHANGED <<doc, pairs, demask>>

Copy1 ==
  /\ demask = "replace"
  /\ pos <= Len(MaskedText)
  /\ Matching = {}
  /\ restored' = Append(restored, MaskedText[pos])
  /\ pos' = pos + 1
  /\ UNCHANGED <<doc, pairs, demask>>

EndReplace ==
  /\ demask = "replace"
  /\ pos > Len(MaskedText)
  /\ demask' = "restored"
  /\ UNCHANGED <<doc, pairs, pos, restored>>

SpellingNext == SortKeys \/ Replace \/ Copy1 \/ EndReplace

SpellingSpec == SpellingInit /\ [][SpellingNext]_spellingVars

----------------------------------------------------------------------------
(* Properties.                                                             *)

\* Where piece i stands in the mask.
StartOf(i) == 1 + Len(FlattenSeq([j \in 1..(i - 1) |-> Shown(doc[j])]))

Within(p, i) ==
  doc[i].fake # Copied /\ p > StartOf(i) /\ p < StartOf(i) + Len(doc[i].fake)

\* Wherever a replacement's spelling occurs, it is inside a replacement that
\* was written there, or at its start and not longer than it.
Legible ==
  \A p \in 1..Len(MaskedText), pair \in Pairs(doc) :
    Occurs(pair[1], p) =>
      \/ \E i \in DOMAIN doc : Within(p, i)
      \/ \E i \in DOMAIN doc :
           /\ doc[i].fake # Copied /\ p = StartOf(i)
           /\ Len(pair[1]) <= Len(doc[i].fake)

\* The mask of a document leads back to the document character by character,
\* also when one replacement is spelled like a part of another (a CVV within
\* a card number), provided that none is spelled anywhere else.
SpelledRoundTrip == demask = "restored" /\ Legible => restored = Original
=============================================================================
