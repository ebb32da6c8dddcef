-------------------------------- MODULE Names -------------------------------
(***************************************************************************)
(* The search for personal names in collectSpans: findFIO, which takes     *)
(* chunks of capitalised words, and findFIOMorph, which slides windows of  *)
(* three words, two and one over all words and asks what kind of word each *)
(* is (service.go:627-881).                                                *)
(*                                                                         *)
(* A text is a list of words as tokenizeWords finds them, what stands in   *)
(* the gap after each, and which of them are written with a capital.       *)
(* A span is given by the indices of its first and last word.  The         *)
(* patterns for initials ("I. I. Ivanov") are left out.                    *)
(***************************************************************************)
EXTENDS Naturals, Sequences

CONSTANTS
  Words,
  Given,       \* givenNames, inflected
  Patronymic,  \* the words isPatronymic holds of
  Surnamed,    \* five letters or more and a suffix of surnameSuffixes
  CommonNoun,  \* commonNouns
  WeakStop,    \* weakStop
  Role,        \* roleWords
  Stop,        \* stopTokens
  Famous,      \* famousNames: lists of two or three words
  Texts        \* the inputs

\* What stands between two words: blanks, tabs or hyphens, three at most
\* ("near" if there is no hyphen, else "hyphen"), more or other white space
\* ("wide"), something else ("apart"), which may end with a dot ("dot").
Gaps == {"near", "hyphen", "wide", "apart", "dot"}

ASSUME NamesAssumption ==
  /\ Given \cup Patronymic \cup Surnamed \subseteq Words
  /\ CommonNoun \cup WeakStop \cup Role \cup Stop \subseteq Words
  /\ \A t \in Texts :
       /\ t.words \in Seq(Words)
       /\ t.gaps \in [1..Len(t.words) -> Gaps]
       /\ t.caps \subseteq 1..Len(t.words)

VARIABLES
  text,   \* the input
  phase,  \* "capitals" (findFIO), "morph" (findFIOMorph), "named"
  at,     \* the word the search has come to
  width,  \* findFIOMorph's w: how many words it tries
  fio,    \* findFIO's result
  morph   \* findFIOMorph's result

namesVars == <<text, phase, at, width, fio, morph>>

Size == Len(text.words)

----------------------------------------------------------------------------
(* What a word is.                                                         *)

Strong(x) == x \notin CommonNoun /\ x \in Given \cup Patronymic

\* classifyName
NameLike(x) == Strong(x) \/ (x \notin CommonNoun /\ x \in Surnamed)

Disqualified(x) == x \in CommonNoun \cup WeakStop \cup Role \cup Stop

\* Exceptions, as findFIO tests them.  Faulty variant for mutation: only the
\* first word is looked up among the stop words.
CoreIsFalse_FirstOnly(s) ==
  \/ s[1] \in Stop
  \/ Len(s) >= 2 /\ {<<s[1], s[2]>>, <<s[2], s[1]>>} \cap Famous # {}
  \/ Len(s) = 3 /\ s \in Famous

CoreIsFalse(s) ==
  \/ \E k \in DOMAIN s : s[k] \in Stop
  \/ Len(s) >= 2 /\ {<<s[1], s[2]>>, <<s[2], s[1]>>} \cap Famous # {}
  \/ Len(s) = 3 /\ s \in Famous

\* The other copy of the test, findFIOMorph's.  Faulty variant for mutation:
\* the surname must come second.
MorphIsFalse_InOrder(s) ==
  \/ \E k \in DOMAIN s : s[k] \in Stop
  \/ Len(s) >= 2 /\ <<s[1], s[2]>> \in Famous
  \/ Len(s) = 3 /\ s \in Famous

MorphIsFalse(s) ==
  \/ \E k \in DOMAIN s : s[k] \in Stop
  \/ Len(s) >= 2 /\ {<<s[1], s[2]>>, <<s[2], s[1]>>} \cap Famous # {}
  \/ Len(s) = 3 /\ s \in Famous

Slice(t, i, w) == [k \in 1..w |-> t.words[i + k - 1]]

NamesInit ==
  /\ text \in Texts
  /\ phase = "capitals"
  /\ at = 1
  /\ width = 3
  /\ fio = << >>
  /\ morph = << >>

----------------------------------------------------------------------------
(* findFIO: reFIO takes two to four capitalised words with white space     *)
(* between them, as many as there are, and goes on behind them.            *)

Chunk(t, i, n) ==
  /\ i + n - 1 <= Len(t.words)
  /\ \A k \in i..(i + n - 1) : k \in t.caps
  /\ \A k \in i..(i + n - 2) : t.gaps[k] \in {"near", "wide"}

AfterDot(t, i) == i > 1 /\ t.gaps[i - 1] = "dot"

\* The words in front of the core are the leading role words.
CoreStart(t, i, n) ==
  CHOOSE c \in i..(i + n) :
    /\ \A k \in i..(c - 1) : t.words[k] \in Role
    /\ c < i + n => t.words[c] \notin Role

\* Faulty variant of TakeChunk for mutation: the role words stay.
TakeChunk_WithRole(n) ==
  /\ phase = "capitals"
  /\ Chunk(text, at, n)
  /\ n < 4 => ~Chunk(text, at, n + 1)
  /\ LET c == CoreStart(text, at, n)
         size == at + n - c
     IN fio' = IF AfterDot(text, at) \/ size < 2 \/ CoreIsFalse(Slice(text, c, size))
               THEN fio
               ELSE Append(fio, [from |-> at, to |-> at + n - 1])
  /\ at' = at + n
  /\ UNCHANGED <<text, phase, width, morph>>

TakeChunk(n) ==
  /\ phase = "capitals"
  /\ Chunk(text, at, n)
  /\ n < 4 => ~Chunk(text, at, n + 1)
  /\ LET c == CoreStart(text, at, n)
         size == at + n - c
     IN fio' = IF AfterDot(text, at) \/ size < 2 \/ CoreIsFalse(Slice(text, c, size))
               THEN fio
               ELSE Append(fio, [from |-> c, to |-> at + n - 1])
  /\ at' = at + n
  /\ UNCHANGED <<text, phase, width, morph>>

NoChunk ==
  /\ phase = "capitals"
  /\ at <= Size
  /\ ~Chunk(text, at, 2)
  /\ at' = at + 1
  /\ UNCHANGED <<text, phase, width, fio, morph>>

EndCapitals ==
  /\ phase = "capitals"
  /\ at > Size
  /\ phase' = "morph"
  /\ at' = 1
  /\ UNCHANGED <<text, width, fio, morph>>

----------------------------------------------------------------------------
(* findFIOMorph.                                                           *)

\* adjacentTokens, within the text
Window(t, i, w) ==
  /\ i + w - 1 <= Len(t.words)
  /\ \A k \in i..(i + w - 2) : t.gaps[k] \in {"near", "hyphen"}

AllNames(t, i, w) == \A k \in i..(i + w - 1) : NameLike(t.words[k])
SomeStrong(t, i, w) == \E k \in i..(i + w - 1) : Strong(t.words[k])

\* A surname, a first name no list has, a patronymic.
Bridge(t, i, w) ==
  /\ w = 3
  /\ NameLike(t.words[i])
  /\ ~Disqualified(t.words[i + 1])
  /\ NameLike(t.words[i + 2])

\* Faulty variant of Named for mutation: the middle of a bridge may be
\* anything.
Named_AnyBridge(t, i, w) ==
  IF w = 1 THEN t.words[i] \in Patronymic
  ELSE /\ SomeStrong(t, i, w)
       /\ \/ AllNames(t, i, w)
          \/ w = 3 /\ NameLike(t.words[i]) /\ NameLike(t.words[i + 2])

Named(t, i, w) ==
  IF w = 1 THEN t.words[i] \in Patronymic
  ELSE SomeStrong(t, i, w) /\ (AllNames(t, i, w) \/ Bridge(t, i, w))

Acceptable(t, i, w) ==
  Window(t, i, w) /\ Named(t, i, w) /\ ~MorphIsFalse(Slice(t, i, w))

\* Faulty variant of Accept for mutation: a span ends before its last word.
Accept_ShortSpan ==
  /\ phase = "morph" /\ at <= Size
  /\ width > 0 /\ Acceptable(text, at, width)
  /\ morph' = Append(morph, [from |-> at, to |-> at + width - 2])
  /\ at' = at + width
  /\ width' = 3
  /\ UNCHANGED <<text, phase, fio>>

Accept ==
  /\ phase = "morph" /\ at <= Size
  /\ width > 0 /\ Acceptable(text, at, width)
  /\ morph' = Append(morph, [from |-> at, to |-> at + width - 1])
  /\ at' = at + width
  /\ width' = 3
  /\ UNCHANGED <<text, phase, fio>>

Narrow ==
  /\ phase = "morph" /\ at <= Size
  /\ width > 0 /\ ~Acceptable(text, at, width)
  /\ width' = width - 1
  /\ UNCHANGED <<text, phase, at, fio, morph>>

\* Faulty variant of Skip for mutation: no word is tried on its own.
Skip_Early ==
  /\ phase = "morph" /\ at <= Size
  /\ width <= 1
  /\ at' = at + 1
  /\ width' = 3
  /\ UNCHANGED <<text, phase, fio, morph>>

Skip ==
  /\ phase = "morph" /\ at <= Size
  /\ width = 0
  /\ at' = at + 1
  /\ width' = 3
  /\ UNCHANGED <<text, phase, fio, morph>>

EndMorph ==
  /\ phase = "morph" /\ at > Size
  /\ phase' = "named"
  /\ UNCHANGED <<text, at, width, fio, morph>>

NamesNext ==
  \/ \E n \in 2..4 : TakeChunk(n)
  \/ NoChunk \/ EndCapitals
  \/ Accept \/ Narrow \/ Skip \/ EndMorph

NamesSpec == NamesInit /\ [][NamesNext]_namesVars

----------------------------------------------------------------------------
(* Properties.                                                             *)

In(k, s) == \E i \in DOMAIN s : k \in s[i].from..s[i].to

\* A word of a name, to be masked.
Covered(k) == In(k, fio) \/ In(k, morph)

NamesTypeOK ==
  /\ text \in Texts
  /\ phase \in {"capitals", "morph", "named"}
  /\ at \in Nat \ {0}
  /\ width \in 0..3
  /\ fio \in Seq([from : 1..Size, to : 1..Size])
  /\ morph \in Seq([from : 1..Size, to : 1..Size])

\* The spans of a search come in order and do not overlap, and the search is
\* behind the last of them: no word is looked at again once it is in a span.
SpansInOrder ==
  /\ \A s \in {fio, morph} : \A i, j \in DOMAIN s :
       i < j => s[i].to < s[j].from
  /\ \A i \in DOMAIN morph : morph[i].from <= morph[i].to /\ morph[i].to < at
  /\ phase = "capitals" => \A i \in DOMAIN fio : fio[i].to < at

\* No name behind the search is lost: wherever a window of any width reads
\* like a name and is no exception, its first word is masked, although spans
\* found before may have cut the window short and a wider window may have
\* been refused.
NoNameSkipped ==
  phase \in {"morph", "named"} =>
    \A i \in 1..Size : i < at =>
      \A w \in 1..3 : Acceptable(text, i, w) => In(i, morph)

\* A name on its own - the whole of a run of joined words - is masked from
\* its first word to its last.
Alone(t, i, w) ==
  /\ Window(t, i, w)
  /\ i > 1 => t.gaps[i - 1] \notin {"near", "hyphen"}
  /\ i + w <= Len(t.words) => t.gaps[i + w - 1] \notin {"near", "hyphen"}

FullNameMasked ==
  phase = "named" =>
    \A i \in 1..Size, w \in 1..3 :
      Alone(text, i, w) /\ Acceptable(text, i, w) =>
        \A k \in i..(i + w - 1) : In(k, morph)

\* Neither search takes in a word of the stop list (a town, a bank, a firm), in
\* whatever place of a chunk or a window it stands (coreIsFalse, morphIsFalse).
StopWordsKept ==
  \A k \in 1..Size : text.words[k] \in Stop => ~Covered(k)

\* Nothing but names: a word that is no name is masked by findFIOMorph only as
\* the middle one of three, between two words that are names, and only if it is
\* on none of the lists of ordinary words.  (A word of those lists that is built
\* like a surname is a name to the code.)
OrdinaryWordsKept ==
  \A k \in 1..Size :
    /\ In(k, morph)
    /\ ~NameLike(text.words[k]) /\ text.words[k] \notin Patronymic
    => /\ \E j \in DOMAIN morph : morph[j] = [from |-> k - 1, to |-> k + 1]
       /\ NameLike(text.words[k - 1]) /\ NameLike(text.words[k + 1])
       /\ ~Disqualified(text.words[k])

\* findFIO cuts off every role word in front of a name (review.md:72-73), and
\* findFIOMorph takes no role word at all - unless it is built like a surname or
\* a patronymic: a "grazhdanin" or "gospodin" is masked with the name behind it.
RoleKept ==
  \A k \in 1..Size : text.words[k] \in Role =>
    /\ (k > 1 => text.gaps[k - 1] \notin {"near", "wide"}) => ~In(k, fio)
    /\ ~NameLike(text.words[k]) /\ text.words[k] \notin Patronymic
         => ~In(k, morph)

\* A famous person's name, in a sentence of its own.
FamousAlone(t, i, w) ==
  /\ Window(t, i, w)
  /\ {i - 1, i + w - 1} \cap (1..(Len(t.words) - 1)) \subseteq
       {k \in 1..Len(t.words) : t.gaps[k] \in {"apart", "dot"}}
  /\ \/ Slice(t, i, w) \in Famous
     \/ w = 2 /\ <<t.words[i + 1], t.words[i]>> \in Famous

\* A famous person's name of two words is not masked, in either order,
\* unless one of the words is a patronymic.
FamousPairKept ==
  \A i \in 1..Size :
    /\ FamousAlone(text, i, 2)
    /\ {text.words[i], text.words[i + 1]} \cap Patronymic = {}
    => ~Covered(i) /\ ~Covered(i + 1)

\* review.md:202-203: famous persons are not masked.
FamousKept ==
  \A i \in 1..Size, w \in 2..3 :
    FamousAlone(text, i, w) => \A k \in i..(i + w - 1) : ~Covered(k)
=============================================================================
