------------------------------ MODULE Masking ------------------------------
(***************************************************************************)
(* The three masking strategies of internal/service/service.go and the     *)
(* reverse step, as pure operators on texts.                               *)
(*                                                                         *)
(* A text is a sequence of words: the merged spans that collectSpans can   *)
(* find in it or in its masks, and the stretches between them.  What the   *)
(* detectors see at a place depends on the text as a whole: a keyword in   *)
(* front of it, a stop word in the same chunk.  So a mask is not seen the  *)
(* way its text was: what a placeholder has broken up may match where the  *)
(* text did not.  A word has a kind:                                       *)
(*    "value"  what a client wrote, of the given type                      *)
(*    "token"  the placeholder [TYPE_num]                                  *)
(*    "fake"   the num-th value of the type's synthetic pool               *)
(*    "stars"  a value with its characters starred out                     *)
(*    "stuck"  no word: the generator's loop never returns one             *)
(***************************************************************************)
EXTENDS Naturals, Sequences, FiniteSets

CONSTANTS
  Types,        \* the personal-data types ("FIO", "CARD", ...)
  NoType,       \* the type of ordinary words
  Anchor,       \* the type conditional types depend on: CARD
  Conditional,  \* the keys of compositeRules: PIN, CVV, CARD_EXP
  Ungenerated,  \* types synthValue has no generator for
  Pool,         \* Pool[t]: how many different fakes synthValue can make
  Sees(_, _)    \* Sees(text, i): the type of the merged span the detectors
                \* find at the i-th word, or something that is no type

ASSUME MaskingAssumption ==
  /\ NoType \notin Types
  /\ Conditional \cup Ungenerated \subseteq Types
  /\ Pool \in [Types -> Nat \ {0}]

Kinds == {"value", "token", "fake", "stars", "stuck"}
Word == [kind : Kinds, type : Types \cup {NoType}, num : Nat]
Text == Seq(Word)

Value(t, n) == [kind |-> "value", type |-> t, num |-> n]
Token(t, n) == [kind |-> "token", type |-> t, num |-> n]
Fake(t, n)  == [kind |-> "fake", type |-> t, num |-> n]
Stuck(t)    == [kind |-> "stuck", type |-> t, num |-> 0]

\* Asterisks keep a word's outline only, so values of one type look alike.
Stars(w) == [kind |-> "stars", type |-> w.type, num |-> 0]

Strategies == {"token", "asterisks", "synthetic"}

\* ProcessOptions, and the service's composite switch read by collectSpans.
\* An empty set of types stands for the nil MaskTypes: every type is masked.
Options == [strategy : Strategies, types : SUBSET Types,
            demask : BOOLEAN, composite : BOOLEAN]

----------------------------------------------------------------------------
(* Detection.                                                              *)

Allow(o, t) == o.types = {} \/ t \in o.types

\* What reCard matches: values and fakes are digits, masks are not.
CardLike(w) == w.type = Anchor /\ w.kind \in {"value", "fake"}

\* A card-like number anywhere is an anchor, be it maskable or not.
AnchorPresent(text) == \E i \in DOMAIN text : CardLike(text[i])

Detected(text, o) ==
  {i \in DOMAIN text :
     LET type == Sees(text, i)
     IN /\ type \in Types
        /\ Allow(o, type)
        /\ o.composite /\ type \in Conditional => AnchorPresent(text)}

----------------------------------------------------------------------------
(* The words that replace the detected words, those at the places D.       *)

Counter(text, D, i) ==
  Cardinality({j \in D : j <= i /\ Sees(text, j) = Sees(text, i)})

TokenWords(text, D) ==
  [i \in D |-> Token(Sees(text, i), Counter(text, D, i))]

StarWords(text, D) == [i \in D |-> Stars(text[i])]

\* Faulty variant of SynthValue for mutation: the used set is not consulted,
\* and the counter wraps around the pool.
SynthValue_Unchecked(t, counter, used) ==
  IF t \in Ungenerated THEN Token(t, counter)
  ELSE Fake(t, counter % Pool[t])

\* The first unused fake from counter on, round the pool; the loop spins for
\* ever once every fake of the pool is used.
SynthValue(t, counter, used) ==
  LET try(k) == Fake(t, (counter + k) % Pool[t])
      free == {k \in 0..(Pool[t] - 1) : try(k) \notin used}
  IN IF t \in Ungenerated THEN Token(t, counter)
     ELSE IF free = {} THEN Stuck(t)
     ELSE try(CHOOSE k \in free : \A m \in free : k <= m)

\* fill[n]: the words that stand in the first n places once they are masked.
SyntheticWords(text, D) ==
  LET fill[n \in 0..Len(text)] ==
        IF n = 0 THEN << >>
        ELSE LET before == fill[n - 1]
                 used == {before[i] : i \in D \cap DOMAIN before}
             IN Append(before,
                  IF n \in D
                  THEN SynthValue(Sees(text, n), Counter(text, D, n), used)
                  ELSE text[n])
      all == fill[Len(text)]
  IN [i \in D |-> all[i]]

MaskedWords(text, o) ==
  LET D == Detected(text, o)
  IN CASE o.strategy = "asterisks" -> StarWords(text, D)
       [] o.strategy = "synthetic" -> SyntheticWords(text, D)
       [] OTHER -> TokenWords(text, D)

Hangs(text, o) ==
  \E i \in Detected(text, o) : MaskedWords(text, o)[i].kind = "stuck"

----------------------------------------------------------------------------
(* The forward step, the session it leaves and the reverse step.           *)

MaskText(text, o) ==
  LET D == Detected(text, o)
      W == MaskedWords(text, o)
  IN [i \in DOMAIN text |-> IF i \in D THEN W[i] ELSE text[i]]

\* mapping[placeholder] = original; asterisks keep no mapping.
Mapping(text, o) ==
  LET D == Detected(text, o)
      W == MaskedWords(text, o)
      keys == IF o.strategy = "asterisks" THEN {} ELSE {W[i] : i \in D}
  IN [w \in keys |-> text[CHOOSE i \in D : W[i] = w]]

SessionOf(text, o) ==
  [original |-> text, masked |-> MaskText(text, o),
   mapping |-> Mapping(text, o)]

Demask(text, m) ==
  [i \in DOMAIN text |->
     IF text[i] \in DOMAIN m THEN m[text[i]] ELSE text[i]]

\* Faulty variant of Answer for mutation: the DemaskEnabled test is skipped.
Answer_AlwaysDemask(s, payload, o) ==
  IF payload = s.original THEN s.masked
  ELSE IF DOMAIN s.mapping = {} THEN
         IF payload = s.masked THEN s.original ELSE payload
  ELSE Demask(payload, s.mapping)

\* Faulty variant of Answer for mutation: the fallback for strategies without
\* a mapping is missing.
Answer_MappingOnly(s, payload, o) ==
  IF payload = s.original THEN s.masked
  ELSE IF ~o.demask THEN payload
  ELSE Demask(payload, s.mapping)

\* Faulty variant of Answer for mutation: the retry test is missing.
Answer_NoRetryTest(s, payload, o) ==
  IF ~o.demask THEN payload
  ELSE IF DOMAIN s.mapping = {} THEN
         IF payload = s.masked THEN s.original ELSE payload
  ELSE Demask(payload, s.mapping)

\* What Process returns once it has found a session.
Answer(s, payload, o) ==
  IF payload = s.original THEN s.masked
  ELSE IF ~o.demask THEN payload
  ELSE IF DOMAIN s.mapping = {} THEN
         IF payload = s.masked THEN s.original ELSE payload
  ELSE Demask(payload, s.mapping)

----------------------------------------------------------------------------
(* What a masked text owes its original.                                   *)

\* A reverse request carries parts of the mask, in any order, as a language
\* model quotes them: the words at the positions p.
Pick(text, p) == [k \in DOMAIN p |-> text[p[k]]]

\* What the client that sends back those words is owed.
Restored(text, o, p) ==
  LET back == Pick(MaskText(text, o), p)
  IN IF ~o.demask THEN back
     ELSE IF o.strategy = "asterisks" /\ Detected(text, o) # {} THEN
            IF back = MaskText(text, o) THEN text ELSE back
     ELSE Pick(text, p)

Reversible(text, o, p) ==
  Answer(SessionOf(text, o), Pick(MaskText(text, o), p), o)
    = Restored(text, o, p)

\* No word of the text is written like one of the words that mask it.
CollisionFree(text, o) ==
  \A i \in DOMAIN text, j \in Detected(text, o) :
     text[i] # MaskedWords(text, o)[j]

\* A part of the mask that reads exactly like the document: words that were
\* masked at one place and left at another, quoted so as to spell it again.
\* Process cannot tell it from a retry of the forward step.
ReadsLikeOriginal(text, o, p) ==
  Detected(text, o) # {} /\ Pick(MaskText(text, o), p) = text
=============================================================================
