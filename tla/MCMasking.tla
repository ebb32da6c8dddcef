----------------------------- MODULE MCMasking -----------------------------
(***************************************************************************)
(* Masks every small text under every rule of a small set, sends every     *)
(* short selection of the mask back, and compares what comes back: word by *)
(* word (RoundTrips) or, in behaviors of their own, character by character *)
(* (Spelling).                                                             *)
(***************************************************************************)
EXTENDS RoundTrips, Spelling

CONSTANTS
  MaxWords,  \* bound: words of a text
  MaxPieces  \* bound: pieces of a document that is looked at by character

vars == <<tripVars, spellingVars>>

\* FIO stands for the types with a pattern and a pool of their own, CVV for
\* the conditional ones behind a keyword, CITY for those whose pattern takes
\* whatever follows its keyword, with a pool of one, DRIVER for those without
\* a generator.
MCTypes == {"FIO", "CARD", "CVV", "CITY", "DRIVER"}
MCPool == [t \in MCTypes |-> IF t = "CITY" THEN 1 ELSE 2]

\* Words as clients write them: a known first name, a capitalised word no list
\* has, a card, a card-like number that is none, other values, a stop word,
\* two keywords, and words that happen to be written like a placeholder or
\* like a name of the synthetic pool.
Ivan == Value("FIO", 1)
Lyutik == Value("FIO", 2)
Moskva == Value(NoType, 1)
Kod == Value(NoType, 2)
Gorod == Value(NoType, 3)

MCWords ==
  {Ivan, Lyutik, Moskva, Kod, Gorod, Value("CARD", 1), Value("CARD", 2),
   Value("CVV", 1), Value("DRIVER", 1), Token("FIO", 1), Fake("FIO", 1)}

MCTexts == UNION {[1..n -> MCWords] : n \in 0..MaxWords}

Written(w) == w.kind \in {"value", "fake"}
Capitalised(w) == w = Moskva \/ (w.type = "FIO" /\ Written(w))

\* A stop word spoils the chunk of capitalised words it stands in.
Spoiled(text, i) ==
  \E j \in DOMAIN text :
    /\ text[j] = Moskva
    /\ \A k \in (i..j) \cup (j..i) : Capitalised(text[k])

\* A small detector of the kind the real ones are: it looks at what stands
\* around a word, and at placeholders too where a keyword takes anything.
MCSees(text, i) ==
  LET w == text[i]
      behind(keyword) == i > 1 /\ text[i - 1] = keyword
  IN IF behind(Gorod) THEN "CITY"
     ELSE IF ~Written(w) \/ w = Value("CARD", 2) THEN NoType
     ELSE IF w.type = "CVV" /\ ~behind(Kod) THEN NoType
     ELSE IF w = Lyutik /\ Spoiled(text, i) THEN NoType
     ELSE w.type

MCRules == [strategy : Strategies, types : {{}, {"FIO", "CVV"}},
            demask : {TRUE}, composite : BOOLEAN]

\* Characters: 1 and 2 in replacements and ordinary pieces, 3 and 4 in what
\* was masked.
Spelled(A, n) == UNION {[1..k -> A] : k \in 1..n}

Pieces == [orig : Spelled({1, 2}, 2), fake : {Copied}]
            \cup [orig : {<<3>>, <<1, 4>>},
                  fake : Spelled({1, 2}, 2) \cup {<<1, 2, 1>>}]

MCDocuments ==
  {d \in UNION {[1..n -> Pieces] : n \in 1..MaxPieces} :
     \A i, j \in DOMAIN d :
       d[i].fake # Copied /\ d[i].fake = d[j].fake => i = j}

TripIdle ==
  /\ input = << >> /\ stage = "idle"
  /\ session = << >> /\ sent = << >> /\ reply = << >>
  /\ opts \in [strategy : {"token"}, types : {{}}, demask : {TRUE},
               composite : {TRUE}]

SpellingIdle ==
  doc = << >> /\ pairs = << >> /\ pos = 1 /\ restored = << >> /\ demask = "idle"

Init ==
  \/ TripInit /\ SpellingIdle
  \/ TripIdle /\ SpellingInit

Next ==
  \/ TripNext /\ UNCHANGED spellingVars
  \/ SpellingNext /\ UNCHANGED tripVars

Spec == Init /\ [][Next]_vars
=============================================================================
