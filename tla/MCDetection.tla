---------------------------- MODULE MCDetection ----------------------------
(***************************************************************************)
(* The parts of span collection, each in behaviors of its own: the search  *)
(* for names (Names), the choice of a card number in a match (Cards), and  *)
(* what is made of the spans that are found (Spans).                       *)
(***************************************************************************)
EXTENDS Names, Cards, Spans

(***************************************************************************)
(* Names: every text of up to three of ten words, one for every class of  *)
(* word and for the ways classes overlap; with every kind of gap and with  *)
(* part of the words capitalised, texts of three words that meet the rules *)
(* for exceptions; and texts of four words, the longest chunk.             *)
(***************************************************************************)
MCWords == {"ivan", "petrovich", "ivanov", "petrov", "magazin", "klient",
            "gospodin", "bank", "zavtra", "dlya"}

MCFamous == {<<"ivan", "petrov">>, <<"ivan", "petrovich", "petrov">>}

TextsOf(n, W, G, C) ==
  {t \in [words : [1..n -> W], gaps : [1..n -> G \cup {"apart"}], caps : C] :
     n > 0 => t.gaps[n] = "apart"}

MCTexts ==
  UNION {TextsOf(n, MCWords, {"near"}, {{}, 1..n}) : n \in 0..3}
    \cup TextsOf(3, {"ivan", "petrov", "klient"}, Gaps, {1..3, 2..3, 1..2})
    \cup TextsOf(4, {"ivan", "ivanov", "petrov"}, {"near"}, {{}, 1..4})

(***************************************************************************)
(* Cards: numbers of three to five digits, one separator at most.          *)
(***************************************************************************)
MCDigits == {0, 1, 4, 5, 9}

Numbers == UNION {[1..n -> MCDigits] : n \in MinDigits..MaxDigits}

MCMatches ==
  Numbers \cup
    UNION {{SubSeq(s, 1, k) \o <<Separator>> \o SubSeq(s, k + 1, Len(s)) :
              k \in 1..(Len(s) - 1)} : s \in Numbers}

MCDates == {<<3, 29>>, <<1, 30>>, <<6, 2030>>, <<12, 30>>, <<1, 31>>,
            <<11, 2031>>, <<12, 31>>, <<5, 2032>>}

----------------------------------------------------------------------------
NamesIdle ==
  /\ text = [words |-> << >>, gaps |-> << >>, caps |-> {}]
  /\ phase = "named" /\ at = 1 /\ width = 3 /\ fio = << >> /\ morph = << >>

CardsIdle ==
  /\ seg = << >> /\ step = "none" /\ len = 0 /\ end = 0
  /\ date = NoDate /\ year = FirstYear /\ month = 1

SpansIdle ==
  /\ found = << >> /\ composite = FALSE /\ cardLike = FALSE
  /\ spans = << >> /\ present = FALSE /\ kept = 0
  /\ merged = << >> /\ out = <<Copy(0, Length)>>
  /\ lastIdx = 0 /\ next = 1 /\ pc = "done"

DetectionInit ==
  \/ NamesInit /\ CardsIdle /\ SpansIdle
  \/ NamesIdle /\ CardsInit /\ SpansIdle
  \/ NamesIdle /\ CardsIdle /\ Init

DetectionNext ==
  \/ NamesNext /\ UNCHANGED <<cardsVars, vars>>
  \/ CardsNext /\ UNCHANGED <<namesVars, vars>>
  \/ Next /\ UNCHANGED <<namesVars, cardsVars>>

DetectionSpec ==
  DetectionInit /\ [][DetectionNext]_<<namesVars, cardsVars, vars>>

\* For the run that asks of names alone.
MCNamesSpec ==
  /\ NamesInit /\ CardsIdle /\ SpansIdle
  /\ [][NamesNext /\ UNCHANGED <<cardsVars, vars>>]_<<namesVars, cardsVars, vars>>
=============================================================================
