-------------------------------- MODULE Cards -------------------------------
(***************************************************************************)
(* Card numbers and their expiry dates: the choice of the part of a match  *)
(* that is masked as a card (isValidLuhn, longestLuhnCard), the numbers    *)
(* synthCard makes up, and isFutureExpiry (service.go:458-498, 550-577,    *)
(* 940-1018).                                                              *)
(*                                                                         *)
(* A match of reCard is a list of characters: digits, and the separators   *)
(* that may stand between two of them.  Months are counted 1 to 12.        *)
(***************************************************************************)
EXTENDS Integers, Sequences, FiniteSets

CONSTANTS
  MinDigits,   \* 13, the digits of the shortest card number
  MaxDigits,   \* 19, the digits of the longest
  FakeDigits,  \* 16, the digits of a number synthCard makes up
  Separator,   \* a blank or a hyphen
  Matches,     \* what reCard may find
  Counters,    \* the counters synthCard is called with
  Dates,       \* the expiry dates <<mm, yy>> that may stand beside it
  NoDate,      \* no expiry date
  FirstYear,   \* bound: the years the clock runs through
  LastYear

ASSUME CardsAssumption ==
  /\ MinDigits \in Nat \ {0, 1} /\ MaxDigits \in Nat
  /\ FakeDigits \in MinDigits..MaxDigits
  /\ Separator \notin 0..9
  \* \d(?:[ -]?\d){12,18}
  /\ \A s \in Matches : /\ s \in Seq(0..9 \cup {Separator})
                        /\ s # << >> /\ s[Len(s)] \in 0..9
  /\ Counters \subseteq Nat
  /\ Dates \subseteq Nat \X Nat
  /\ FirstYear \in 2000..2099 /\ LastYear \in FirstYear..2099

VARIABLES
  seg,    \* the match at hand
  step,   \* "whole", "prefix", "found" or "none"
  len,    \* longestLuhnCard's L
  end,    \* where the span that is masked ends
  date,   \* an expiry date, and the clock it is compared with
  year,
  month

cardsVars == <<seg, step, len, end, date, year, month>>
clock == <<year, month>>

----------------------------------------------------------------------------
(* The Luhn sum, in the code's three versions.                             *)

IsDigit(c) == c \in 0..9

Doubled(d) == IF 2 * d > 9 THEN 2 * d - 9 ELSE 2 * d

\* isValidLuhn runs from the last character to the first, past separators.
Scan(s) ==
  LET from[i \in 0..Len(s)] ==  \* after the last i characters
        IF i = 0 THEN [sum |-> 0, alt |-> FALSE, count |-> 0]
        ELSE LET r == from[i - 1]
                 c == s[Len(s) - i + 1]
             IN IF ~IsDigit(c) THEN r
                ELSE [sum |-> r.sum + (IF r.alt THEN Doubled(c) ELSE c),
                      alt |-> ~r.alt, count |-> r.count + 1]
  IN from[Len(s)]

IsValidLuhn(s) ==
  LET r == Scan(s)
  IN r.count \in MinDigits..MaxDigits /\ r.sum % 10 = 0

\* luhnOnDigits and luhnCheckDigit: the sum of the digits ds, of which every
\* second one from the right is doubled, the last one or the one before.
LuhnSum(ds, lastDoubled) ==
  LET upTo[i \in 0..Len(ds)] ==
        IF i = 0 THEN 0
        ELSE LET odd == (Len(ds) - i) % 2 = 1
             IN upTo[i - 1] + (IF odd # lastDoubled THEN Doubled(ds[i])
                               ELSE ds[i])
  IN upTo[Len(ds)]

LuhnOnDigits(ds) == LuhnSum(ds, FALSE) % 10 = 0

\* Faulty variant of LuhnCheckDigit for mutation: 10 is not reduced.
LuhnCheckDigit_Ten(ds) == 10 - (LuhnSum(ds, TRUE) % 10)

LuhnCheckDigit(ds) == (10 - (LuhnSum(ds, TRUE) % 10)) % 10

\* The digits of n in w places.
Decimal(n, w) ==
  LET power[k \in 0..w] == IF k = 0 THEN 1 ELSE 10 * power[k - 1]
  IN [i \in 1..w |-> (n \div power[w - i]) % 10]

\* synthCard: a 4, the counter, the check digit, with a blank in the middle
\* (the code has one after every four digits).
SynthCard(n) ==
  LET base == <<4>> \o Decimal(n, FakeDigits - 2)
      full == Append(base, LuhnCheckDigit(base))
      half == FakeDigits \div 2
  IN SubSeq(full, 1, half) \o <<Separator>> \o SubSeq(full, half + 1, FakeDigits)

Fakes == {SynthCard(n) : n \in Counters}

----------------------------------------------------------------------------
(* collectSpans: what is masked of a match.                                *)

\* Where the digits stand.
Ends(s) ==
  LET upTo[i \in 0..Len(s)] ==
        IF i = 0 THEN << >>
        ELSE IF IsDigit(s[i]) THEN Append(upTo[i - 1], i)
        ELSE upTo[i - 1]
  IN upTo[Len(s)]

Digits(s) == [k \in DOMAIN Ends(s) |-> s[Ends(s)[k]]]

CardsInit ==
  /\ \/ seg \in Matches \cup Fakes /\ date = NoDate
     \/ seg \in Fakes /\ date \in Dates
  /\ step = "whole"
  /\ len = 0
  /\ end = 0
  /\ year = FirstYear
  /\ month = 1

Whole ==
  /\ step = "whole"
  /\ IF IsValidLuhn(seg) THEN /\ step' = "found"
                              /\ end' = Len(seg)
                              /\ UNCHANGED len
     ELSE /\ step' = "prefix"
          /\ len' = IF Len(Digits(seg)) > MaxDigits THEN MaxDigits
                    ELSE Len(Digits(seg))
          /\ UNCHANGED end
  /\ UNCHANGED <<seg, date, clock>>

\* Faulty variant of Shorten for mutation: the shortest length is not tried.
Shorten_OffByOne ==
  /\ step = "prefix"
  /\ IF len <= MinDigits THEN step' = "none" /\ UNCHANGED <<len, end>>
     ELSE IF LuhnOnDigits(SubSeq(Digits(seg), 1, len))
     THEN step' = "found" /\ end' = Ends(seg)[len] /\ UNCHANGED len
     ELSE len' = len - 1 /\ UNCHANGED <<step, end>>
  /\ UNCHANGED <<seg, date, clock>>

\* longestLuhnCard
Shorten ==
  /\ step = "prefix"
  /\ IF len < MinDigits THEN step' = "none" /\ UNCHANGED <<len, end>>
     ELSE IF LuhnOnDigits(SubSeq(Digits(seg), 1, len))
     THEN step' = "found" /\ end' = Ends(seg)[len] /\ UNCHANGED len
     ELSE len' = len - 1 /\ UNCHANGED <<step, end>>
  /\ UNCHANGED <<seg, date, clock>>

----------------------------------------------------------------------------
(* Expiry dates.                                                           *)

\* Faulty variant of IsFutureExpiry for mutation: the year is not looked at
\* unless it has passed.
IsFutureExpiry_MonthOnly(mm, yy, y, m) ==
  LET full == IF yy < 100 THEN yy + 2000 ELSE yy
  IN mm \in 1..12 /\ full >= y /\ mm >= m

\* Faulty variant of IsFutureExpiry for mutation: two digits are no year.
IsFutureExpiry_TwoDigits(mm, yy, y, m) ==
  mm \in 1..12 /\ IF yy # y THEN yy > y ELSE mm >= m

IsFutureExpiry(mm, yy, y, m) ==
  LET full == IF yy < 100 THEN yy + 2000 ELSE yy
  IN mm \in 1..12 /\ IF full # y THEN full > y ELSE mm >= m

Future == date # NoDate /\ IsFutureExpiry(date[1], date[2], year, month)

\* time.Now; without a date nothing depends on it.
NextMonth ==
  /\ date # NoDate
  /\ year < LastYear \/ month < 12
  /\ month' = (month % 12) + 1
  /\ year' = IF month = 12 THEN year + 1 ELSE year
  /\ UNCHANGED <<seg, step, len, end, date>>

CardsNext == Whole \/ Shorten \/ NextMonth

CardsSpec == CardsInit /\ [][CardsNext]_cardsVars

----------------------------------------------------------------------------
(* Properties.                                                             *)

\* The Luhn rule: from the right, the digits in even places count double.
Luhn(ds) ==
  LET weight(i) == IF (Len(ds) - i) % 2 = 1 THEN Doubled(ds[i]) ELSE ds[i]
      total[S \in SUBSET DOMAIN ds] ==
        IF S = {} THEN 0
        ELSE LET i == CHOOSE j \in S : TRUE IN weight(i) + total[S \ {i}]
  IN total[DOMAIN ds] % 10 = 0

CardPrefix(n) ==
  n \in MinDigits..MaxDigits /\ Luhn(SubSeq(Digits(seg), 1, n))

\* What is masked of a match is its longest part, from its first digit, that
\* is a card number: it ends with a digit, a longer valid number is not cut
\* short, and nothing is masked only if no part is a card number.  The two
\* Luhn sums of the code do not disagree.
LongestCardMasked ==
  /\ step = "found" =>
       \E n \in DOMAIN Digits(seg) :
         /\ CardPrefix(n) /\ end = Ends(seg)[n]
         /\ \A m \in DOMAIN Digits(seg) : CardPrefix(m) => m <= n
  /\ step = "none" => \A n \in DOMAIN Digits(seg) : ~CardPrefix(n)

\* A number made up by synthCard is a card number to the detectors, and all
\* of it: a fake card anchors the conditional types of a mask as the card did.
FakeCardsFound ==
  seg \in Fakes /\ step # "whole" => step = "found" /\ end = Len(seg)

\* A card is due to be masked through the last day of its month.
LastsThroughItsMonth ==
  date # NoDate /\ date[1] \in 1..12 =>
    LET last == 12 * (IF date[2] < 100 THEN date[2] + 2000 ELSE date[2])
                  + date[1]
    IN Future <=> 12 * year + month <= last

\* A card that has expired does not come back to life.
ExpiredForGood == [][~Future => ~Future']_clock
=============================================================================
