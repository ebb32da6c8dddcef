CONSTANTS
  Words <- MCWords
  Given = {"ivan"}
  Patronymic = {"petrovich"}
  Surnamed = {"ivanov", "petrov", "magazin", "gospodin"}
  CommonNoun = {"magazin"}
  WeakStop = {"dlya"}
  Role = {"klient", "gospodin"}
  Stop = {"bank"}
  Famous <- MCFamous
  Texts <- MCTexts
  MinDigits = 3
  MaxDigits = 5
  FakeDigits = 4
  Separator = 10
  Matches <- MCMatches
  Counters = {0, 1, 2, 5, 9, 10, 42, 50, 55, 59, 87, 99}
  Dates <- MCDates
  NoDate = NoDate
  FirstYear = 2030
  LastYear = 2031
  Length = 4
  Types = {"CARD", "PIN"}
  Anchor = "CARD"
  Conditional = {"PIN"}
  MaxSpans = 3
SPECIFICATION DetectionSpec
INVARIANTS NoNameSkipped FullNameMasked StopWordsKept OrdinaryWordsKept RoleKept FamousPairKept
INVARIANTS LongestCardMasked FakeCardsFound LastsThroughItsMonth
INVARIANTS PiecesTile MaskedIffDue SpansApart PlaceholdersDiffer TypeOfLongest
PROPERTY ExpiredForGood
CHECK_DEADLOCK FALSE
