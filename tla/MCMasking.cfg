CONSTANTS
  Types <- MCTypes
  NoType = NoType
  Anchor = "CARD"
  Conditional = {"CVV"}
  Ungenerated = {"DRIVER"}
  Pool <- MCPool
  Sees <- MCSees
  Texts <- MCTexts
  TripRules <- MCRules
  MaxWords = 3
  MaxPick = 2
  MaxPieces = 3
  Characters = {1, 2, 3, 4}
  Documents <- MCDocuments
  Copied = Copied
SPECIFICATION Spec
INVARIANTS RoundTrip DistinctReplacements SpelledRoundTrip
CHECK_DEADLOCK FALSE
