CONSTANTS
  Types <- MCTypes
  NoType = NoType
  Anchor = "CARD"
  Conditional = {"CVV"}
  Ungenerated = {}
  Pool <- MCPool
  Sees <- MCSees
  Workers = {w1, w2}
  Picks <- MCPicks
  Doc <- MCDoc
  NoSession = NoSession
  NoRule = NoRule
  Ids = {"c"}
  Rules <- SyntheticRule
  Faults = {}
SPECIFICATION FairSpec
PROPERTY EveryRequestAnswered
CHECK_DEADLOCK FALSE
