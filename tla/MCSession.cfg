CONSTANTS
  Types <- MCTypes
  NoType = NoType
  Anchor = "CARD"
  Conditional = {"CVV"}
  Ungenerated = {}
  Pool <- MCPool
  Sees <- MCSees
  Workers = {w1, w2}
  Ids = {"b"}
  Doc <- MCDoc
  Rules <- TwoRules
  Picks <- MCPicks
  Faults = {"forget", "getError", "setError", "abort", "restart"}
  NoSession = NoSession
  NoRule = NoRule
SYMMETRY Symmetry
SPECIFICATION Spec
INVARIANTS ForwardIdempotent ReverseRestores DemaskDisabledHides
PROPERTY SessionStable
