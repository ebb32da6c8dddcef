CONSTANTS
  Types <- MCTypes
  NoType = NoType
  Anchor = "CARD"
  Conditional = {}
  Ungenerated = {}
  Pool <- MCPool
  Sees <- MCSees
  Workers = {w1, w2}
  Faults = {"forget", "getError", "setError", "abort"}
  Ids = {"a", "b"}
  Doc <- MCDoc
  Rules <- MCRules
  Picks <- MCPicks
  NoSession = NoSession
  NoRule = NoRule
  Instances = {i1, i2}
  None = None
  FileRule <- MCFileRule
  MaxEvents = 1
SPECIFICATION ClusterFairSpec
INVARIANTS RestartsLoseNothing ForwardIdempotent ReverseRestores
PROPERTIES ImplementsSession RequestsAnswered ShutdownEnds
CHECK_DEADLOCK FALSE
