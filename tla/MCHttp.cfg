CONSTANTS
  Conns = {c1, c2, c3}
  Max = 2
  Threshold = 2
  Admins = {a1, a2}
  Callers = {r1}
  Systems = {"x"}
  Rules <- MCRules
  NoRule = NoRule
  Default = Default
  Refused = Refused
  Keep = Keep
  MaxPuts = 2
SYMMETRY Symmetry
SPECIFICATION HttpSpec
INVARIANTS TypeOK CountersExact AdmissionBound OvershootBound SequentialStreak
INVARIANTS DecisionInForce SwitchAsStored
