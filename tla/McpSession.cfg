\* Every mode; four calls of any tool with any outcome.
CONSTANTS
  Name = {x}
  Fact = {p, q}
  MaxCalls = 4
  x = x
  p = p
  q = q
SPECIFICATION Spec
INVARIANTS TypeOK StatsAddUp NoWarningMeansAssumed
PROPERTY FailureKeepsSession
CHECK_DEADLOCK FALSE
