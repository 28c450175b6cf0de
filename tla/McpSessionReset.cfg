\* The promise of the reset tool, refuted.
CONSTANTS
  Name = {x}
  Fact = {p, q}
  MaxCalls = 3
  x = x
  p = p
  q = q
SPECIFICATION Spec
PROPERTY ResetClears
CHECK_DEADLOCK FALSE
