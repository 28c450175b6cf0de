\* Two statements in one expression.
CONSTANTS
  MaxCalls = 3
  MaxStatements = 2
SPECIFICATION Spec
INVARIANT LastValue
CHECK_DEADLOCK FALSE
