\* A process that died between two calls.
CONSTANTS
  MaxCalls = 3
  MaxStatements = 2
SPECIFICATION Spec
PROPERTY EnsureRuns
CHECK_DEADLOCK FALSE
