SPECIFICATION Spec
CONSTANTS
  MaxGen = 2
  MaxCalls = 2
  Printable = {}
  MaxNoise = 0
  MaxBlank = 0
  MaxNonJson = 0
PROPERTY
  NoneMeansEof
CHECK_DEADLOCK FALSE
