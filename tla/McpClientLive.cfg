SPECIFICATION FairSpec
CONSTANTS
  MaxGen = 2
  MaxCalls = 1
  Printable = {"blank", "noise"}
  MaxNoise = 1
  MaxBlank = 1
  MaxNonJson = 1
PROPERTY
  CallReturns
CHECK_DEADLOCK FALSE
