\* Three calls of one statement each, or of up to two statements.
CONSTANTS
  MaxCalls = 3
  MaxStatements = 2
SPECIFICATION FairSpec
INVARIANTS TypeOK OwnAnswer InStep NeverWaitsInVain
PROPERTY CallReturns
CHECK_DEADLOCK FALSE
