\* Words of 4 bits; a stack just deep enough for the nested expressions.
CONSTANTS
  IntBits = 4
  Doubles <- MCDoubles
  StackDepth = 6
  Exprs <- MCExprs
  Bodies <- MCBodies
  Meaning <- MCMeaning
  Programs <- MCPrograms
  Functions <- MCFunctions
  Variables <- MCVariables
SPECIFICATION FairSpec
INVARIANTS TypeOK InBounds NoStackWarning MatchesMeaning
PROPERTY EvaluationEnds
CHECK_DEADLOCK FALSE
