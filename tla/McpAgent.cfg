SPECIFICATION AgentSpec
CONSTANTS
  MaxGen = 2
  MaxCalls = 2
  Printable = {"scalar"}
  MaxNoise = 1
  MaxBlank = 0
  MaxNonJson = 0
INVARIANTS
  AgentTypeOK
  OnlyCurrentRuns
  DrainedAfterSuccess
  InitializedIsCurrent
  ToolSentAtMostOnce
  SecondOnlyAfterFirst
PROPERTIES
  AnswerIsOwn
  ResultIsOwn
CHECK_DEADLOCK FALSE
