SPECIFICATION Spec
CONSTANTS
  SummarizeThreshold = 4
  SummarizeCount = 2
  TitleAttempts = 1
  MaxAgentSteps = 2
  FallbackThreshold = 1
  StepLimit = 8
  MaxTurns = 3
  MaxFaults = 0
  MaxLimit = 3
INVARIANT FirstPageIsNewest
CHECK_DEADLOCK FALSE
