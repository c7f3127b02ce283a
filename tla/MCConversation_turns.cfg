SPECIFICATION Spec
CONSTANTS
  SummarizeThreshold = 4
  SummarizeCount = 2
  TitleAttempts = 1
  MaxAgentSteps = 2
  FallbackThreshold = 1
  StepLimit = 8
  MaxTurns = 3
  MaxFaults = 2
  MaxLimit = 3
INVARIANTS TypeOK SummaryTakesWholeTurns FramesInOrder DoneMeansKept CursorPagesAreWhole CursorsReachTheStart ImagesWithTheirAnswer
PROPERTIES TitleIsFinal RunEnds
CHECK_DEADLOCK FALSE
