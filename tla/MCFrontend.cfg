SPECIFICATION FairFrontendSpec
CONSTANTS
  PipeSize = 3
  MaxCommands = 1
INVARIANTS
  ReadyShowsOutcome
  PrintsOnlyTheOutcome
PROPERTIES
  CleanedIsNotOvertaken
  NobodyIsLeftWaiting
