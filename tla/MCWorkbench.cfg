SPECIFICATION WorkbenchSpec
CONSTANTS
  Terms = {"a", "b"}
  MaxKept = 2
  MaxOpens = 2
  MaxTitlers = 1
INVARIANTS
  WorkbenchTypeOK
  AbortedRunChangesNothing
  ViewIsCurrent
  ThreadOwnsItsTmp
  ParamsFileIsWindow
PROPERTIES
  SelectionIsATerm
  NoTextLost
  AbortEndsRun
