SPECIFICATION FairSpec
CONSTANTS
  Sessions = {s1, s2}
  Nodes = {n1, n2}
  ToolsFail = TRUE
CHECK_DEADLOCK FALSE
INVARIANTS
  TypeOK
  Recoverable
  RestorePutsBack
PROPERTIES
  ShutdownEnds
