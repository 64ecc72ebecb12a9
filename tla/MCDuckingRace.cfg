SPECIFICATION Spec
CONSTANTS
  Sessions = {s1}
  Nodes = {n1}
  ToolsFail = FALSE
CHECK_DEADLOCK FALSE
INVARIANTS
  RestoreSeesSnapshot
