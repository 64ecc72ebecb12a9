SPECIFICATION Spec
CONSTANTS
  Sessions = {s1, s2}
  Nodes = {n1}
  ToolsFail = FALSE
CHECK_DEADLOCK FALSE
INVARIANTS
  SnapshotIsTheUsers
