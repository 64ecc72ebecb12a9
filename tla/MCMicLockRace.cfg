SPECIFICATION Spec
CONSTANTS
  Instances = {p1, p2, p3}
  None = None
SYMMETRY Symmetry
CHECK_DEADLOCK FALSE
INVARIANT
  MutualExclusion
