SPECIFICATION Spec
CONSTANTS
  MaxPosts = 1
  Faults <- NoFaults
INVARIANT
  MicStopsBeforeExit
