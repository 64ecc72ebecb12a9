SPECIFICATION FairSpec
CONSTANTS
  MaxPosts = 2
  Faults <- MostFaults
INVARIANTS
  TypeOK
  CaptureIsExclusive
  BatchReadsFinalWav
  MicIsNeverOrphaned
  NoWorkAfterTheEnd
  TrashHoldsNoText
  OutcomeStands
PROPERTIES
  TransitionsAreAllowed
  NothingAfterTheEnd
  KeepsThePromise
  WorkEnds
  LockIsFreed
  PreviewIsStopped
