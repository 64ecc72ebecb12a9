SPECIFICATION RecorderSpec
CONSTANTS
  MaxBlocks = 2
  QueueDepth = 1
  MaxIdles = 1
CHECK_DEADLOCK FALSE
INVARIANTS
  RecorderTypeOK
  HeaderIsHonest
  ChannelsKeepOrder
  AudioSurvives
  CompressFollowsStop
PROPERTIES
  WavIsFrozen
  StopEnds
  LostStreamIsShown
