SPECIFICATION Spec
CONSTANTS
  Configs <- MCConfigs
  Parts <- OneOrThree
  TsMod = 65536
  Tick = 3000
  FirstTs = 60000
  MaxFrames = 4
  MaxLoss = 2
  MaxFailures = 2
  CanSeek = TRUE
INVARIANTS UntouchedFramesExact LossIsContained BeginsWithKeyFrame FramesInOrder CountIsExact TimestampsSequential
CHECK_DEADLOCK FALSE
