CONSTANTS
  NumTC = 2
  MaxQueueDepth = 2
  Configs <- ShapedConfigs
  Callers = {"rx"}
  RawTC = {0, 7}
  Sizes = {1}
  NumFrames = 3
  ElapsedCap = 6
  MaxUpdates = 0
  MayStop = FALSE
SPECIFICATION FairSpec
INVARIANTS
  RateConforms
  NoLostWakeup
PROPERTY
  EveryFrameGoes
