CONSTANTS
  NumTC = 2
  MaxQueueDepth = 5
  Configs <- ReadmeConfigs
  Callers = {"rx"}
  RawTC = {1}
  Sizes = {3}
  NumFrames = 5
  ElapsedCap = 7
  MaxUpdates = 0
  MayStop = FALSE
SPECIFICATION Spec
INVARIANT
  ReservedRate
