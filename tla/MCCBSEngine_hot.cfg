CONSTANTS
  NumTC = 2
  MaxQueueDepth = 2
  Configs <- HotConfigs
  Callers = {"rx", "wire"}
  RawTC = {7}
  Sizes = {1}
  NumFrames = 3
  ElapsedCap = 2
  MaxUpdates = 2
  MayStop = TRUE
SPECIFICATION FairSpec
INVARIANTS
  TypeOK
  StatsBalance
PROPERTY
  PortSpec
  BacklogDrains
