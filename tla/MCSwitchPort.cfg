CONSTANTS
  NumTC = 2
  Configs <- TASConfigs
  RawTC = {0, 7}
  TxTicks = 1
  NumFrames = 2
  MaxTime = 1
  LoopTo = 0
  LastArrival = 0
  MaxUpdates = 0
  Prompt = TRUE
  MayStop = FALSE
  CBSConfigs <- ShaperConfigs
  MaxQueueDepth = 1
  Sizes = {1}
  ElapsedCap = 2
SPECIFICATION SwitchSpec
INVARIANTS
  CountersAgree
PROPERTIES
  EndToEnd
  UnshapedInWindow
