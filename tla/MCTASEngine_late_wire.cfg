CONSTANTS
  NumTC = 2
  Configs <- LateWireConfigs
  RawTC = {0, 1}
  TxTicks = 1
  NumFrames = 1
  MaxTime = 9
  LoopTo = 8
  LastArrival = 1
  MaxUpdates = 1
  Prompt = TRUE
  MayStop = FALSE
SPECIFICATION FairSpec
PROPERTY
  EveryFrameGoes
