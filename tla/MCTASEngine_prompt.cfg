CONSTANTS
  NumTC = 2
  Configs <- PromptConfigs
  RawTC = {0, 7}
  TxTicks = 1
  NumFrames = 3
  MaxTime = 9
  LoopTo = 8
  LastArrival = 1
  MaxUpdates = 0
  Prompt = TRUE
  MayStop = FALSE
SPECIFICATION FairSpec
INVARIANTS
  TypeOK
  DropsOnlyShut
PROPERTIES
  StartsInWindow
  NoSleeper
  EveryFrameGoes
