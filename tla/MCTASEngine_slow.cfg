\* Slow threads, no expiry: the two instants are the two phases of the cycle.
CONSTANTS
  NumTC = 2
  Configs <- SlowConfigs
  RawTC = {0, 7}
  TxTicks = 1
  NumFrames = 2
  MaxTime = 1
  LoopTo = 0
  LastArrival = 0
  MaxUpdates = 1
  Prompt = FALSE
  MayStop = TRUE
SPECIFICATION Spec
INVARIANTS
  Conserved
  StatsBalance
PROPERTY
  PortSpec
