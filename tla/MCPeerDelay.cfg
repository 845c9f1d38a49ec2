CONSTANTS
  Window = 2
  Epoch = 5
  Interval = 2
  PendingLife = 2
  SeqMod = 3
  MinDelay = 1
  MaxDelay = 2
  Steps <- StepUpDown
  MaxAdjusted = 1
  MaxRestarts = 1
  MaxTime = 4
SPECIFICATION Spec
INVARIANTS
  TypeOK
  SamplesGenuine
  EstimateGenuine
  PendingBounded
CHECK_DEADLOCK FALSE
