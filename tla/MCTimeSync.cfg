CONSTANTS
  MinDelay = 1
  MaxDelay = 2
  Interval = 4
  StartDelay = 4
  MaxLives = 2
  PendingLife = 2
  Estimates = {1}
  Offsets = {0, 5}
  MaxTime = 9
SPECIFICATION Spec
INVARIANTS
  TypeOK
  OffsetError
  PendingBounded
CHECK_DEADLOCK FALSE
