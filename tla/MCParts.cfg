\* Every valid list of up to three entries over two classes, base times on both
\* sides of zero; clocks up to four steps off, a drift of three tenths of a step.
CONSTANTS
  NumTC = 2
  MaxEntries = 3
  MaxDuration = 2
  BaseTimes = {0, 1, 9}
  LastInstant = 7
  PayloadSizes = {0, 100}
  MaxStep = 10
  Starts <- SomeStarts
  Drifts <- SomeDrifts
  Errors <- SomeErrors
  IdBytes = 2
  Values <- SomeValues
  ProbeMin = 1
  ProbeMax = 2
  ProbeInterval = 2
  StartDelay = 6
  ProbeLife = 4
  Aheads <- SomeAheads
  Busy = 1
  LastProbe = 2
  MaxInstant = 14
  ReportInterval = 2
  ReportTimeout = 2
  OfflineAge = 10
  SyncedBelow = 5
  DriftingBelow = 20
  ReportMax = 3
  Reported <- SomeReported
  MaxSeconds = 20
  Flushers = {"loop", "request"}
  MaxSamples = 2
  LastSample = 4
SPECIFICATION Spec
INVARIANTS
  GateFollowsTimeline
  ClassKept
  NeverFarther
  ConvergedInBand
  Understood
  Percentiles
  ErrorTrue
  LiveShown
  LogComplete
PROPERTIES
  ServoSettles
  NewestShown
CHECK_DEADLOCK FALSE
