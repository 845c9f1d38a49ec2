\* Overlapping requests, crashes anywhere, failing writes, edited files.
CONSTANTS
  Ports = {p1, p2}
  Handlers = {h1, h2}
  TASConfigs = {tdef, tnew, tbad}
  CBSConfigs = {cdef, cnew, cbad}
  ValidTAS = {tdef, tnew}
  ValidCBS = {cdef, cnew}
  DefaultTAS = tdef
  DefaultCBS = cdef
  Malformed = malformed
  NoFile = nofile
  Truncated = truncated
  NotObject = notobject
  Free = free
  Edits <- OneSection
  MaxRequests = 3
  MaxCrashes = 2
  MayFail = TRUE
SPECIFICATION Spec
INVARIANTS
  TypeOK
  TASValid
  EnginesFollowSerial
PROPERTY
  RestartKeeps
SYMMETRY Interchangeable
CHECK_DEADLOCK FALSE
