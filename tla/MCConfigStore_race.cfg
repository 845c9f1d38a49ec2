CONSTANTS
  Ports = {p1}
  Handlers = {h1, h2}
  TASConfigs = {tdef, tnew, tbad}
  CBSConfigs = {cdef, cnew, cbad}
  ValidTAS = {tdef, tnew}
  ValidCBS = {cdef, cnew}
  DefaultTAS = tdef
  DefaultCBS = cdef
  Malformed = malformed
  NoFile = nofile
  Truncated = truncated
  NotObject = notobject
  Free = free
  Edits <- OneSection
  MaxRequests = 2
  MaxCrashes = 0
  MayFail = FALSE
SPECIFICATION Spec
INVARIANT
  EnginesFollowStore
CHECK_DEADLOCK FALSE
