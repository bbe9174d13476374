CONSTANTS
  Values = {quiet, loud, old}
  Retired = {old}
  Default = quiet
  None = None
  MaxTries = 2
  MaxRequests = 2
  MaxRevision = 3
  MaxCrashes = 1
SPECIFICATION Spec
INVARIANT FlushedOnShutdown
CHECK_DEADLOCK FALSE
