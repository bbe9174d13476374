CONSTANTS
  Values = {quiet, loud, old}
  Retired = {old}
  Default = quiet
  None = None
  MaxTries = 2
  MaxRequests = 2
  MaxRevision = 3
  MaxCrashes = 1
SPECIFICATION FairSpec
INVARIANTS SettledIsDurable
PROPERTIES SettingsMoveForward EventuallyDurable
CHECK_DEADLOCK FALSE
