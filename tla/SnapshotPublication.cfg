\* CHECK_DEADLOCK: a process that has shut down and is not replaced stops.
CONSTANTS
  MaxEpochs = 2
  MaxRevision = 3
  MaxRequests = 2
  MaxCrashes = 1
  None = None
SPECIFICATION FairSpec
INVARIANTS AcceptedIsQueued FlushedOnShutdown ConfirmedIsStored SettledIsLatest
PROPERTIES ImplementsRegister EventuallyStored
CHECK_DEADLOCK FALSE
