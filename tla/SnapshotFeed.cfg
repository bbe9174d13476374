CONSTANTS
  Epochs = {1}
  MaxRevision = 3
  Capacity = 2
  MaxEvents = 2
  MaxFrames = 1
  MaxDrops = 1
  None = None
SPECIFICATION FairSpec
INVARIANTS FeedIsComplete
PROPERTIES ImplementsView ViewCatchesUp
CHECK_DEADLOCK FALSE
