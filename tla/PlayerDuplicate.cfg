CONSTANTS
  Tracks = {t1, t2, t3}
  Channels = {c1}
  Volumes = {v1}
  Presets = {}
  Keys = {k1, k2}
  None = None
  MaxQueued = 2
  IdempotencyWindow = 1
  MaxRevision = 6
  MaxGeneration = 6
  MaxIdle = 4
  MaxEnds = 2
  MaxBatch = 2
  Inputs <- QueueInputs
SPECIFICATION Spec
SYMMETRY Symmetry
INVARIANTS NoDuplicateTracks
CHECK_DEADLOCK FALSE
