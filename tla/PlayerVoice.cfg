CONSTANTS
  Tracks = {t1}
  Channels = {c1, c2}
  Volumes = {v1}
  Presets = {}
  Keys = {k1, k2}
  None = None
  MaxQueued = 1
  IdempotencyWindow = 1
  MaxRevision = 6
  MaxGeneration = 3
  MaxIdle = 6
  MaxEnds = 1
  MaxBatch = 1
  Inputs <- VoiceInputs
SPECIFICATION FairSpec
INVARIANTS VoiceIsAttended
PROPERTIES IdleEventuallyLeaves
CHECK_DEADLOCK FALSE
