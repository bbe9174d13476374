\* The constants are those of the edits; MCWorkloads gives those of the ends.
\* CHECK_DEADLOCK: the actor stops on shutdown and when a counter runs out.
CONSTANTS
  Tracks = {t1, t2, t3, t4}
  t4 = t4
  Channels = {c1}
  Volumes = {v1, v2}
  v2 = v2
  Presets = {h1}
  Keys = {k1, k2}
  None = None
  MaxQueued = 3
  IdempotencyWindow = 1
  MaxRevision = 4
  MaxGeneration = 3
  MaxIdle = 4
  MaxEnds = 1
  MaxBatch = 4
  Inputs <- CommandInputs
SPECIFICATION MCSpec
SYMMETRY Symmetry
INVARIANTS CurrentIsBacked SettingsReachAdapter
PROPERTIES OnlyEndedPlaybackIsReplaced NaturalEndKeepsTrack RevisionTracksChange MovePlacesTrack
CHECK_DEADLOCK FALSE
