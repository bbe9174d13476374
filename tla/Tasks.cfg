\* CHECK_DEADLOCK: a player that has left, or a finished run, may have nothing to do.
CONSTANTS
  Settings = {s1, s2}
  Initial = s1
  None = None
  MaxGeneration = 2
  PipeBlocks = 1
  EventCapacity = 1
  MaxSets = 1
  Guilds = {g1, g2, g3}
  NoGuild = NoGuild
  MaxProcesses = 2
  Members = {a, b}
  Shards = {h1, h2}
  Delays = 1
  MaxChanges = 3
SPECIFICATION MCSpec
INVARIANTS PlaybackIsHonest ProcessesAreContained
PROPERTIES WaitsEnd LeasesAreTrue ConvergesToOwnership
CHECK_DEADLOCK FALSE
