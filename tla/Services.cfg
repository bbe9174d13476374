\* CHECK_DEADLOCK: bounds that are used up, a finished run.
CONSTANTS
  Users = {u1}
  Nobody = Nobody
  Requests = {q1, q2}
  Callbacks = {b1, b2}
  MaxLogins = 2
  MaxSessions = 3
  Capacity = 1
  StateTtl = 1
  IdleTtl = 1
  AbsoluteTtl = 2
  CheckEvery = 1
  Lifetime = 2
  GlobalLimit = 1
  UserLimit = 1
  Actors = {a1, a2}
  MaxKeys = 3
  NoTrack = NoTrack
  ActorLimit = 2
  GuildLimit = 3
  MaxWindows = 1
  Slash = {s1}
  Dashboard = {d1}
  NoTask = NoTask
  MaxPlayers = 2
  Channels = {v1}
  NoChannel = NoChannel
  Plays = {p1}
  Commands = {k1}
  Clicks = {c1}
  MaxAttempts = 2
  MaxRevision = 4
  MaxVoice = 1
  m1 = m1
  m2 = m2
  MaxEntries = 3
  Concurrency = 2
  Admission = 2
  Batches = 1
  r1 = r1
  r2 = r2
  CollectionLimit = 2
  MaxItems = 3
  MaxTokens = 2
  MaxListed = 4
  g1 = g1
  g2 = g2
  NoGuild = NoGuild
  Nothing = Nothing
  MaxLate = 1
SPECIFICATION MCSpec
INVARIANTS ApiIsSound ShutdownIsHonest RequestsAreKept FindingsAreFaithful StreamShowsSelected
PROPERTIES UsersActAsMeant PageSlipsAreKnown
CHECK_DEADLOCK FALSE
