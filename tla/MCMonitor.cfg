\* Two endpoints, thresholds of two, a cooldown of two rounds.
SPECIFICATION FairSpec
CONSTANTS
  a = a
  b = b
  Direct = Direct
  Endpoints <- MCEndpoints
  HttpProxies = {b}
  Registries <- MCRegistries
  StartRegistry <- MCStart
  Watched = {}
  FailThreshold = 2
  RecoverThreshold = 2
  Cooldown = 2
  NotifyRecovery = TRUE
  Wait = 3
  Interval = 2
  ProbeTimeout = 1
  MaxChanges = 3
INVARIANTS TypeOK AlertMatchesHealth StartupBounded
PROPERTIES HealthFollowsRuns StartupEnds HealthConverges
CHECK_DEADLOCK FALSE
