\* Two calls that meet at the first refresh of a new day.
CONSTANTS
  Domains = {d1}
  NoKey = NoKey
  Sessions = {s1, s2}
  Savers = {}
  MaxBytes = NoLimit
  MaxConnections = 1
  DailyBandwidth <- SameBandwidth
  DailyConnections <- SameConnections
  NoLimit = NoLimit
  MaxChunk = 1
  HasStateFile = FALSE
  LastDay = 1
SPECIFICATION Spec
INVARIANTS AdmittedPerDayWithinLimit
CHECK_DEADLOCK FALSE
