\* Two sessions with four copy tasks under both limits, across one midnight.
CONSTANTS
  Domains = {d1}
  NoKey = NoKey
  Sessions = {s1, s2}
  Savers = {}
  MaxBytes = 1
  MaxConnections = 2
  DailyBandwidth <- SameBandwidth
  DailyConnections <- SameConnections
  NoLimit = NoLimit
  MaxChunk = 1
  HasStateFile = FALSE
  LastDay = 1
SYMMETRY SessionSymmetry
SPECIFICATION Spec
INVARIANTS ConnectionsWithinLimit OvershootBounded
CHECK_DEADLOCK FALSE
