\* A process that is stopped or killed once, in the middle of anything.
CONSTANTS
  Domains = {d1}
  NoKey = NoKey
  Sessions = {s1}
  Savers = {"periodic", "final"}
  MaxBytes = NoLimit
  MaxConnections = 2
  DailyBandwidth <- SameBandwidth
  DailyConnections <- SameConnections
  NoLimit = NoLimit
  MaxChunk = 1
  HasStateFile = TRUE
  LastDay = 0
  Absent = Absent
  Unparsable = Unparsable
  MaxStops = 1
SPECIFICATION PersistSpec
INVARIANTS NoPhantomUsage
PROPERTIES GracefulStopSaves FlushedCountsSurvive
CHECK_DEADLOCK FALSE
