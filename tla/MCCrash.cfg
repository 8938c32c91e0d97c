\* A process that is killed and restarted around midnight.
CONSTANTS
  Domains = {d1}
  NoKey = NoKey
  Sessions = {s1}
  Savers = {"periodic"}
  MaxBytes = NoLimit
  MaxConnections = 2
  DailyBandwidth <- SameBandwidth
  DailyConnections <- SameConnections
  NoLimit = NoLimit
  MaxChunk = 1
  HasStateFile = TRUE
  LastDay = 1
  Absent = Absent
  Unparsable = Unparsable
  MaxStops = 1
SPECIFICATION PersistSpec
INVARIANTS PersistTypeOK ConnectionsWithinLimit StateFileParses UnracedFlushSaves
CHECK_DEADLOCK FALSE
