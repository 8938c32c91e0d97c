\* The signal finds a listener in accept().
CONSTANTS
  Listeners = {l1, l2}
  Clients = {c1, c2}
  Slots = 3
  MaxCandidates = 1
  MaxAccepted = 3
  MaxAcceptErrors = 0
SPECIFICATION FairSpec
PROPERTIES ShutdownCompletes
CHECK_DEADLOCK FALSE
