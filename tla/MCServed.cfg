\* A permit for every listener and every other session.
CONSTANTS
  Listeners = {l1, l2}
  Clients = {c1, c2}
  Slots = 3
  MaxCandidates = 1
  MaxAccepted = 3
  MaxAcceptErrors = 1
SPECIFICATION FairSpec
PROPERTIES ServedBelowReserve
CHECK_DEADLOCK FALSE
