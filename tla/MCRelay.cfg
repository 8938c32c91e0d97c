\* Three connections compete for two permits at two listeners.
CONSTANTS
  Listeners = {l1, l2}
  Clients = {c1, c2, c3}
  Slots = 2
  MaxCandidates = 2
  MaxAccepted = 3
  MaxAcceptErrors = 1
SYMMETRY ClientSymmetry
SPECIFICATION Spec
INVARIANTS SlotsConserved MetricsExact OneLateAccept
PROPERTIES ImplementsGate
CHECK_DEADLOCK FALSE
