--------------------------- MODULE MCDomainLimiter ---------------------------
(* Instances of DomainLimiter for TLC. *)
EXTENDS DomainLimiter, TLC

CONSTANTS MaxBytes, MaxConnections  \* the limits of every key

SameBandwidth == [d \in Domains |-> MaxBytes]
SameConnections == [d \in Domains |-> MaxConnections]

SessionSymmetry == Permutations(Sessions)
=============================================================================
