------------------------- MODULE MCLimiterPersistence -------------------------
(* Instances of LimiterPersistence for TLC. *)
EXTENDS LimiterPersistence, TLC

CONSTANTS MaxBytes, MaxConnections  \* the limits of every key

SameBandwidth == [d \in Domains |-> MaxBytes]
SameConnections == [d \in Domains |-> MaxConnections]
=============================================================================
