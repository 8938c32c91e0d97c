----------------------------- MODULE SessionGate -----------------------------
(***************************************************************************)
(* What max_connections promises: a session begins only while fewer than   *)
(* Slots sessions are in service.  RelayService implements it with a       *)
(* semaphore whose permits travel through listeners and session tasks.     *)
(***************************************************************************)
EXTENDS Naturals, FiniteSets

CONSTANTS
  Clients,  \* client connections
  Slots     \* max_connections after the cap of limits::apply

VARIABLE inService  \* the clients whose session task exists

GateInit == inService = {}

Admit(c) ==
  /\ c \notin inService
  /\ Cardinality(inService) < Slots
  /\ inService' = inService \cup {c}

Leave(c) ==
  /\ c \in inService
  /\ inService' = inService \ {c}

GateNext == \E c \in Clients : Admit(c) \/ Leave(c)

GateSpec == GateInit /\ [][GateNext]_inService
=============================================================================
