---------------------------- MODULE MCRelayService ----------------------------
(* Instances of RelayService for TLC. *)
EXTENDS RelayService, TLC

ClientSymmetry == Permutations(Clients)
=============================================================================
