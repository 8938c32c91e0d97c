------------------------------ MODULE PanelApi ------------------------------
(***************************************************************************)
(* The requests of the panel that change something: those for the stores   *)
(* of the running relay (PanelStore) and those for the domain rules        *)
(* (DnsmasqStore).  The two sorts of handlers have no state, file or lock  *)
(* in common, so that a request of one sort never changes what one of the  *)
(* other sort does; behaviours with requests of both sorts are therefore   *)
(* left out.                                                               *)
(***************************************************************************)
EXTENDS PanelStore, DnsmasqStore

ApiInit == Init /\ DnsInit

ApiNext ==
  \/ requests = 0 /\ Next /\ UNCHANGED dnsVars
  \/ made = 0 /\ DnsNext /\ UNCHANGED vars

ApiSpec == ApiInit /\ [][ApiNext]_<<vars, dnsVars>>

------------------------------------------------------------------------------
(* Properties *)

\* Types of both parts.
ApiTypeOK == TypeOK /\ DnsTypeOK
=============================================================================
