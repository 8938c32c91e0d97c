----------------------------- MODULE MCPanelApi -----------------------------
(* Instance of PanelApi for TLC: the instances of its two parts together. *)
EXTENDS PanelApi, MCPanelStore, MCDnsmasq

ApiSymmetry == Permutations(Handlers) \cup Permutations(Requests)
=============================================================================
