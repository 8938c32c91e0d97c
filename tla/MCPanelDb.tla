------------------------------ MODULE MCPanelDb ------------------------------
(* Instance of PanelDb for TLC: two clients, two domains. *)
EXTENDS PanelDb

Says(k, c, d) == [kind |-> k, client |-> c, domain |-> d]
MCLines == { Says("query", "c1", "d1"), Says("query", "c2", "d2"), Says("answer", "", "d1"),
             Says("other", "", ""), Says("bad", "", "") }
=============================================================================
