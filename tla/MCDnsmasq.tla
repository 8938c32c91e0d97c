------------------------------ MODULE MCDnsmasq ------------------------------
(* Instance of DnsmasqStore for TLC. *)
EXTENDS DnsmasqStore

CONSTANTS p1, p2, routed, snirelay, bypassConf

Rule(p, m) == [pattern |-> p, mode |-> m]
File(rules, junk, other) == [rules |-> rules, junk |-> junk, other |-> other]
Dir(r, s, b) == [f \in ConfFiles |-> CASE f = routed -> r [] f = snirelay -> s [] f = bypassConf -> b]

\* A rule in two relay files, one of them with a line that is no rule; a bypass file that
\* is not called so.
MCStart == { Dir(File({Rule(p1, "relay")}, {"relay"}, TRUE), File({Rule(p1, "relay")}, {}, FALSE),
                 File({Rule(p2, "bypass")}, {}, TRUE)),
             Dir(File({Rule(p1, "bypass")}, {"bypass"}, TRUE), File({Rule(p2, "relay")}, {}, FALSE),
                 NoFile) }

\* One file that holds both kinds.
MCOneFile == { Dir(File({Rule(p1, "relay"), Rule(p2, "bypass")}, {}, TRUE), NoFile, NoFile) }

MCLists == { {}, {Rule(p1, "direct"), Rule(p1, "relay"), Rule(NoPattern, "relay"), Rule(p2, "relay")} }
Line(p, k) == [pattern |-> p, kind |-> k]
MCImports == { {Line(p1, "address"), Line(p2, "server")}, {Line(p2, "bare"), Line(NoPattern, "bare")} }
=============================================================================
