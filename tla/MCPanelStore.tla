---------------------------- MODULE MCPanelStore ----------------------------
(* Instance of PanelStore for TLC: two handlers at a time.  I2 is another   *)
(* spelling of i2 (an IPv6 address in capitals), bad is no address.         *)
EXTENDS PanelStore

CONSTANTS h1, h2, i1, i2, I2, bad

MCHosts == {h1, h2}
MCIps == {i1, i2}
MCSpellings == {I2, bad}
MCAddressOf == [s \in MCSpellings |-> IF s = I2 THEN i2 ELSE None]

Socks(secret) == [type |-> "socks5", secret |-> secret]
Direct == [type |-> "direct", secret |-> FALSE]

MCRegistry == [profiles |-> <<Socks(TRUE), Direct>>, default |-> 2,
               byIp |-> [ip \in {i1} |-> 1], failover |-> TRUE]

\* A password left out; a default that is not there; a route that needs normalizing.
MCRegistries ==
  { [profiles |-> <<Socks(FALSE)>>, default |-> 1, byIp |-> [ip \in {} |-> 1], failover |-> FALSE],
    [profiles |-> <<Direct>>, default |-> 2, byIp |-> [ip \in {} |-> 1], failover |-> TRUE],
    [profiles |-> <<Socks(FALSE), Socks(TRUE), Direct>>, default |-> 2,
     byIp |-> [ip \in {I2} |-> 3], failover |-> TRUE] }

MCWhitelist == [ip \in {i1} |-> "u"]
MCWhitelists ==
  {[ip \in {} |-> ""], [ip \in {i1, I2} |-> IF ip = i1 THEN "v" ELSE ""], [ip \in {bad} |-> "u"]}
=============================================================================
