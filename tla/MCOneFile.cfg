\* A directory in which one file holds the relay and the bypass rules.
SPECIFICATION DnsSpec
CONSTANTS
  Handlers = {d1, d2}
  p1 = p1
  p2 = p2
  NoPattern = NoPattern
  routed = routed
  snirelay = snirelay
  bypassConf = bypassConf
  Patterns = {p1, p2}
  ConfFiles = {routed, snirelay, bypassConf}
  NamedBypass = {bypassConf}
  RelayFile = NoFile
  BypassFile = NoFile
  DefaultRelay = snirelay
  DefaultBypass = bypassConf
  NoFile = NoFile
  StartConfs <- MCOneFile
  Lists <- MCLists
  Imports <- MCImports
  HasReloadCmd = TRUE
  MaxDomainRequests = 2
INVARIANTS
  RulesFollowRequests
CHECK_DEADLOCK FALSE
