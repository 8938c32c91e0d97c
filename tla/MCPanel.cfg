\* Two handlers at a time: over the hosts table, the registry and the whitelist, or
\* over the domain rules in three files.
SPECIFICATION ApiSpec
CONSTANTS
  h1 = h1
  h2 = h2
  i1 = i1
  i2 = i2
  I2 = I2
  bad = bad
  BadHosts = BadHosts
  Unparsable = Unparsable
  None = None
  Requests = {r1, r2}
  HostsTables <- MCHosts
  Registries <- MCRegistries
  Profiles = {1, 2, 3}
  Ips <- MCIps
  Spellings <- MCSpellings
  AddressOf <- MCAddressOf
  Users = {"", "u", "v"}
  Whitelists <- MCWhitelists
  StartHosts = h1
  StartRegistry <- MCRegistry
  StartWhitelist <- MCWhitelist
  StartSync = TRUE
  MaxRequests = 2
  Handlers = {d1, d2}
  p1 = p1
  p2 = p2
  NoPattern = NoPattern
  routed = routed
  snirelay = snirelay
  bypassConf = bypassConf
  Patterns = {p1, p2}
  ConfFiles = {routed, snirelay, bypassConf}
  NamedBypass = {bypassConf}
  RelayFile = NoFile
  BypassFile = NoFile
  DefaultRelay = snirelay
  DefaultBypass = bypassConf
  NoFile = NoFile
  StartConfs <- MCStart
  Lists <- MCLists
  Imports <- MCImports
  HasReloadCmd = TRUE
  MaxDomainRequests = 2
SYMMETRY ApiSymmetry
INVARIANTS
  ApiTypeOK
  RoutesResolve
  NoLostChange
  FileIsLive
  UfwFollowsAcl
  RulesFollowRequests
  DirectivesPreserved
  RunningFollowsFiles
PROPERTY SecretsKept
CHECK_DEADLOCK FALSE
