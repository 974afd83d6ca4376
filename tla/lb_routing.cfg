SPECIFICATION Spec
CONSTANTS
  None = None
  s1 = s1
  s2 = s2
  h1 = h1
  h2 = h2
  india = india
  Servers = {s1, s2}
  Hosts = {h1}
  Requests = {r1}
  Types = {india}
  NamesOfType <- MCNamesOfType
  Inputs <- RoutingInputs
  RedisMayFail = TRUE
  ProbeMayFail = TRUE
  HostsMayFail = TRUE
  MaxCalls = 1
  MaxLoad = 1
  MaxCount = 2
  MaxScan = 2
PROPERTY RoutesToLeastLoaded
