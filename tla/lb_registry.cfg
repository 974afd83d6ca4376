SPECIFICATION Spec
CONSTANTS
  None = None
  s1 = s1
  s2 = s2
  h1 = h1
  h2 = h2
  india = india
  Servers = {s1, s2}
  Hosts = {h1, h2}
  Requests = {r1, r2}
  Types = {}
  NamesOfType <- MCNoTypes
  Inputs <- OverlapInputs
  RedisMayFail = FALSE
  ProbeMayFail = FALSE
  HostsMayFail = FALSE
  MaxCalls = 1
  MaxLoad = 1
  MaxCount = 1
  MaxScan = 2
INVARIANTS TypeOK StructuresAgree
PROPERTIES GhostsOnlyFromScan MirrorsUnlessOverlap
