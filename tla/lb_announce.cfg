SPECIFICATION AFairSpec
CONSTANTS
  None = None
  s1 = s1
  s2 = s2
  h1 = h1
  h2 = h2
  india = india
  Servers = {s1}
  Hosts = {h1, h2}
  Requests = {r1}
  Types = {}
  NamesOfType <- MCNoTypes
  Inputs <- AnnounceInputs
  RedisMayFail = FALSE
  ProbeMayFail = FALSE
  HostsMayFail = TRUE
  Home <- MCHome
  MaxCalls = 1
  MaxLoad = 1
  MaxCount = 2
  MaxScan = 2
PROPERTIES CountsConverge KnownAgain
