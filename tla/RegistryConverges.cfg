CONSTANTS
  u1 = u1
  u2 = u2
  v1 = v1
  Urls = {u1}
  EndpointOf <- MCEndpointOf
  LocalUrl <- MCLocalUrl
  Processes = {p1, p2}
  Names = {a}
  Holders = {h1}
  pid1 = pid1
  Pids = {pid1, pid2}
  PidsFor <- MCPidsFor
  MaxStarts = 2
  MaxRequests = 2
  Nobody = Nobody
  Strangers = {}
  Idle = Idle
SPECIFICATION FairSpec
PROPERTY StatusConverges
CHECK_DEADLOCK FALSE
