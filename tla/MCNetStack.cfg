SPECIFICATION Spec
CONSTANTS
  Hosts = {h1, h2}
  Macs = {m1, m2, m3}
  SojebIp = SojebIp
  SojebMac = SojebMac
  Broadcast = Broadcast
  Multicast = Multicast
  Data = {d}
  PingData = PingData
  ARP_CACHE_SIZE = 2
  WireBound = 2
  MoveBound = 1
  Strays = TRUE
  AllocFails = TRUE
  NULL = NULL
SYMMETRY Symmetric
INVARIANTS AnswersMatchRequests CacheIsLastHeard
