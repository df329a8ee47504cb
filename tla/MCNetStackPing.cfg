SPECIFICATION FairSpec
CONSTANTS
  Hosts = {h1, h2}
  Macs = {m1, m2, m3}
  SojebIp = SojebIp
  SojebMac = SojebMac
  Broadcast = Broadcast
  Multicast = Multicast
  Data = {}
  PingData = PingData
  ARP_CACHE_SIZE = 1
  WireBound = 1
  MoveBound = 1
  Strays = FALSE
  AllocFails = FALSE
  NULL = NULL
PROPERTY PingAnswered
