SPECIFICATION IpFairSpec
CONSTANTS
  MinLock = FALSE
  loopback = TRUE
  MAX_DEVICES = 2
  MAX_ROUTES = 1
  SEL4IP_MAX_NAMESERVERS = 1
  SEL4IP_MAX_PING = 2
  PingCounts <- MCPingCounts
  MaxRoutes = 2
  MaxServers = 2
  Clients <- MCClients
INVARIANTS
  StackExclusive
  EventGoesToOwner
  ReadableIsKnown
  DhcpAnswerIsOwn
  PingStatsInCall
PROPERTIES
  CallsReturn
