\* Two clients, three connections, two places; IPv4 with room for two, and one
\* IPv6 address that both clients derive from their node ids.
CONSTANTS
  e1 = e1
  e2 = e2
  d1 = d1
  c1 = c1
  c2 = c2
  c3 = c3
  Endpoints = {e1, e2}
  Devices = {d1}
  DerivedSuffix <- MCSuffix
  NoIp = NoIp
  NoKey = NoKey
  NoSession = NoSession
  NoConn = NoConn
  Outside = Outside
  Conns = {c1, c2, c3}
  MaxClients = 2
  HasV4 = TRUE
  HasV6 = TRUE
  Size4 = 5
  Server4 = 1
  Size6 = 4
  Server6 = 1
  Strategy6 = "node_id"
  Overlapping = FALSE
SYMMETRY MCSymmetry
SPECIFICATION RoutingSpec
INVARIANTS TypeOK UniqueClientIps NothingLeaks LiveReachable OwnTrafficAccepted
