\* The constants of ServerSessions_reconnect.
CONSTANTS
  e1 = e1
  e2 = e2
  e3 = e3
  d1 = d1
  Endpoints = {e1, e2}
  Devices = {d1}
  DerivedSuffix <- MCSuffixOf2
  NoIp = NoIp
  NoKey = NoKey
  NoSession = NoSession
  Conns = {c1, c2, c3}
  MaxClients = 2
  HasV4 = TRUE
  HasV6 = FALSE
  Size4 = 4
  Server4 = 1
  Size6 = 4
  Server6 = 1
  Strategy6 = "sequential"
  Overlapping = TRUE
SPECIFICATION Spec
INVARIANT UniqueClientIps
