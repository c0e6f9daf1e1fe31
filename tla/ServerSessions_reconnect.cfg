\* Clients may come back before their old handler has ended; two places and two
\* IPv4 addresses.
CONSTANTS
  e1 = e1
  e2 = e2
  e3 = e3
  d1 = d1
  Endpoints = {e1, e2}
  Devices = {d1}
  DerivedSuffix <- MCSuffixOf2
  NoIp = NoIp
  NoKey = NoKey
  NoSession = NoSession
  Conns = {c1, c2, c3}
  MaxClients = 2
  HasV4 = TRUE
  HasV6 = FALSE
  Size4 = 4
  Server4 = 1
  Size6 = 4
  Server6 = 1
  Strategy6 = "sequential"
  Overlapping = TRUE
SPECIFICATION Spec
INVARIANTS PoolsSound AdmissionSound RegistrationsOwned
PROPERTIES OnlyOwnerUnregisters ImplementsLeases
