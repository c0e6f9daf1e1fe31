\* The network may also change while connect sets the tunnel up.
SPECIFICATION Spec
CONSTANTS
  Routes <- MCRoutes
  LocalSets <- MCLocalSets
  AddressBits = 4
  EXEMPT_MAX_PREFIX_LEN = 1
  POLL = 3
  tun_name = "tun0"
  OwnTun <- MCOwnTun
  SetupChanges = TRUE
  FailingSweeps = {"baseline", "poll"}
  MaxFailures = 0
INVARIANT ConflictNoticed
