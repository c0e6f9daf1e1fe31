\* The network changes before the check and while the watcher watches,
\* and the connection's paths with it.  A millisecond is the unit of RTTs.
SPECIFICATION NetworkSpec
CONSTANTS
  Routes <- MCRoutes
  LocalSets <- MCLocalSets
  AddressBits = 4
  EXEMPT_MAX_PREFIX_LEN = 1
  POLL = 3
  tun_name = "tun0"
  OwnTun <- MCOwnTun
  SetupChanges = FALSE
  FailingSweeps = {"baseline", "poll"}
  MaxFailures = 2
  Paths <- MCPaths
  excluded <- MCExcluded
  RTTs = {4, 10, 16}
  None = None
  IPV6_RTT_ADVANTAGE = 3
  RTT_SWITCHING_MIN = 5
  Reach <- MCReach
INVARIANTS ConflictNoticed RefusalSurfaces PathPolicy
