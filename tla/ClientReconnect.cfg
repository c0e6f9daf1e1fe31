\* With a cap of two retries and without one; outages long enough for every
\* integer to saturate.  A quarter second is the unit of time.
SPECIFICATION Spec
CONSTANTS
  Params <- MCParams
  OtherBuilds <- MCOtherBuilds
  None = None
  VPN_PROTOCOL_VERSION = 8
  MAX_HANDSHAKE_SIZE = 16384
  MessageSize = 400
  Down = Down
  Full = Full
  Exhausted = Exhausted
  Other = Other
  auto_reconnect = TRUE
  Caps = {0, 2}
  BACKOFF_BASE = 4
  BACKOFF_MAX = 240
  BACKOFF_JITTER = 2
  U32MAX = 12
  U64MAX = 1023
INVARIANTS CapIsPerOutage BackoffSchedule TunIdentity StatusHonest
PROPERTY ComesBack
