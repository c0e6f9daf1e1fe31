\* One handle, three connections: two reconnects in place.
SPECIFICATION SessionSpec
CONSTANTS
  Config <- MCConfig
  Null = Null
  Gone = Gone
  Denied = Denied
  MaxConns = 3
INVARIANTS SilentAfterStop AppViewHonest
PROPERTY StopReleases
