\* A full tunnel, two routes or two addresses; a second session of the same process.
SPECIFICATION Spec
CONSTANTS
  Addresses <- MCAddresses
  Private <- MCPrivate
  Relays <- MCRelays
  ServerAddrs <- MCServerAddrs
  HandshakeAddrs <- MCHandshakeAddrs
  LocalOnly <- MCLocalOnly
  Overlay <- MCOverlay
  Gateways <- MCGateways
  Configurations <- MCConfigurations
  Devices = {"eth0"}
  SysRoutes <- MCSys
  SERVER_ADDR_CHANNEL_SIZE = 2
  MaxSessions = 2
INVARIANTS TableRestored PinsOffTunnel BootstrapProtected CoveredIsTunnelled
PROPERTY PublishedTried
