CONSTANTS
  HEARTBEAT_INTERVAL = 3
  HEARTBEAT_TIMEOUT = 9
  SERVER_ADDR_PUBLISH_INTERVAL = 9
  MaxDelay = 1
  CONTROL_CHANNEL_SIZE = 2
  PONG_CHANNEL = 1
  STREAM_WINDOW = 5
  MaxChanges = 2
SPECIFICATION HeartbeatSpec
INVARIANTS NoFalseAlarm DeadPeerNoticed
CHECK_DEADLOCK FALSE
