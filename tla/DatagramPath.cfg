\* One producer, as in the server.  The budget holds three small datagrams, the
\* send buffer one, so both fill up.
CONSTANTS
  Producers = {p1}
  Packets <- MCPackets
  CLIENT_QUEUE_BYTES = 7
  QUEUED_DATAGRAM_OVERHEAD = 1
  WRITE_BATCH_SIZE = 2
  Mtus = {1, 2}
  SendBuffer = 1
  MaxPackets = 3
SPECIFICATION Spec
CHECK_DEADLOCK FALSE
INVARIANTS InOrder EveryDatagramCounted ChargeExact
PROPERTY BatchEnds
