\* Sequence numbers wrap at 8, and a frame holds four bytes of payload.
SPECIFICATION Spec
CONSTANTS
  SEQ = 8
  HEADER = 1
  LENMAX = 5
  Setups <- MCSetups
  Byte <- MCByte
  TUN_CHANNEL_SIZE = 4
  WRITE_BATCH_SIZE = 3
  MAX_TUN_WRITE_FAILURES = 2
INVARIANTS SegmentsSurvive DrainedOnExit
PROPERTY WriterEnds
