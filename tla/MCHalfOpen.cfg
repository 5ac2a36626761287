\* The clients of MCTwinSession.cfg, one of which may be gone without a word.
CONSTANTS
  RingCapacity = 3
  HighWatermark = 2
  Tick = 1
  SeqCap = 2
  MaxPending = 1
SPECIFICATION Spec
PROPERTIES
  HalfOpenDetected
\* The program exits once its time is over.
CHECK_DEADLOCK FALSE
