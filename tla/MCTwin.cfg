\* A ring of four slots whose indices wrap after eight counts: nine frames go twice round the slots and
\* once round the index.  Three workers, calls that use some, all and more than all of them, and enough
\* calls for a slot to be used again twice.  A session with a client that may do anything at any time:
\* two batches to the watermark, three to the capacity, one per tick, the same order of sizes as 5, 17
\* and 1 in SignalGen.cpp, and small enough for the client to fill the ring by toggling the stream.
CONSTANTS
  f1 = f1
  f2 = f2
  Frame <- MCFrame
  Capacity = 4
  IndexMod = 8
  MaxBatch = 3
  MaxFrames = 9
  NThreads = 3
  MaxCount = 5
  MaxCalls = 3
  RingCapacity = 3
  HighWatermark = 2
  Tick = 1
  SeqCap = 2
  MaxPending = 1
SPECIFICATION MCSpec
INVARIANTS
  NoSlotShared
  RingInv
  PoolTypeOK
  NoTaskRace
  PoolInv
  TypeOK
  StreamContiguous
  LossNeedsToggles
  NoOrphanThread
PROPERTIES
  FifoSpec
  PromiseKept
  Returns
  StopSilences
  SessionEnds
  StreamFlows
\* The program exits once its time is over; a stopped pool does nothing more; frames are bounded.
CHECK_DEADLOCK FALSE
