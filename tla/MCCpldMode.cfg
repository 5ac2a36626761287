\* The instance of MCProcesses.cfg; the CPLDs' phases only.
CONSTANTS
  ShmCapacity = 2
  BatchMax = 2
  MaxStarts = 2
  MaxWrites = 3
  MaxDeaths = 1
  MaxConnections = 2
  MaxRequests = 3
  MaxMessages = 3
  MaxForks = 2
  HostRing = 2
  PollLimit = 2
  MaxArrivals = 3
  MaxCommands = 2
  MaxLives = 2
  Period = 2
  FinalTime = 7
  Durations = {3}
  MaxRuns = 3
  MaxSamples = 4
  SamplesPerHalf = 384
  Turn = 32
  MaxHalves = 5
  MaxOrders = 3
  RefClock = 40000
  Denominator = 4095
  Tunings <- MCTunings
  Attens = {7, 50}
  PgaCodes <- MCPgaCodes
  Peaks <- MCPeaks
  MaxReceived = 3
  MaxReflexes = 2
  Signature <- MCSignature
  MaxTransactions = 3
  MaxTicks = 4
  MaxPulses = 3
SPECIFICATION Spec
INVARIANT CpldsFollow
CHECK_DEADLOCK FALSE
