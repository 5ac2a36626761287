\* Two processes over a ring of two frames; two connections; two firmware processes; a host client
\* with a ring of two; a simulation of seven units with an ADC period of two; five
\* halves of the capture buffer; three requests and two turns of the AGC; three SPI transactions.
CONSTANTS
  ShmCapacity = 2
  BatchMax = 2
  MaxStarts = 2
  MaxWrites = 3
  MaxDeaths = 1
  MaxConnections = 2
  MaxRequests = 3
  MaxMessages = 3
  MaxForks = 2
  HostRing = 2
  PollLimit = 2
  MaxArrivals = 3
  MaxCommands = 2
  MaxLives = 2
  Period = 2
  FinalTime = 7
  Durations = {3}
  MaxRuns = 3
  MaxSamples = 4
  SamplesPerHalf = 384
  Turn = 32
  MaxHalves = 5
  MaxOrders = 3
  RefClock = 40000
  Denominator = 4095
  Tunings <- MCTunings
  Attens = {7, 50}
  PgaCodes <- MCPgaCodes
  Peaks <- MCPeaks
  MaxReceived = 3
  MaxReflexes = 2
  Signature <- MCSignature
  MaxTransactions = 3
  MaxTicks = 4
  MaxPulses = 3
SPECIFICATION Spec
INVARIANTS
  ShmInSync
  AnswersMatch
  RequestsWhole
  FirmwareReleased
  HostSound
  SimulationSound
  CaptureRight
  ControlRight
PROPERTIES
  StopReturns
\* Processes end.
CHECK_DEADLOCK FALSE
