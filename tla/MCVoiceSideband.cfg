\* Only the voice matters here; the constants are those of MCStimulus.cfg.
CONSTANTS
  Names = {"a", "b"}
  Generators = {"g1", "g2", "g3"}
  Broadband = {"g2"}
  Carrier <- MCCarrier
  Centres = {5}
  HalfBand = 4
  MixWorkers = 2
  MaxChanges = 3
  MaxBatches = 2
  MaxSessions = 2
  SignalNames = {"a", "b"}
  MaxCalls = 2
  Texts <- MCTexts
  Speeds = {0, 1, 2}
  MinuteUnits = 4
  EdgeUnits = 1
  LastLookUp = 70
  Turn = 16
  Waves <- MCWaves
  SweepDuration = 6
  NoiseTable = 8
  MaxCount = 3
  LastSample = 14
  Prime = 23
  Half = 12
  HalfRoot = 9
  Levels = {0, 1, 3}
  MaxSamples = 4
  Rates = {8000, 11025, 12000, 16000, 22050, 24000, 32000, 44100, 48000, 96000}
  FilterHalf = 3
  FadeMax = 4
  HilbertHalf = 32
  Chunks <- MCChunks
  Encodings <- MCEncodings
  RawSizes = {0, 7, 8, 16, 35}
  Frequency = 3
  FullTurn = 8
  LastTime = 5
  Engines = {"v1", "v2"}
  Sayings = {"hello", "test"}
  SpeechLength = 2
  MaxSettings = 3
  SpeechTimes = 5
  DecimBuf = 4
  DecimTaps = 3
  DecimFactor = 2
  Taps = 3
  Fade = 2
  HilbertTaps = 3
  Modes = {"USB", "AM"}
  Centers = {}
  Widths = {5}
  MaxAudio = 3
  MaxTurnings = 2
  Points = 8
  Modulus = 17
  UnitRoot = 2
  FreqBins = 4
  Depth = 2
  HzPerBin = 4
  TuneSteps = {1, 6}
  Viewports <- MCViewports
  MaxRows = 3
  MaxRetuned = 2
  MaxHeard = 4
  Circle = 7
  Ratio = 5
  Hop = 2
  BatchSize = 4
  Edge = 15
  HalfSpan = 1
  FirstVfo = 12
  FirstOsd = 1
  Vfos = {15, 18}
  Osds = {0, 3}
  Errors <- MCErrors
  HandStages <- MCHandStages
  HandCodes = {0, 11}
  MaxLooped = 3
  MaxCommands = 3
SPECIFICATION Spec
INVARIANT
  VoiceQuadrature
CHECK_DEADLOCK FALSE
