\* The data plane, the life of the connection, the audio ring and the history ring; two observables, two
\* computed values, three watches and five calls; two properties, two tags and three edits.
CONSTANTS
  SeqMod = 16
  PacketSizes = {1, 2}
  RxCapacity = 3
  PollMax = 2
  MaxPackets = 3
  MaxFailures = 1
  MaxRepeats = 1
  MaxConnects = 3
  AudioCapacity = 5
  LowMark = 3
  HighMark = 3
  TargetMark = 2
  CallbackSize = 1
  HistoryCapacity = 3
  Decimation = 2
  MaxFrames = 6
  MaxRetunes = 1
  Observables = {"x", "y"}
  Computeds = {"c", "d"}
  Watches = {"w1", "w2", "w3"}
  FirstValue = 0
  Values = {0, 1}
  Nothing = Nothing
  Known = {0, 1, Nothing}
  Points <- MCPoints
  Pure <- MCPure
  Rank <- MCRank
  Bodies <- MCBodies
  MaxUses = 5
  Names = {"p", "q"}
  Viewed = {"p"}
  Tags = {"s", "t"}
  FirstRules <- MCFirstRules
  Definitions <- MCDefinitions
  NoValue = NoValue
  MaxEdits = 3
SPECIFICATION Spec
INVARIANTS
  StreamAccounted
  SessionSound
  PlaysOnce
  PlaybackIsRight
  ModelRight
PROPERTIES
  SilenceEnds
\* The twin stops sending, the program exits.
CHECK_DEADLOCK FALSE
