CONSTANTS
  a = a
  b = b
  c1 = c1
  Utterances = {u}
  MaxSegments = 3
  MaxPendingPerSession = 2
  ContextSegments = 1
  MaxSegmentIds = 3
  MaxGeneration = 0
  Requests = {r1, r2, r3}
  Concurrency = 2
  Letters <- StreamLetters
  Markers <- StreamMarkers
  MaxText = 4
  MaxDelta = 2
  MaxWindows = 5
  MaxPending = 2
  MaxGaps = 1
  Voices = {a, b}
  Nobody = Nobody
  Adverse = Adverse
  MaxWords = 3
  MaxLaneSegments = 2
  MaxGens = 1
  Configs <- LaunchConfigs
  Lossy <- LossyTimes
  Heavy <- HeavyPairs
  Launchers = {a, b}
  MaxLaunches = 3
  WindowLen = 3
  FirstLen = 2
  Hop = 1
  Guard = 1
  MinClean = 2
  NoticeSize = 16
  MaxUnits = 6
  HeardVoices = {a, b}
  Captions = {c1}
  MaxAudio = 2
  MaxObserved = 3
  Confirmations = 2
  MaxSpeakers = 1
  MaxCandidates = 1
  CandidateIdle = 1
  SupportHistory = 2
  MaxIntervals = 1
  History = 2
  MaxHistory = 2
  MaxBreaks = 1
  Block = 2
  MaxReceipts = 2
  MaxTime = 5
  MaxFrames = 4
  FrameSize = 2
  MaxStep = 1
  MaxPackets = 3
  MaxQpc = 3
  MaxRanges = 2
  Things = {1, 2}
  MaxLines = 2
  MaxViews = 3
  MaxChanges = 3
SPECIFICATION PartSpec
SYMMETRY Symmetry
INVARIANTS
  ProvidersSound BlocksTellTheTruth EpochsAreWhole AllAccounted NamesAreCurrent
  NeverBridgedUnlessRaced LanesHoldOneVoice UiCurrent ContextIsCurrent RunsAsConfigured StartsWhole
CHECK_DEADLOCK FALSE
