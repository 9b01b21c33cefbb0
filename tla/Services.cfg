CONSTANTS
  MaxSessions = 2
  MaxInputs = 2
  MaxReceived = 1
  MaxEvents = 1
  MaxResults = 1
  MaxUnits = 4
  PendingUnits = 3
  RequestUnits = 2
  MaxRequests = 3
  MaxRuns = 1
  NoticeLimit = 1
  MaxPackets = 3
  QueueFrames = 2
  AsrCalls = {p1, q1, q2, q3}
  Primary = {p1}
  PrimaryLimit = 1
  SecondaryLimit = 2
  NoAsrCall = NoAsrCall
  NoSession = NoSession
  NoQueue = NoQueue
  NoLane = NoLane
  c1 = c1
  c2 = c2
  s1 = s1
  l1 = l1
  l2 = l2
SPECIFICATION PartSpec
INVARIANTS EngineExclusive WordsShownOnce
PROPERTIES
  LeaseReturns EventsArrive EveryCallSettles EveryUnitReturns StopEndsTruly
  EveryRequestAnswered TurnsStayApart DrainsEnd FinishEnds
CHECK_DEADLOCK FALSE
