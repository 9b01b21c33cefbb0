CONSTANTS
  Sessions = {s1, s2, s3}
  Workers = {w1, w2}
  Generations = {1}
  Segments = {a, b}
  Revisions = {1, 2}
  Submissions <- Offered
  MaxPending = 2
  MaxPendingPerSession = 2
  NoWorker = NoWorker
  NoJob = NoJob
SPECIFICATION Spec
INVARIANTS OneJobPerSession NoLostWakeup SegmentOrder
PROPERTIES ImplementsService WorkersExit
