CONSTANTS
  Callers = {t1, t2, c1}
  Tasks = {t1, t2}
  MaxPrimary = 2
  Segments = {s1}
  MaxPending = 1
  MaxRevision = 2
  MaxGeneration = 1
  NoTask = none
  Unassigned = unassigned
  u = u
SPECIFICATION PartSpec
INVARIANTS Exclusive
PROPERTIES
  Answered UsesAdmission UsesService SegmentsResolve DraftsSettle CallsEndTruly
CHECK_DEADLOCK FALSE
