CONSTANTS
  Letters = {"a", "b"}
  Blank = " "
  MaxLen = 5
  MaxMixed = 2
  Hypotheses <- AllHypotheses
  StabilityHistory = 2
  HoldPartialTail = TRUE
SPECIFICATION Spec
INVARIANTS SegmentsSpellSource CommitNeverRefused
