CONSTANTS
  Letters = {"a"}
  Blank = " "
  MaxLen = 4
  MaxMixed = 0
  Hypotheses <- AllHypotheses
  StabilityHistory = 2
  HoldPartialTail = TRUE
SPECIFICATION Spec
INVARIANT SegmentsEndOnWords
