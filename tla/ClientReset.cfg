CONSTANTS
  Reconnects = 1
  MaxSequence = 1
  MaxWire = 1
  MaxResets = 1
SPECIFICATION ClSpec
INVARIANT ResetClears
CHECK_DEADLOCK FALSE
