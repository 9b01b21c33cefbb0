SPECIFICATION GnSpec
CONSTANTS
  MaxWindows = 6
  MaxPending = 2
  MaxGaps = 1
INVARIANT NeverBridged
CHECK_DEADLOCK FALSE
