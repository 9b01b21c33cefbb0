SPECIFICATION Spec
CONSTANTS
  NoSpeaker = NoSpeaker
  Speakers = {s1}
  MaxCaptions = 2
  Overlapped = {1}
  Voiced = {1}
  MaxPatches = 2
  MaxEdits = 1
  MaxWire = 2
  MaxGaps = 1
  MaxHistory = 3
  MaxTargets = 2
  MaxRevisions = 1
INVARIANTS CopiesAgree NoHole
PROPERTIES UserWins ForwardOnly
CHECK_DEADLOCK FALSE
