SPECIFICATION Spec
CONSTANTS
    Step = 2
    MinWindow = 2
    Endpoint = 2
    PreRoll = 1
    Pad = 1
    MaxWindow = 4
    Overlap = 2
    Texts = {"x", "y."}
    Stops = {"y."}
    Tolerance = 1
    Lookback = 2
    Target = 3
    MaxAsr = 1
    MaxTranslate = 1
    MaxTime = 6
    MaxWord = 2
    MaxGaps = 1
INVARIANT SaidOnce
CHECK_DEADLOCK FALSE
