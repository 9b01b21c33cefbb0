SPECIFICATION DeskSpec
CONSTANTS Things = {1, 2} MaxLines = 2 MaxViews = 2 MaxChanges = 4
INVARIANT EditsSaved
CHECK_DEADLOCK FALSE
