CONSTANTS
    MaxVideo = 3
    Old = 1
    MaxTime = 2
    Keep = 2
    Limit = 2
    MaxFaults = 1
    Nothing = Nothing
SPECIFICATION LatestFairSpec
INVARIANTS LatestTypeOK TimelineHasNoHole ScrollIsComplete
PROPERTIES RequestEnds
CHECK_DEADLOCK FALSE
