CONSTANTS
    Streams = {s1, s2}
    MaxNotice = 2
    Buffer = 1
    MaxFaults = 1
    None = None
SPECIFICATION FairSpec
INVARIANTS EachOnce NoPanic
PROPERTIES ShutdownEnds
CHECK_DEADLOCK FALSE
