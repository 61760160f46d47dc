CONSTANTS
    Tabs = {a}
    N = 2
    MaxConcurrent = 2
    MaxAttempts = 1
    MaxUploads = 1
    MaxHandlers = 2
    MaxLost = 0
    MaxFaults = 0
    None = None
SPECIFICATION Spec
INVARIANTS ToldIsRecorded
CHECK_DEADLOCK FALSE
