CONSTANTS
    Tabs = {a}
    N = 2
    MaxConcurrent = 2
    MaxAttempts = 2
    MaxUploads = 2
    MaxHandlers = 3
    MaxLost = 1
    MaxFaults = 2
    None = None
SPECIFICATION FairSpec
INVARIANTS RecordedIsStored WholeFiles
PROPERTIES UploadFinishes
CHECK_DEADLOCK FALSE
