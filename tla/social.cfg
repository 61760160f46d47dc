CONSTANTS
    MaxRequests = 4
    MaxConcurrent = 1
    MaxRetries = 1
    MaxUnconfirmed = 1
    MaxFaults = 2
SPECIFICATION FairSpec
INVARIANTS TypeOK RelationConverges
PROPERTIES NotifiedOnce EventNotified
CHECK_DEADLOCK FALSE
