CONSTANTS
    MaxRow = 2
    Pollers = {p1, p2}
    MaxStored = 2
SPECIFICATION FairSpec
INVARIANTS TypeOK DuplicatesNeedFailure
PROPERTIES ImplementsRelay RowsDrain
CHECK_DEADLOCK FALSE
