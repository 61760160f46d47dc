CONSTANTS
    Users = {u1}
    Videos = {v1}
    Events = {e1}
    Pollers = {p1}
    Workers = {likeA, commentA, heatA}
    likeA = likeA
    commentA = commentA
    heatA = heatA
    Serves <- MCServes
    MaxRetries = 1
    MaxCopies = 1
    None = None
SPECIFICATION FairSpec
INVARIANTS TypeOK NothingLost
PROPERTIES EventsSettle
CHECK_DEADLOCK FALSE
