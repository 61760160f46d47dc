CONSTANTS
    Users = {u1, u2}
    Videos = {v1}
    Events = {e1,e2,e3}
    Pollers = {p1}
    Workers = {likeA, commentA, heatA}
    likeA = likeA
    commentA = commentA
    heatA = heatA
    Serves <- MCServes
    MaxRetries = 1
    MaxCopies = 2
    None = None
SPECIFICATION Spec
SYMMETRY Interchangeable
CONSTRAINT Scope
VIEW Alive
INVARIANTS LikesCounted HeatConserved PopularityExplained
PROPERTIES ReplayHarmless ImplementsExactlyOnce 
CHECK_DEADLOCK FALSE
