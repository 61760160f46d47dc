CONSTANTS
    Tabs = {t1, t2}
    Calls = {c1, c2}
    MaxIssued = 3
    MaxFaults = 1
SPECIFICATION Spec
SYMMETRY Symmetry
INVARIANTS RedisAgrees
PROPERTIES StaysLoggedIn
CHECK_DEADLOCK FALSE
