CONSTANTS
    Events = {e1, e2}
    Videos = {v1, v2}
    Readers = {r1}
    Life = 3
    Window = 2
    LastMinute = 4
    None = None
SPECIFICATION HotSpec
SYMMETRY Interchangeable
INVARIANTS HotTypeOK CountedOnce BucketsMatchMarkers
PROPERTIES SnapshotIsTheWindow
CHECK_DEADLOCK FALSE
