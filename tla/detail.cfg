CONSTANTS
    Readers = {r1, r2}
    MaxVersion = 2
    Polls = 1
    MaxLate = 1
    None = None
    Orphan = Orphan
SPECIFICATION FairSpec
INVARIANTS TypeOK NoCopyOlderThanApplied AnswersAreFresh LockStaysMine
PROPERTIES EventuallyFresh
CHECK_DEADLOCK FALSE
