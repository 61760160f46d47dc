CONSTANTS
    MaxVideo = 3
    a1 = a1
    a2 = a2
    Authors <- MCAuthors
    AuthorOf <- MCAuthorOf
    Inbox = Inbox
    Capacity = 2
    Limit = 1
    MaxPullSources = 1
    MaxUpsets = 1
    MaxRebuilds = 1
    None = None
SPECIFICATION Spec
INVARIANTS TypeOK IndexIsComplete PageIsComplete
CHECK_DEADLOCK FALSE
