\* Two browsers, every kind of request; the first browser may stall or leave at
\* any moment.
CONSTANTS
    c1 = c1
    c2 = c2
    c3 = c3
    Client = {c1, c2}
    Kind <- MCKind
    Unreliable = {c1}
    Backlog = 1
    Fd <- MCFd
    System = {}
    Free = Free
SPECIFICATION FairSpec
INVARIANTS
    TypeOK
    OwnConnection
    NoLeak
    RightReply
    GetNeverReset
PROPERTIES
    Answered
CHECK_DEADLOCK FALSE
