\* Two clients at once.
CONSTANTS
    c1 = c1
    c2 = c2
    Client = {c1, c2}
    Unreliable = {}
    Backlog = 2
    Fd <- MCFd
    Free = Free
    Ssock = 3
SPECIFICATION FairSpec
PROPERTIES
    ConnectedIsEchoed
CHECK_DEADLOCK FALSE
