\* Two browsers at once, and csock is shared by their threads.
CONSTANTS
    c1 = c1
    c2 = c2
    Client = {c1, c2}
    Kind = {"page"}
    Unreliable = {}
    Backlog = 1
    Fd <- MCFd
    System <- MCSystem
    Slot <- MCSlot
    Free = Free
    Key = {}
    Serial = FALSE
SPECIFICATION Spec
INVARIANTS
    OwnConnection
CHECK_DEADLOCK FALSE
