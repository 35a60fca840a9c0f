\* Two browsers at once, measuring with the same sensors.
CONSTANTS
    c1 = c1
    c2 = c2
    Client = {c1, c2}
    Kind = {"page"}
    Unreliable = {}
    Backlog = 1
    Fd <- MCFd
    System <- MCSystem
    Slot <- MCSlot
    Free = Free
    Key = {}
    Serial = FALSE
SPECIFICATION FairSpec
INVARIANTS
    TypeOK
    SystemFds
PROPERTIES
    MeasurementEnds
CHECK_DEADLOCK FALSE
