\* The joystick is pushed while a thread is measuring.
CONSTANTS
    c1 = c1
    c2 = c2
    Client = {c1, c2}
    Kind = {"page"}
    Unreliable = {}
    Backlog = 1
    Fd <- MCFd
    System <- MCSystem
    Slot <- MCSlot
    Free = Free
    Key = {"enter"}
    Serial = FALSE
SPECIFICATION Spec
INVARIANTS
    OffAtExit
CHECK_DEADLOCK FALSE
