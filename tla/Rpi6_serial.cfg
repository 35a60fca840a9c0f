\* One browser after the other: a page, a form and a POST, and both ways to stop.
CONSTANTS
    c1 = c1
    c2 = c2
    Client = {c1, c2}
    Kind = {"page", "form", "post"}
    Unreliable = {}
    Backlog = 1
    Fd <- MCFd
    System <- MCSystem
    Slot <- MCSlot
    Free = Free
    Key = {"q", "enter"}
    Serial = TRUE
SPECIFICATION FairSpec
INVARIANTS
    Fresh
PROPERTIES
    Answered
    Stops
CHECK_DEADLOCK FALSE
