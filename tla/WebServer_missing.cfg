\* One browser that asks for a file that is not there.
CONSTANTS
    c1 = c1
    c2 = c2
    c3 = c3
    Client = {c1}
    Kind = {"missing"}
    Unreliable = {}
    Backlog = 1
    Fd <- MCFd
    System = {}
    Free = Free
SPECIFICATION Spec
INVARIANTS
    ErrorOrContents
CHECK_DEADLOCK FALSE
