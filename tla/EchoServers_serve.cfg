\* Three clients of tcp_server, two of each of the others; c1 may never type or
\* be killed.  A client of udp_server types two lines, with two faults.
CONSTANTS
    c1 = c1
    c2 = c2
    c3 = c3
    Client = {c1, c2, c3}
    Unreliable = {c1}
    Backlog = 2
    Fd <- MCFd
    Free = Free
    Ssock = 3
    Stack = {"other"}
    Lines = 2
    Faults = 2
    Absent <- MCAbsent
SPECIFICATION FairSpec
INVARIANTS
    TypeOK
    Counts
    InStep
    OwnQuit
PROPERTIES
    Implements
    Answered
CHECK_DEADLOCK FALSE
