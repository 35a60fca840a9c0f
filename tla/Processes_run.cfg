\* Each program of Processes, with one kill and up to five processes; what it is given on the system differs.
CONSTANTS
    Pid <- MCPid
    MaxKills = 1
    Turns = 3
    Server <- MCServer
    Client <- MCClient
    MaxLines = 1
    MaxSignals = 3
    Fd <- MCFd
    Assumed = 4
    Limits <- MCLimits
    Runs <- MCRuns
    Limit = 2
    MaxSem = 1
SPECIFICATION FairSpec
INVARIANTS
    TypeOK
    Outcome
    SameMemory
    NothingLeft
PROPERTIES
    Protected
    AllEnd
CHECK_DEADLOCK FALSE
