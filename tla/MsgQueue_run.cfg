\* Two servers and three clients of one queue.  Two clients fill a System V
\* queue but for a few bytes, as they do at its real size.
CONSTANTS
    Server = {s1, s2}
    Client = {c1, c2, c3}
    MaxBytes = 16384
    MaxMsg = 2
SPECIFICATION FairSpec
INVARIANTS
    TypeOK
    LostToOthers
    NothingLeft
PROPERTIES
    Implements
    EndStops
    ClientEnds
CHECK_DEADLOCK FALSE
