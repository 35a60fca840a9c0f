\* One run of each program may be killed; thread.c has two turns, posix_sem.c
\* counts to two.
CONSTANTS
    Rounds = 2
    Value = 1
    Limit = 2
    MaxSem = 2
SPECIFICATION FairSpec
INVARIANTS
    TypeOK
    NotStuck
    NothingLeft
PROPERTIES
    ThreadEnds
    CountEnds
CHECK_DEADLOCK FALSE
