\* Files of up to four bytes, two levels of directories, three keys, two threads.
CONSTANTS
    Buf = 2
    MaxLen = 4
    MaxRoom = 4
    Modes <- MCModes
    Tree <- MCTree
    Dirs <- MCDirs
    Args <- MCArgs
    MaxOpen = 3
    MaxRemoved = 1
    Key = {"q", "x"}
    MaxKeys = 3
    t1 = t1
    t2 = t2
    Thread = {t1, t2}
    Climate <- MCClimate
    Weather <- MCWeather
    Calibration <- MCCalibration
    MaxFailures = 1
SPECIFICATION FairSpec
INVARIANTS
    TypeOK
    Kept
    Measured
PROPERTIES
    AllEnd
CHECK_DEADLOCK FALSE
