CONSTANTS
    t1 = t1
    t2 = t2
    Threads <- MCThreads
    MAX_FILE_FD = 2
    MAX_OPEN_FD_COUNT = 1
    MaxFiles = 3
    Shared = FALSE
    NoThread = NoThread
SPECIFICATION Spec
CHECK_DEADLOCK FALSE
INVARIANT OpenFdCountBound
