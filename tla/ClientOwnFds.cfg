CONSTANTS
    t1 = t1
    t2 = t2
    Threads <- MCThreads
    MAX_FILE_FD = 3
    MAX_OPEN_FD_COUNT = 2
    MaxFiles = 4
    Shared = FALSE
    NoThread = NoThread
SPECIFICATION Spec
INVARIANT ClientTypeOK
INVARIANT NoUseAfterFree
INVARIANT FileOwnership
INVARIANT GetFdIsFirstFree
CHECK_DEADLOCK FALSE
