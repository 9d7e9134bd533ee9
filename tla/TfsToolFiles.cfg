CONSTANTS
    fa = fa
    fb = fb
    ts = ts
    tl = tl
    lf = lf
    lm = lm
    Frags <- MCFrags
    Files <- MCFiles
    ToLower <- MCToLower
    MaxLen = 0
    ScriptLines = {}
    MaxScript = 0
    ArgLines = {}
    FileLines <- MCFileLines
    TfsNames <- MCTfsNames
    LargeNames <- MCLargeNames
    Locals <- MCLocals
    Data <- MCData
    MaxSize = 1
    MAX_READ_SIZE = 1
    StoreInit <- MCStoreInit
    DiskInit <- MCDiskInit
SPECIFICATION Spec
INVARIANT GetCopiesPrefix
INVARIANT PutStoresPrefix
CHECK_DEADLOCK FALSE
