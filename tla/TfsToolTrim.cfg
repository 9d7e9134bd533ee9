CONSTANTS
    fa = fa
    fb = fb
    ts = ts
    tl = tl
    lf = lf
    lm = lm
    Frags <- MCFrags
    Files <- MCFiles
    ToLower <- MCToLower
    MaxLen = 2
    ScriptLines <- MCScriptLines
    MaxScript = 2
    ArgLines <- MCArgLines
    FileLines = {}
    TfsNames <- MCTfsNames
    LargeNames <- MCLargeNames
    Locals <- MCLocals
    Data <- MCData
    MaxSize = 1
    MAX_READ_SIZE = 1
    StoreInit <- MCStoreInit
    DiskInit <- MCDiskInit
SPECIFICATION Spec
CONSTRAINT MCDepthBound
CHECK_DEADLOCK FALSE
INVARIANT TrimStaysInBuffer
