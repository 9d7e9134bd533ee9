CONSTANTS
    fa = fa
    fb = fb
    ts = ts
    tl = tl
    lf = lf
    lm = lm
    Frags <- MCCmdFrags
    Files <- MCCmdFiles
    ToLower <- MCToLower
    MaxLen = 2
    ScriptLines <- MCCmdScriptLines
    MaxScript = 2
    ArgLines <- MCArgLines
    FileLines = {}
    TfsNames <- MCTfsNames
    LargeNames <- MCLargeNames
    Locals <- MCLocals
    Data <- MCData
    MaxSize = 1
    MAX_READ_SIZE = 1
    StoreInit <- MCStoreInit
    DiskInit <- MCDiskInit
SPECIFICATION Spec
CONSTRAINT MCDepthBound
INVARIANT ToolTypeOK
INVARIANT DoCmdMatchesWords
PROPERTY QuitOnlyFromPrompt
CHECK_DEADLOCK FALSE
