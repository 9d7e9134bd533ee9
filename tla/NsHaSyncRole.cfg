CONSTANTS
    ns1 = ns1
    ns2 = ns2
    NS <- MCNS
    MaxVipMoves = 1
    MaxLoss = 1
    MaxNotify = 0
    MaxCrash = 0
SPECIFICATION Spec
INVARIANT SyncOnlyOnMaster
CHECK_DEADLOCK FALSE
