CONSTANTS
    ns1 = ns1
    ns2 = ns2
    NS <- MCNS
    MaxVipMoves = 1
    MaxLoss = 0
    MaxNotify = 0
    MaxCrash = 0
SPECIFICATION FairSpec
PROPERTY SyncFollowsPeer
CHECK_DEADLOCK FALSE
