CONSTANTS
    ns1 = ns1
    ns2 = ns2
    NS <- MCNS
    MaxVipMoves = 0
    MaxLoss = 0
    MaxNotify = 0
    MaxCrash = 1
SPECIFICATION FairSpec
PROPERTY VipHolderSoleMaster
CHECK_DEADLOCK FALSE
