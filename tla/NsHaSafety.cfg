CONSTANTS
    ns1 = ns1
    ns2 = ns2
    NS <- MCNS
    MaxVipMoves = 1
    MaxLoss = 1
    MaxNotify = 1
    MaxCrash = 0
SPECIFICATION Spec
INVARIANT TypeOK
INVARIANT MasterViewsPeerAsSlave
PROPERTY RoleLifecycle
CHECK_DEADLOCK FALSE
SYMMETRY MCSymmetry
CONSTRAINT MCFaultBudget
