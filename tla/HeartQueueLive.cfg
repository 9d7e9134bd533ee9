CONSTANTS
    d1 = d1
    d2 = d2
    w1 = w1
    w2 = w2
    DS <- MCDS
    Workers <- MCWorkers
    MaxQueueSize = 1
SPECIFICATION FairSpec
INVARIANT HeartTypeOK
PROPERTY EveryHeartbeatAnswered
