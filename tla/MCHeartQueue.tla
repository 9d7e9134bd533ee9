---------------------------- MODULE MCHeartQueue ----------------------------
EXTENDS HeartQueue

CONSTANTS d1, d2, w1, w2

MCDS == {d1, d2}
MCWorkers == {w1, w2}

=============================================================================
