---------------------------- MODULE MCTfsClientFd ----------------------------
EXTENDS TfsClientFd
CONSTANTS t1, t2
MCThreads == {t1, t2}
=============================================================================
