------------------------- MODULE MCNodeWorkerPool -------------------------
EXTENDS NodeWorkerPool, TLC

CONSTANTS w1, w2, w3, t1, t2, t3

TwoWorkers == <<w1, w2>>
=============================================================================
