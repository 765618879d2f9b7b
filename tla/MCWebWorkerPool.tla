--------------------------- MODULE MCWebWorkerPool ---------------------------
EXTENDS WebWorkerPool, TLC

CONSTANTS w1, w2, w3, p1, p2

TwoWorkers == <<w1, w2>>
=============================================================================
