CONSTANTS
    w1 = w1
    w2 = w2
    w3 = w3
    t1 = t1
    t2 = t2
    t3 = t3
    Worker = {w1, w2, w3}
    Task = {t1, t2, t3}
    FirstWorkers <- TwoWorkers
    MayExit = {w1}

SPECIFICATION Spec
CHECK_DEADLOCK FALSE
INVARIANTS TypeOK LoadIsPending PendingIsUnderWay
PROPERTIES SettledWithoutTimeout KeepsContract
