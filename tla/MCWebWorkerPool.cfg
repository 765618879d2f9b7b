CONSTANTS
    w1 = w1
    w2 = w2
    w3 = w3
    p1 = p1
    p2 = p2
    Worker = {w1, w2, w3}
    FirstWorkers <- TwoWorkers
    MaxTasks = 3
    Plugin = {p1}

SPECIFICATION Spec
CHECK_DEADLOCK FALSE
INVARIANTS TypeOK QueueAgrees PendingIsUnderWay StraysHadErrors DestroyedIsEmpty RegisteredIsKnown
PROPERTIES SettledWithoutTimeout KeepsContract
