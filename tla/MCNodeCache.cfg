SPECIFICATION Spec
CONSTANTS
    a = a
    b = b
    k1 = k1
    k2 = k2
    Node = {a, b}
    Key = {k1, k2}
    GlobalMax = 3
    DefaultTtl = 1
    Limit = {0, 1}
    Ttl = {0}
    MaxClock = 3
    MaxHits = 1
SYMMETRY MCSymmetry
INVARIANTS
    TypeOK
    WithinGlobalLimit
    WithinNodeLimit
PROPERTIES
    EvictsLeastRecent
CHECK_DEADLOCK FALSE
