CONSTANTS
    s = s
    t = t
    m = m
    r = r
    Node <- DiamondNode
    Inputs <- DiamondInputs
    Order <- DiamondOrder
    Operational = {m, r}
    MayThrow = {s}
    Slow = {}
    Subscribed = {r}
    AsyncMode = TRUE
    Updates = TRUE
    MaxBacklog = 2

SPECIFICATION Spec
CHECK_DEADLOCK FALSE
INVARIANTS QuietMeansConsistent
PROPERTIES StabilizedMeansDone OnlyUpdatesStrand
