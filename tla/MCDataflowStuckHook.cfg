CONSTANTS
    s = s
    t = t
    m = m
    r = r
    Node <- JoinNode
    Inputs <- SplitInputs
    Order <- JoinOrder
    Operational = {m}
    MayThrow = {}
    Slow = {}
    Subscribed = {m}
    AsyncMode = TRUE
    Updates = FALSE
    MaxBacklog = 2

SPECIFICATION Spec
CHECK_DEADLOCK FALSE
PROPERTIES SkipEndsWait
