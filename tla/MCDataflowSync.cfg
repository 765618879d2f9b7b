CONSTANTS
    s = s
    t = t
    m = m
    r = r
    Node <- JoinNode
    Inputs <- JoinInputs
    Order <- JoinOrder
    Operational = {m}
    MayThrow = {}
    Slow = {m}
    Subscribed = {m}
    AsyncMode = FALSE
    Updates = FALSE
    MaxBacklog = 2

SPECIFICATION Spec
CHECK_DEADLOCK FALSE
INVARIANTS TypeOK HookHasWaker
PROPERTIES DeferredHookEmitted OnlyOldAnswersHide
