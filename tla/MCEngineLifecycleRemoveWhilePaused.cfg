CONSTANTS
    a = a
    b = b
    c = c
    ok = ok
    other = other
    NoDef = NoDef
    Node = {a, b}
    Config = {ok, other}
    BadConfig = {}
    Callable <- ReconfiguringCallable
    KnownInputs = TRUE
    Preserve = {FALSE}
    AsyncMode = FALSE
    SyncSkip = FALSE
    Resources = {}
    MaxTimers = 1

SPECIFICATION Spec
CHECK_DEADLOCK FALSE
PROPERTIES DeferredUpdateKept
