CONSTANTS
    a = a
    b = b
    c = c
    ok = ok
    other = other
    NoDef = NoDef
    Node = {a, b, c}
    Config = {ok}
    BadConfig = {}
    Callable <- OrderedCallable
    Preserve = {FALSE}
    KnownInputs = TRUE
    AsyncMode = TRUE
    SyncSkip = FALSE
    Resources = {}
    MaxTimers = 1

SPECIFICATION Spec
CHECK_DEADLOCK FALSE
INVARIANTS QuietUnlessRunning NoDeadInput SearchDecides SortPutsInputsFirst
PROPERTIES DueUpdateApplied
