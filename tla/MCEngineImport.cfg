CONSTANTS
    a = a
    b = b
    ok = ok
    other = other
    NoDef = NoDef
    Node = {a, b}
    Config = {ok, other}
    BadConfig = {other}
    Callable <- CyclicCallable
    KnownInputs = FALSE
    Preserve = {TRUE, FALSE}
    AsyncMode = TRUE
    SyncSkip = TRUE
    Resources = {"cacheCleanup"}
    MaxTimers = 1
    Snapshot <- ForeignSnapshots
    SnapshotState = {"initialized", "running"}
    MaxOverlaps = 1

SPECIFICATION ImportSpec
CHECK_DEADLOCK FALSE
CONSTRAINTS BeforeOverlapEnds ThreeUpdates
INVARIANTS ImportTypeOK RegistriesAgree ImportedIsSubscribed
PROPERTIES DeferredHandedOver 
