SPECIFICATION Spec
CONSTANTS
    e1 = e1
    e2 = e2
    e3 = e3
    d1 = d1
    d2 = d2
    unknown = unknown
    Malformed = Malformed
    NoEngine = NoEngine
    NoSnapshot = NoSnapshot
    Partial = Partial
    Engine <- MCEngine
    Definition <- MCDefinition
    Refused <- MCRefused
SYMMETRY MCSymmetry
CONSTRAINT BeforeOverlaps
INVARIANTS
    TypeOK
    NoOrphan
    FlagAgrees
    HandlersAttached
    RunsDefinition
    DestroyedRunsNothing
CHECK_DEADLOCK FALSE
