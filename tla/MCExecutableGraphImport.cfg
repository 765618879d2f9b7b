SPECIFICATION Spec
CONSTANTS
    e1 = e1
    e2 = e2
    e3 = e3
    d1 = d1
    d2 = d2
    unknown = unknown
    Malformed = Malformed
    NoEngine = NoEngine
    NoSnapshot = NoSnapshot
    Partial = Partial
    Engine <- MCEngine
    Definition <- MCDefinition
    Refused <- MCRefused
SYMMETRY MCSymmetry
PROPERTIES
    ImportResumes
CHECK_DEADLOCK FALSE
