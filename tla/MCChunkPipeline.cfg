CONSTANTS
    s1 = s1
    s2 = s2
    r1 = r1
    r2 = r2
    r3 = r3
    r4 = r4
    Configurations <- MCConfigurations
    Requests <- MCRequests
    None = None

SPECIFICATION Spec

SYMMETRY MCSymmetry

INVARIANTS
    ChunksHaveOneExecution
    ExecutionsConsistent

PROPERTIES
    ImplementsExecutionLog

CHECK_DEADLOCK FALSE
