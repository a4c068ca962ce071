CONSTANTS
    j1 = j1
    j2 = j2
    s1 = s1
    s2 = s2
    d1 = d1
    d2 = d2
    Jobs <- MCJobs
    Documents <- MCDocuments
    Sessions <- MCSessions
    CreatedFor <- MCCreatedFor
    Settings <- MCSettings
    RetryLimit = 1
    TTL = 1
    MaxTime = 2
    MaxReservations = 2
    None = None

SPECIFICATION Spec

SYMMETRY MCSymmetry

INVARIANTS
    ReservationsConsistent

PROPERTY ImplementsLifecycle

CHECK_DEADLOCK FALSE
