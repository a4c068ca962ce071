CONSTANTS
    j1 = j1
    j2 = j2
    Jobs <- MCJobs
    Documents = {d1, d2}
    Nodes = {n1}
    RetryLimits <- MCRetryLimits
    TTLs <- MCTTLs
    MaxTime = 2
    MaxEvents = 13
    None = None

SPECIFICATION Spec

SYMMETRY JobSymmetry

INVARIANTS
    TypeOK
    ReservationFollowsWork
    AttemptMatchesStatus
    RecordsFollowStatus
    OneActiveJobPerDocument
    AttemptsPaidByRetries

PROPERTIES
    TerminalIsFinal
    ImplementsLifecycle
