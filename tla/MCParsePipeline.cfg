CONSTANTS
    r1 = r1
    r2 = r2
    c1 = c1
    c2 = c2
    Files = {f1}
    Jobs = {j1}
    Requests <- MCTwoRequests
    Contents <- MCContents
    MaxAttempts = 2
    None = None

SPECIFICATION Spec

SYMMETRY MCSymmetry

INVARIANTS
    ExecutionsConsistent
    SuccessHasOutput

PROPERTIES
    ImplementsExecutionLog
    RequestsSettleJobs

CHECK_DEADLOCK FALSE
