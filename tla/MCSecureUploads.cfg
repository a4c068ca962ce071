CONSTANTS
    Uploads <- MCUploads
    Contents <- MCContents
    Paths <- MCPaths
    Requests <- MCRequests
    RowLocks = TRUE
    None = None

SPECIFICATION FairSpec

INVARIANTS
    SessionsConsistent
    
    NoOrphanObjects

 

CHECK_DEADLOCK FALSE
