CONSTANTS
    Documents <- MCDocuments
    ChunkConfigurations <- MCChunkConfigurations
    MaxChunks = 30

SPECIFICATION CuttingSpec

INVARIANTS
    NothingIsLost
    ChunksFit
    SectionsStayApart
    ChunkingEnds

CHECK_DEADLOCK FALSE
