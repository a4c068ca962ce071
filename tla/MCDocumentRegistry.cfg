CONSTANTS
    sum1 = sum1
    sum2 = sum2
    c1 = c1
    c2 = c2
    Documents = {d1}
    Sources = {s1}
    Spellings = {"a", "A", "b"}
    Fold <- MCFold
    Checksums <- MCChecksums
    Clients <- MCClients
    Slices <- MCSlices
    MaxOverlaps = 1
    None = None

SPECIFICATION Spec

SYMMETRY MCSymmetry

INVARIANTS
    OneCurrentVersion
    RowsConsistent
    SpellingsDiffer

CHECK_DEADLOCK FALSE
