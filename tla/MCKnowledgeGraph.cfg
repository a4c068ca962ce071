CONSTANTS
    k1 = k1
    k2 = k2
    g1 = g1
    g2 = g2
    g3 = g3
    a = a
    b = b
    Categories <- MCCategories
    Concepts <- MCConcepts
    m1 = m1
    m2 = m2
    Claims <- MCClaims
    Articles = {w2}
    Sections = {w3}
    Questions = {w4}
    Aliases = {w5}
    SourceParts = {w6}
    Conflicts = {y1, y2}
    Assessments = {w7}
    Reviews = {w8}
    Evidence = {e1}
    Sources = {s1}
    Relationships = {l1, l2}
    RelationshipTypes = {r1, r2}
    Tags = {t1}
    Taggings = {x1}
    FinancialEntities = {f1, f2}
    AssetClasses = {n1}
    Instruments = {n2}
    CaseStudies = {n3}
    Documents = {w1}
    Clients <- MCClients
    Slices <- MCSlices
    MaxOverlaps = 2

SPECIFICATION GraphSpec

SYMMETRY MCSymmetry

INVARIANTS
    GraphConsistent
    CategoriesAreATree

CHECK_DEADLOCK FALSE
