CONSTANTS
    m1 = m1
    m2 = m2
    l1 = l1
    l2 = l2
    l3 = l3
    Schools = {s1}
    Degrees = {d1}
    Courses = {c1}
    Modules <- MCModules
    Lessons <- MCLessons
    Objectives = {o1}
    Paths = {p1}
    MaxOrder = 2
    None = None

SPECIFICATION Spec

SYMMETRY MCSymmetry

INVARIANTS
    PrerequisitesAreAcyclic
    RowsConsistent

CHECK_DEADLOCK FALSE
