CONSTANTS
    l1 = l1
    l2 = l2
    r1 = r1
    r2 = r2
    Databases = {"sqlite", "mysql"}
    Lessons <- MCLessons
    Courses = {c1}
    Paths = {p1}
    LessonRequests <- MCRequests
    MaxLessonCalls = 6

SPECIFICATION ProgressSpec

SYMMETRY MCSymmetry

CONSTRAINT MCBound

INVARIANTS
    EnrollmentsConsistent
    CompletedLessonsHaveHistory
    EnrollmentsCountLessons

CHECK_DEADLOCK FALSE
