CONSTANTS
    r1 = r1
    r2 = r2
    q2 = q2
    q3 = q3
    Databases = {"sqlite", "mysql"}
    ChoiceQuestions = {q1}
    ShortAnswers <- MCShortAnswers
    Limits = {1, 2}
    Requests <- MCRequests
    MaxCalls = 8

SPECIFICATION Spec

SYMMETRY MCSymmetry

CONSTRAINT MCBound

INVARIANTS
    AttemptsConsistent
    ScoresFollowGrades
    StatusFollowsReview
    ApprovedAttemptsHaveScores

CHECK_DEADLOCK FALSE
