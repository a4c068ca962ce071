------------------------------ MODULE Assessments ------------------------------
(* An assessment, one learner's attempts at it (services/learning.py) and     *)
(* their grading and review by concurrent graders (services/grading.py).      *)
(* A call loads the attempt with its answers and review, decides on that      *)
(* copy, and then writes; of what it loaded only the columns it changed are   *)
(* written.  The writes of one call are one step: SQLite locks the database   *)
(* from the first on, and on MySQL the audit event locks the attempt, so that *)
(* of two calls at it one waits or is rolled back.  What a call reads again   *)
(* while it writes is Seen.  Every question is worth one point; who may call  *)
(* is left out.                                                               *)
EXTENDS Naturals, Integers, Sequences, FiniteSets, LearnerDatabase

CONSTANTS
    ChoiceQuestions,    \* multiple_choice and true_false
    ShortAnswers,       \* short_answer questions
    Limits,             \* what max_attempts may be
    Requests,           \* API requests under way at a time
    MaxCalls            \* bound on the calls made

ASSUME QuestionsAssumption == ChoiceQuestions \cap ShortAnswers = {}
ASSUME FiniteAssumption == IsFiniteSet(ChoiceQuestions) /\ IsFiniteSet(ShortAnswers)
ASSUME LimitsAssumption == Limits \subseteq Nat \ {0}

VARIABLES
    assessment,   \* Assessment: whether it is there, its questions and limit
    open,         \* the assessment is active and visible, and so is the learner
    attempts,     \* AssessmentAttempt with answers, grades and review, by id
    request,      \* the calls under way
    calls,        \* how many calls have been made
    resubmitted,  \* history: the attempts that were submitted twice
    overtaken     \* history: those last graded over a snapshot out of date

vars == <<database, assessment, open, attempts, request, calls, resubmitted, overtaken>>

Questions == ChoiceQuestions \cup ShortAnswers
NoScore == 0 - 1

-----------------------------------------------------------------------------
GradingStatuses == {"pending", "manual_grading_required", "graded", "review_pending",
                    "changes_requested", "final", "regraded"}
ReviewStatuses == {"absent", "pending", "approved", "changes_requested", "regraded"}
Scores == NoScore..Cardinality(Questions)

(* answered are the questions with an AssessmentAnswer, graded those whose    *)
(* answer has points or a current ManualGrade, and grade the points.          *)
AttemptRow == [number : Nat \ {0}, status : {"in_progress", "submitted"}, grading : GradingStatuses,
               points : Scores, final : Scores, review : ReviewStatuses,
               answered : SUBSET Questions, graded : SUBSET Questions, grade : [Questions -> {0, 1}]]

NewAttempt(number) ==
    [number |-> number, status |-> "in_progress", grading |-> "pending", points |-> NoScore,
     final |-> NoScore, review |-> "absent",
     answered |-> {}, graded |-> {}, grade |-> [q \in Questions |-> 0]]

Operations == {"submit", "grade", "change", "request", "approve", "request_changes", "regrade"}

Idle == [op |-> "none", id |-> 0, copy |-> NewAttempt(1)]

Call == calls < MaxCalls /\ calls' = calls + 1

Init ==
    /\ database \in Databases
    /\ assessment = [exists |-> FALSE, questions |-> {}, limit |-> 1]
    /\ open = TRUE
    /\ attempts = << >>
    /\ request = [r \in Requests |-> Idle]
    /\ calls = 0
    /\ resubmitted = {}
    /\ overtaken = {}

(* Question and option rules are validated before anything is written, and    *)
(* questions are never edited afterwards.                                     *)
CreateAssessment ==
    /\ Call
    /\ ~assessment.exists
    /\ \E questions \in SUBSET Questions, limit \in Limits :
         assessment' = [exists |-> TRUE, questions |-> questions, limit |-> limit]
    /\ UNCHANGED <<open, attempts, request, resubmitted, overtaken, database>>

(* The learner is deactivated, or the course hidden, or back again.           *)
ToggleOpen ==
    /\ Call
    /\ open' = ~open
    /\ UNCHANGED <<assessment, attempts, request, resubmitted, overtaken, database>>

-----------------------------------------------------------------------------
(* start_assessment_attempt counts, and inserts under the next number, which  *)
(* the unique constraint refuses if it is taken by then.                      *)
CountAttempts(r) ==
    /\ Call
    /\ request[r] = Idle
    /\ assessment.exists /\ open
    /\ Len(attempts) < assessment.limit
    /\ request' = [request EXCEPT ![r] = [Idle EXCEPT !.op = "start", !.id = Len(attempts) + 1]]
    /\ UNCHANGED <<assessment, open, attempts, resubmitted, overtaken, database>>

Finish(r) == request' = [request EXCEPT ![r] = Idle]

StartUnnumbered(r) ==  \* bug: the number of an attempt is not unique
    /\ request[r].op = "start"
    /\ attempts' = Append(attempts, NewAttempt(request[r].id))
    /\ Finish(r)
    /\ UNCHANGED <<assessment, open, calls, resubmitted, overtaken, database>>
StartAssessmentAttempt(r) ==
    /\ request[r].op = "start"
    /\ \A id \in DOMAIN attempts : attempts[id].number # request[r].id
    /\ attempts' = Append(attempts, NewAttempt(request[r].id))
    /\ Finish(r)
    /\ UNCHANGED <<assessment, open, calls, resubmitted, overtaken, database>>

LoadAttempt(r, op, id) ==
    /\ Call
    /\ request[r] = Idle
    /\ request' = [request EXCEPT ![r] = [op |-> op, id |-> id, copy |-> attempts[id]]]
    /\ UNCHANGED <<assessment, open, attempts, resubmitted, overtaken, database>>

(* A refused or failed call is rolled back.                                   *)
EndUnchanged(r) ==
    /\ request[r] # Idle
    /\ Finish(r)
    /\ UNCHANGED <<assessment, open, attempts, calls, resubmitted, overtaken, database>>

Loaded(r, op) == request[r].op = op /\ (op = "submit" \/ request[r].copy.status = "submitted")

(* What was loaded and changed is written over what is there now.             *)
Columns == {"status", "grading", "points", "final", "review"}
Written(now, copy, row) ==
    [column \in DOMAIN now |-> IF column \in Columns /\ row[column] # copy[column] THEN row[column] ELSE now[column]]

View(r) == Seen(attempts[request[r].id], request[r].copy)

Store(r, row) ==
    /\ attempts' = [attempts EXCEPT ![request[r].id] = row]
    /\ overtaken' = IF request[r].op \notin {"grade", "change", "regrade"} THEN overtaken
                    ELSE IF View(r) = attempts[request[r].id] THEN overtaken \ {request[r].id}
                    ELSE overtaken \cup {request[r].id}
    /\ resubmitted' = resubmitted \cup
         (IF request[r].op = "submit" /\ attempts[request[r].id].status = "submitted" THEN {request[r].id} ELSE {})
    /\ Finish(r)
    /\ UNCHANGED <<database, assessment, open, calls>>

-----------------------------------------------------------------------------
Points(row) == Cardinality({q \in row.graded : row.grade[q] = 1})

WithAnswers(row, answered, right) ==
    [row EXCEPT !.answered = @ \cup answered,
                !.graded = @ \cup (answered \cap ChoiceQuestions),
                !.grade = [q \in Questions |-> IF q \in right THEN 1 ELSE @[q]]]

(* What submit_assessment_attempt makes of the columns: automatic points, and *)
(* a final score if every question is an answered choice.                     *)
Submitted(row, answered, right) ==
    LET complete == answered = assessment.questions /\ answered \subseteq ChoiceQuestions IN
    [row EXCEPT !.status = "submitted",
                !.points = Cardinality(right),
                !.final = IF complete THEN Cardinality(right) ELSE NoScore,
                !.grading = IF complete THEN "final"
                            ELSE IF assessment.questions \cap ShortAnswers # {} THEN "manual_grading_required"
                            ELSE "pending"]

(* A second answer to a question is refused by the unique constraint.         *)
SubmitAssessmentAttempt(r) ==
    LET now == attempts[request[r].id]
        copy == request[r].copy IN
    /\ Loaded(r, "submit")
    /\ copy.status # "submitted" /\ copy.answered = {}
    /\ \E answered \in SUBSET assessment.questions :
         /\ answered \cap now.answered = {}
         /\ \E right \in SUBSET (answered \cap ChoiceQuestions) :
              Store(r, WithAnswers(Written(now, copy, Submitted(copy, answered, right)), answered, right))

-----------------------------------------------------------------------------
RecalculateAttempt(row) ==
    LET fully_graded == row.graded = assessment.questions IN
    [row EXCEPT !.points = Points(row),
                !.final = IF fully_graded THEN Points(row) ELSE NoScore,
                !.grading = IF fully_graded THEN "graded" ELSE "manual_grading_required"]

(* A ManualGrade is appended and becomes the current grade of its answer.     *)
AppendGrades(row, grades) ==
    [row EXCEPT !.graded = @ \cup DOMAIN grades,
                !.grade = [q \in Questions |-> IF q \in DOMAIN grades THEN grades[q] ELSE @[q]]]

(* recalculate_attempt loads the attempt again, after the grades are flushed: *)
(* the rows the database then shows it, and its own grades.                   *)
GradesFromCopy(r, grades) ==  \* bug: the attempt is recalculated from the rows the call had loaded
    LET copy == AppendGrades(request[r].copy, grades) IN
    Written(AppendGrades(attempts[request[r].id], grades), copy, RecalculateAttempt(copy))
WithGrades(r, grades) ==
    LET view == AppendGrades(View(r), grades) IN
    Written(AppendGrades(attempts[request[r].id], grades), view, RecalculateAttempt(view))

Grade(r, q) == \E points \in {0, 1} : Store(r, WithGrades(r, [answer \in {q} |-> points]))

GradeShortAnswer(r) ==
    /\ Loaded(r, "grade")
    /\ \E q \in (request[r].copy.answered \cap ShortAnswers) \ request[r].copy.graded : Grade(r, q)

ChangeGrade(r) ==
    /\ Loaded(r, "change")
    /\ \E q \in request[r].copy.graded \cap ShortAnswers : Grade(r, q)

(* The review and the status of the attempt move together.                    *)
SetReview(r, review, grading) ==
    LET copy == request[r].copy IN
    /\ copy.review = "absent" => attempts[request[r].id].review = "absent"  \* else the insert is refused
    /\ Store(r, Written(attempts[request[r].id], copy, [copy EXCEPT !.review = review, !.grading = grading]))

RequestReview(r) ==
    /\ Loaded(r, "request")
    /\ request[r].copy.review # "pending"
    /\ SetReview(r, "pending", "review_pending")

ApproveUngraded(r) ==  \* bug: an attempt is approved before its grading is complete
    /\ Loaded(r, "approve")
    /\ request[r].copy.review = "pending"
    /\ SetReview(r, "approved", "final")
ApproveReview(r) ==
    /\ Loaded(r, "approve")
    /\ request[r].copy.review = "pending"
    /\ request[r].copy.final # NoScore
    /\ SetReview(r, "approved", "final")

RequestGradingChanges(r) ==
    /\ Loaded(r, "request_changes")
    /\ request[r].copy.review = "pending"
    /\ SetReview(r, "changes_requested", "changes_requested")

(* A regrade covers every short answer it loaded, whether graded or not; the  *)
(* attempt is loaded again before its status and its review are written.      *)
RegradeUnreviewed(r) ==  \* bug: the regrade leaves the review as it was
    /\ Loaded(r, "regrade")
    /\ \E grades \in [request[r].copy.answered \cap ShortAnswers -> {0, 1}] :
         Store(r, [WithGrades(r, grades) EXCEPT !.grading = "regraded"])
RegradeAttempt(r) ==
    /\ Loaded(r, "regrade")
    /\ View(r).review = "absent" => attempts[request[r].id].review = "absent"
    /\ \E grades \in [request[r].copy.answered \cap ShortAnswers -> {0, 1}] :
         Store(r, [WithGrades(r, grades)
                     EXCEPT !.grading = "regraded",
                            !.review = IF View(r).review = "regraded" THEN @ ELSE "regraded"])

Next ==
    \/ CreateAssessment \/ ToggleOpen
    \/ \E r \in Requests :
        \/ CountAttempts(r) \/ StartAssessmentAttempt(r)
        \/ \E op \in Operations, id \in DOMAIN attempts : LoadAttempt(r, op, id)
        \/ SubmitAssessmentAttempt(r)
        \/ GradeShortAnswer(r) \/ ChangeGrade(r) \/ RegradeAttempt(r)
        \/ RequestReview(r) \/ ApproveReview(r) \/ RequestGradingChanges(r)
        \/ EndUnchanged(r)

Spec == Init /\ [][Next]_vars

-----------------------------------------------------------------------------
TypeOK ==
    /\ assessment.questions \subseteq Questions
    /\ \A id \in DOMAIN attempts : attempts[id] \in AttemptRow
    /\ \A r \in Requests : request[r].copy \in AttemptRow

(* However many starts count at the same time, the learner has no more        *)
(* attempts than max_attempts, numbered one after the other.                  *)
AttemptsWithinLimit ==
    /\ Len(attempts) <= assessment.limit
    /\ \A id \in DOMAIN attempts : attempts[id].number = id

(* The points of a submitted attempt are those of its answers, and it has a   *)
(* final score, the same, if and only if every question is answered and       *)
(* graded, in whatever order graders load, grade and change each other's      *)
(* answers.  On SQLite always; on MySQL recalculate_attempt may miss another  *)
(* grader's answer, so an attempt last graded over an outdated snapshot only  *)
(* has no final score too early.  Left out is an attempt two requests         *)
(* submitted at once: the later answers replace the earlier.                  *)
ScoresFollowGrades ==
    /\ database = "sqlite" => overtaken = {}
    /\ \A id \in DOMAIN attempts :
         /\ attempts[id].final # NoScore => attempts[id].graded = assessment.questions
         /\ attempts[id].status = "submitted" /\ id \notin resubmitted \cup overtaken =>
              /\ attempts[id].points = Points(attempts[id])
              /\ attempts[id].final = IF attempts[id].graded = assessment.questions
                                      THEN attempts[id].points ELSE NoScore

(* The status of an attempt agrees with its review, whatever graders and      *)
(* reviewers write over each other's work; a new grade sets it to graded.  A  *)
(* regrade on MySQL may leave a review alone its snapshot says is regraded.   *)
StatusFollowsReview ==
    \A id \in DOMAIN attempts \ resubmitted :
        /\ attempts[id].grading = "review_pending" => attempts[id].review = "pending"
        /\ attempts[id].grading = "changes_requested" => attempts[id].review = "changes_requested"
        /\ attempts[id].grading = "regraded" => attempts[id].review = "regraded" \/ id \in overtaken
        /\ attempts[id].grading = "final" => attempts[id].review \in {"absent", "approved"}

(* Once there is a final score there always is one, so no approval or final   *)
(* status, however stale the copy it was decided on, is without a score.      *)
ApprovedAttemptsHaveScores ==
    \A id \in DOMAIN attempts :
        attempts[id].review = "approved" \/ attempts[id].grading = "final" => attempts[id].final # NoScore

(* The rows have their types and the learner no attempt beyond the limit.     *)
AttemptsConsistent == TypeOK /\ AttemptsWithinLimit
=============================================================================
