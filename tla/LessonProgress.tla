---------------------------- MODULE LessonProgress ----------------------------
(* A learner's way through the lessons (services/learning.py): the progress   *)
(* row of each lesson, the completion events, and the enrolments in courses   *)
(* and curriculum paths, which cache an aggregate of the progress rows.       *)
(* An API call reads first and writes later, on a copy that may be stale by   *)
(* then.  The writes of one call are one step, seen by others when they are   *)
(* committed: SQLite locks the database from the first on, and on MySQL what  *)
(* a call reads while it writes is from its own snapshot (Seen).  Learners    *)
(* share no rows, so one is modelled.  Time stamps, time spent and attempt    *)
(* counts are left out.  No name is also one of Assessments:                  *)
(* LearnerEngineProofs extends both.                                          *)
EXTENDS Naturals, FiniteSets, LearnerDatabase

CONSTANTS
    Lessons,
    Courses,
    Paths,            \* curriculum paths
    LessonRequests,         \* API requests under way at a time
    MaxLessonCalls          \* bound on the calls made

ASSUME LessonsAssumption == IsFiniteSet(Lessons)
ASSUME CollectionsAssumption == Courses \cap Paths = {}
ASSUME CallsAssumption == MaxLessonCalls \in Nat

VARIABLES
    learner,      \* Learner.status, "absent" before it is created
    contents,     \* the lessons of each course and path
    progress,     \* LessonProgress, by lesson
    completions,  \* how many LessonCompletion events each lesson has
    enrollment,   \* CourseEnrollment and CurriculumPathEnrollment
    lessonRequest,      \* the calls under way
    lessonCalls,        \* how many calls have been made
    drifted       \* history: enrolments something has happened to that the
                  \* program does not recalculate, or not from the latest rows

rows == <<database, learner, contents, progress, completions, enrollment, drifted>>
progressVars == <<rows, lessonRequest, lessonCalls>>

Collections == Courses \cup Paths

-----------------------------------------------------------------------------
LearnerStatuses == {"active", "inactive", "suspended"}
LessonProgressStatuses == {"not_started", "in_progress", "completed"}
EnrollmentStatuses == {"enrolled", "in_progress", "completed", "cancelled"}

ProgressRow == [status : LessonProgressStatuses \cup {"absent"}, percent : {0, 50, 100}]
EnrollmentRow == [status : EnrollmentStatuses \cup {"absent"}, percent : 0..100, completed : BOOLEAN]

NoProgress == [status |-> "absent", percent |-> 0]
NotEnrolled == [status |-> "absent", percent |-> 0, completed |-> FALSE]

(* What a call has read: its lesson's row; and on MySQL, if it will read      *)
(* again, the snapshot it will be given.                                      *)
RowsNow == [contents |-> contents, progress |-> progress, enrollment |-> enrollment]
NoSnapshot == [contents |-> [k \in Collections |-> {}], progress |-> [l \in Lessons |-> NoProgress],
               enrollment |-> [k \in Collections |-> NotEnrolled]]
NoCall == [call |-> "none", about |-> "none", copy |-> NoProgress, snapshot |-> NoSnapshot]

Enrolled(k) == enrollment[k].status # "absent"

(* The calls of the API about one lesson.  "half" and "full" are PATCH        *)
(* requests with a percentage; one with time only is an "access".             *)
Calls == {"start", "access", "half", "full", "complete"}
Completing == {"full", "complete"}

LessonCall == lessonCalls < MaxLessonCalls /\ lessonCalls' = lessonCalls + 1

ProgressInit ==
    /\ database \in Databases
    /\ learner = "absent"
    /\ contents \in [Collections -> SUBSET Lessons]
    /\ progress = [l \in Lessons |-> NoProgress]
    /\ completions = [l \in Lessons |-> 0]
    /\ enrollment = [k \in Collections |-> NotEnrolled]
    /\ lessonRequest = [r \in LessonRequests |-> NoCall]
    /\ lessonCalls = 0
    /\ drifted = {}

-----------------------------------------------------------------------------
CreateLearner ==
    /\ LessonCall
    /\ learner = "absent"
    /\ \E status \in LearnerStatuses : learner' = status
    /\ UNCHANGED <<database, contents, progress, completions, enrollment, lessonRequest, drifted>>

UpdateLearner ==
    /\ LessonCall
    /\ learner # "absent"
    /\ \E status \in LearnerStatuses : learner' = status
    /\ UNCHANGED <<database, contents, progress, completions, enrollment, lessonRequest, drifted>>

DeactivateLearner ==
    /\ LessonCall
    /\ learner # "absent"
    /\ learner' = "inactive"
    /\ UNCHANGED <<database, contents, progress, completions, enrollment, lessonRequest, drifted>>

(* An enrolment among ks no longer counts its lessons.                        *)
Drift(ks) == drifted' = drifted \cup {k \in ks : Enrolled(k)}

(* Administrators add lessons to courses and paths, or take them away, and    *)
(* leave the enrolments as they are.                                          *)
EditCollection(k, l) ==
    /\ LessonCall
    /\ contents' = [contents EXCEPT ![k] = IF l \in @ THEN @ \ {l} ELSE @ \cup {l}]
    /\ Drift({k})
    /\ UNCHANGED <<database, learner, progress, completions, enrollment, lessonRequest>>

-----------------------------------------------------------------------------
(* The aggregate of an enrolment, and what it makes of its status.            *)
Completed(lessons, of) == {l \in lessons : of[l].status = "completed"}

CompletionPercentage(lessons, of) ==
    IF lessons = {} THEN 0
    ELSE (Cardinality(Completed(lessons, of)) * 100) \div Cardinality(lessons)

RollupKeepsStatus(e, lessons, of) ==  \* bug: a completed enrolment is not reopened
    IF lessons # {} /\ Completed(lessons, of) = lessons
    THEN [status |-> "completed", percent |-> 100, completed |-> TRUE]
    ELSE [e EXCEPT !.percent = CompletionPercentage(lessons, of)]
SetEnrollmentRollup(e, lessons, of) ==
    IF lessons # {} /\ Completed(lessons, of) = lessons
    THEN [status |-> "completed", percent |-> 100, completed |-> TRUE]
    ELSE [status |-> IF e.status = "completed" THEN "in_progress" ELSE e.status,
          percent |-> CompletionPercentage(lessons, of),
          completed |-> IF e.status = "completed" THEN FALSE ELSE e.completed]

(* The columns that differ from what the call saw are written.                *)
EnrollmentWritten(now, seen, row) ==
    [column \in {"status", "percent", "completed"} |-> IF row[column] # seen[column] THEN row[column] ELSE now[column]]

RecalculateRelatedEnrollments(view, l, of) ==
    enrollment' = [k \in Collections |->
        IF view.enrollment[k].status # "absent" /\ l \in view.contents[k]
        THEN EnrollmentWritten(enrollment[k], view.enrollment[k],
                               SetEnrollmentRollup(view.enrollment[k], view.contents[k], of))
        ELSE enrollment[k]]

(* The view is up to date in all that counts for k, of being the lessons with *)
(* the call's own among them.                                                 *)
Current(view, k, of) ==
    /\ view.contents[k] = contents[k]
    /\ view.enrollment[k] = enrollment[k]
    /\ Completed(contents[k], of) = Completed(contents[k], progress')

(* Those of ks that are counted are right again; those overlooked, or counted *)
(* from an outdated view, are not.                                            *)
Recounted(view, ks, of) ==
    drifted' = (drifted \ ks) \cup {k \in ks : ~Current(view, k, of)}

RowsSeen(r) == Seen(RowsNow, lessonRequest[r].snapshot)
Related(l, view) == {k \in Collections : Enrolled(k) /\ l \in contents[k] \cup view.contents[k]}

-----------------------------------------------------------------------------
(* An active learner enrols once: the row is inserted, which the unique       *)
(* constraint refuses if it is there by now, and counts what is completed.    *)
ReadEnrollment(r, k) ==
    /\ LessonCall
    /\ lessonRequest[r] = NoCall
    /\ learner = "active"
    /\ ~Enrolled(k)
    /\ lessonRequest' = [lessonRequest EXCEPT ![r] =
         [call |-> "enroll", about |-> k, copy |-> NoProgress, snapshot |-> Seen(NoSnapshot, RowsNow)]]
    /\ UNCHANGED rows

FinishCall(r) == lessonRequest' = [lessonRequest EXCEPT ![r] = NoCall] /\ UNCHANGED <<database, lessonCalls>>

Enroll(r, k) ==
    /\ lessonRequest[r].call = "enroll" /\ lessonRequest[r].about = k
    /\ ~Enrolled(k)
    /\ enrollment' = [enrollment EXCEPT
         ![k] = SetEnrollmentRollup([NotEnrolled EXCEPT !.status = "enrolled"],
                                    RowsSeen(r).contents[k], RowsSeen(r).progress)]
    /\ UNCHANGED <<learner, contents, progress, completions>>
    /\ Recounted(RowsSeen(r), {k}, RowsSeen(r).progress)
    /\ FinishCall(r)

EnrollInCourse(r, c) == Enroll(r, c)
EnrollInCurriculumPath(r, p) == Enroll(r, p)

(* Nothing in the API starts or completes an enrolment by hand; scripts and   *)
(* tests do, whatever its lessons say.                                        *)
StartEnrollment(k) ==
    /\ LessonCall
    /\ enrollment[k].status \in {"enrolled", "in_progress"}
    /\ enrollment' = [enrollment EXCEPT ![k].status = "in_progress"]
    /\ UNCHANGED <<database, learner, contents, progress, completions, lessonRequest, drifted>>

CompleteEnrollment(k) ==
    /\ LessonCall
    /\ Enrolled(k)
    /\ enrollment[k].status # "cancelled"
    /\ enrollment' = [enrollment EXCEPT ![k] = [status |-> "completed", percent |-> 100, completed |-> TRUE]]
    /\ Drift({k})
    /\ UNCHANGED <<database, learner, contents, progress, completions, lessonRequest>>

-----------------------------------------------------------------------------
(* A call reads the lesson's row, if there is one, outside of any lock.       *)
GetOrCreateProgress(r, l, call) ==
    /\ LessonCall
    /\ lessonRequest[r] = NoCall
    /\ learner # "absent"
    /\ lessonRequest' = [lessonRequest EXCEPT ![r] =
         [call |-> call, about |-> l, copy |-> progress[l],
          snapshot |-> IF call \in Completing THEN Seen(NoSnapshot, RowsNow) ELSE NoSnapshot]]
    /\ UNCHANGED rows

(* A row that was missing is inserted, which the unique constraint refuses if *)
(* it is there by now; of a row that was read, the columns the call changed   *)
(* are written and the others left as they are.                               *)
LoadedProgress(r) ==
    IF lessonRequest[r].copy = NoProgress THEN [NoProgress EXCEPT !.status = "not_started"] ELSE lessonRequest[r].copy

InsertRefused(r) == lessonRequest[r].copy = NoProgress /\ progress[lessonRequest[r].about] # NoProgress

Stored(r, row) == LET l == lessonRequest[r].about
                      copy == lessonRequest[r].copy IN
    [progress EXCEPT ![l] =
        IF copy = NoProgress THEN row
        ELSE [column \in {"status", "percent"} |-> IF row[column] # copy[column] THEN row[column] ELSE @[column]]]

(* A lesson completed since the call read its row may be set back, and the    *)
(* enrolments it was counted in are left as they are.                         *)
SetBack(l) == Drift(IF progress[l].status = "completed" /\ progress'[l].status # "completed"
                    THEN {k \in Collections : l \in contents[k]} ELSE {})

Started(row) == IF row.status = "not_started" THEN [row EXCEPT !.status = "in_progress"] ELSE row

(* Reading a lesson creates its row; so does recording an access or a time.   *)
RecordLessonAccess(r) ==
    /\ lessonRequest[r].call = "access"
    /\ ~InsertRefused(r)
    /\ progress' = Stored(r, LoadedProgress(r))
    /\ FinishCall(r)
    /\ UNCHANGED <<learner, contents, completions, enrollment, drifted>>

StartLesson(r) ==
    /\ lessonRequest[r].call = "start"
    /\ ~InsertRefused(r)
    /\ progress' = Stored(r, Started(LoadedProgress(r)))
    /\ SetBack(lessonRequest[r].about)
    /\ FinishCall(r)
    /\ UNCHANGED <<learner, contents, completions, enrollment>>

UpdateLessonProgress(r) ==
    /\ lessonRequest[r].call = "half"
    /\ LoadedProgress(r).status # "completed"
    /\ ~InsertRefused(r)
    /\ progress' = Stored(r, [Started(LoadedProgress(r)) EXCEPT !.percent = 50])
    /\ SetBack(lessonRequest[r].about)
    /\ FinishCall(r)
    /\ UNCHANGED <<learner, contents, completions, enrollment>>

(* The row and the event are flushed before the enrolments are recalculated,  *)
(* from what the call sees by then: the view, and its own lesson completed.   *)
Counted(r, of) ==
    LET l == lessonRequest[r].about
        view == RowsSeen(r) IN
    /\ RecalculateRelatedEnrollments(view, l, of)
    /\ Recounted(view, Related(l, view), [view.progress EXCEPT ![l] = progress'[l]])

CompleteUncounted(r) ==  \* bug: the enrolments are recalculated before the completion is flushed
    /\ lessonRequest[r].call \in Completing
    /\ LoadedProgress(r).status # "completed"
    /\ ~InsertRefused(r)
    /\ progress' = Stored(r, [status |-> "completed", percent |-> 100])
    /\ completions' = [completions EXCEPT ![lessonRequest[r].about] = @ + 1]
    /\ Counted(r, RowsSeen(r).progress)
    /\ FinishCall(r)
    /\ UNCHANGED <<learner, contents>>
CompleteSilently(r) ==  \* bug: progress of 100 percent is stored without a completion event
    /\ lessonRequest[r].call \in Completing
    /\ LoadedProgress(r).status # "completed"
    /\ ~InsertRefused(r)
    /\ progress' = Stored(r, [status |-> "completed", percent |-> 100])
    /\ completions' = IF lessonRequest[r].call = "full" THEN completions
                      ELSE [completions EXCEPT ![lessonRequest[r].about] = @ + 1]
    /\ Counted(r, [RowsSeen(r).progress EXCEPT ![lessonRequest[r].about] = progress'[lessonRequest[r].about]])
    /\ FinishCall(r)
    /\ UNCHANGED <<learner, contents>>
CompleteLesson(r) ==
    /\ lessonRequest[r].call \in Completing
    /\ LoadedProgress(r).status # "completed"
    /\ ~InsertRefused(r)
    /\ progress' = Stored(r, [status |-> "completed", percent |-> 100])
    /\ completions' = [completions EXCEPT ![lessonRequest[r].about] = @ + 1]
    /\ Counted(r, [RowsSeen(r).progress EXCEPT ![lessonRequest[r].about] = progress'[lessonRequest[r].about]])
    /\ FinishCall(r)
    /\ UNCHANGED <<learner, contents>>

(* A call ends without a trace when the constraint refuses its insert, when   *)
(* it would set back a lesson its copy says is completed, when it completes   *)
(* one that is already, and when the lesson is not published.                 *)
EndCallUnchanged(r) ==
    /\ lessonRequest[r] # NoCall
    /\ FinishCall(r)
    /\ UNCHANGED rows

(* reset_lesson_progress, for scripts: the sessions of the program do not     *)
(* flush by themselves, and the enrolments are recalculated by a query that   *)
(* comes before the lesson's new status is flushed.                           *)
ResetLessonProgress(l) ==
    /\ LessonCall
    /\ learner # "absent"
    /\ progress' = [progress EXCEPT ![l] = [status |-> "not_started", percent |-> 0]]
    /\ RecalculateRelatedEnrollments(RowsNow, l, progress)
    /\ Recounted(RowsNow, Related(l, RowsNow), progress)
    /\ UNCHANGED <<database, learner, contents, completions, lessonRequest>>

ProgressNext ==
    \/ CreateLearner \/ UpdateLearner \/ DeactivateLearner
    \/ \E k \in Collections, l \in Lessons : EditCollection(k, l)
    \/ \E k \in Collections : StartEnrollment(k) \/ CompleteEnrollment(k)
    \/ \E r \in LessonRequests, l \in Lessons, call \in Calls : GetOrCreateProgress(r, l, call)
    \/ \E r \in LessonRequests :
        \/ RecordLessonAccess(r) \/ StartLesson(r) \/ UpdateLessonProgress(r)
        \/ CompleteLesson(r) \/ EndCallUnchanged(r)
        \/ \E k \in Collections : ReadEnrollment(r, k)
        \/ \E c \in Courses : EnrollInCourse(r, c)
        \/ \E p \in Paths : EnrollInCurriculumPath(r, p)
    \/ \E l \in Lessons : ResetLessonProgress(l)

ProgressSpec == ProgressInit /\ [][ProgressNext]_progressVars

-----------------------------------------------------------------------------
Snapshots == [contents : [Collections -> SUBSET Lessons], progress : [Lessons -> ProgressRow],
              enrollment : [Collections -> EnrollmentRow]]

ProgressTypeOK ==
    /\ learner \in LearnerStatuses \cup {"absent"}
    /\ contents \in [Collections -> SUBSET Lessons]
    /\ progress \in [Lessons -> ProgressRow]
    /\ completions \in [Lessons -> 0..MaxLessonCalls]
    /\ enrollment \in [Collections -> EnrollmentRow]
    /\ lessonRequest \in [LessonRequests ->
         [call : Calls \cup {"none", "enroll"}, about : Lessons \cup Collections \cup {"none"},
          copy : ProgressRow, snapshot : Snapshots]]
    /\ drifted \subseteq Collections

(* The percentage of an enrolment is that of its lessons, however many calls  *)
(* complete lessons, enrol and rest on old copies at the same time, unless    *)
(* since it was last counted its course was edited, it was completed by hand, *)
(* a completed lesson was reset or set back by a call that had read it before *)
(* (in no case do the sources recalculate), or, on MySQL only, the call that  *)
(* counted it overlapped another.                                             *)
EnrollmentsCountLessons ==
    \A k \in Collections \ drifted :
        Enrolled(k) => enrollment[k].percent = CompletionPercentage(contents[k], progress)

(* What the cached columns of an enrolment say of each other, after any       *)
(* sequence of completions, resets, explicit completions and edits.  On MySQL *)
(* a percentage is written alone when only it differs from the snapshot.      *)
EnrollmentsAgreeWithThemselves ==
    \A k \in Collections :
        /\ enrollment[k].status = "completed" <=> enrollment[k].completed
        /\ database = "sqlite" \/ k \notin drifted =>
             (enrollment[k].status = "completed" <=> enrollment[k].percent = 100)

(* No lesson is completed without an event in its history, which resets keep. *)
CompletedLessonsHaveHistory ==
    \A l \in Lessons : progress[l].status = "completed" => completions[l] > 0

(* tests/test_learning_services.py: after reset_lesson_progress of a lesson   *)
(* of a completed course, `assert course_enrollment.status == "in_progress"`. *)
ResetsReopenEnrollments ==
    [][\A l \in Lessons, k \in Collections :
         /\ progress[l].status = "completed" /\ progress'[l].status = "not_started"
         /\ Enrolled(k) /\ l \in contents[k]
         => enrollment'[k].status # "completed"]_progressVars

(* The rows have their types and every enrolment agrees with itself.          *)
EnrollmentsConsistent == ProgressTypeOK /\ EnrollmentsAgreeWithThemselves
=============================================================================
