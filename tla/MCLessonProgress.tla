-------------------------- MODULE MCLessonProgress --------------------------
(* Two lessons that may lie in one course and one path, two calls at a       *)
(* time, and six calls in all: enough for a lesson to be completed, reset    *)
(* and completed again, and for two calls about one lesson to overlap.  With *)
(* snapshots, on MySQL, five: two completions or an enrolment and one that   *)
(* overlap, and one more.                                                    *)
EXTENDS LessonProgress, TLC

CONSTANTS l1, l2, r1, r2

MCLessons == {l1, l2}
MCRequests == {r1, r2}
MCSymmetry == Permutations(MCLessons) \cup Permutations(MCRequests)
MCBound == database = "mysql" => lessonCalls < MaxLessonCalls
=============================================================================
