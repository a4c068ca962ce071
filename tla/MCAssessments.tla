--------------------------- MODULE MCAssessments ----------------------------
(* An assessment of any of a choice and two short answers, with one attempt  *)
(* allowed, or two where it does not have all three questions; two requests  *)
(* at a time, and eight calls in all: enough to submit, grade, review and    *)
(* regrade an attempt while another request holds a stale copy, and for two  *)
(* graders to grade its two answers at once.                                 *)
EXTENDS Assessments, TLC

CONSTANTS r1, r2, q2, q3

MCRequests == {r1, r2}
MCShortAnswers == {q2, q3}
MCSymmetry == Permutations(MCRequests) \cup Permutations(MCShortAnswers)
MCBound == assessment.questions = Questions => assessment.limit = 1
=============================================================================
