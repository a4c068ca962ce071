------------------------- MODULE LearnerEngineProofs -------------------------
(* Proofs about the learner engine, for any lessons, courses, paths,          *)
(* questions, limits and requests: first the attempts at an assessment and    *)
(* their grading (Assessments), then the way through the lessons              *)
(* (LessonProgress).  The two modules share no rows, and no names but the     *)
(* database.                                                                  *)
EXTENDS Assessments, LessonProgress, FiniteSetTheorems, TLAPS

(* The operations a request may be in, and the types of the variables.        *)
AllOperations == Operations \cup {"none", "start"}

Types ==
    /\ assessment \in [exists : BOOLEAN, questions : SUBSET Questions, limit : Nat]
    /\ attempts \in Seq(AttemptRow)
    /\ request \in [Requests -> [op : AllOperations, id : Nat, copy : AttemptRow]]

(* Nothing is numbered beyond the limit, which is set before the first        *)
(* attempt.  A start that has counted is at most one ahead.                   *)
Numbered ==
    /\ AttemptsWithinLimit
    /\ ~assessment.exists => attempts = << >> /\ \A r \in Requests : request[r].op = "none"
    /\ \A r \in Requests : request[r].op = "start" =>
         request[r].id \in 1..assessment.limit /\ request[r].id <= Len(attempts) + 1

(* What holds of an attempt at all times, and so of every copy of it.         *)
Sound(row, id) ==
    /\ row.status = "in_progress" => row = NewAttempt(id)
    /\ row.answered \subseteq assessment.questions
    /\ row.graded \subseteq assessment.questions
    /\ row.final # NoScore => row.graded = assessment.questions
    /\ row.review = "approved" \/ row.grading = "final" => row.final # NoScore

Scored(row) ==
    row.status = "submitted" =>
        /\ row.points = Points(row)
        /\ row.final = IF row.graded = assessment.questions THEN row.points ELSE NoScore

Reviewed(row) ==
    /\ row.grading = "review_pending" => row.review = "pending"
    /\ row.grading = "changes_requested" => row.review = "changes_requested"
    /\ row.grading = "final" => row.review \in {"absent", "approved"}

Recorded(row) == Scored(row) /\ (row.grading = "regraded" => row.review = "regraded")

Graded(row, id) ==
    /\ Sound(row, id)
    /\ id \notin resubmitted => Reviewed(row)
    /\ id \notin resubmitted \cup overtaken => Recorded(row)

(* What an attempt has, it keeps.                                             *)
Since(copy, row) ==
    /\ copy.status = "submitted" => row.status = "submitted"
    /\ copy.final # NoScore => row.final # NoScore
    /\ copy.graded \subseteq row.graded

Copied(r) ==
    request[r].op \in Operations =>
        LET id == request[r].id
            copy == request[r].copy IN
        /\ id \in DOMAIN attempts
        /\ Sound(copy, id)
        /\ id \notin resubmitted => Reviewed(copy)
        /\ Since(copy, attempts[id])

(* The inductive invariant.                                                   *)
GradingInv ==
    /\ Types /\ Numbered
    /\ database = "sqlite" => overtaken = {}
    /\ \A id \in DOMAIN attempts : Graded(attempts[id], id)
    /\ \A r \in Requests : Copied(r)

-----------------------------------------------------------------------------
(* There are at most as many points as questions.                             *)
LEMMA SubsetPoints ==
  ASSUME NEW S \in SUBSET Questions
  PROVE  Cardinality(S) \in 0..Cardinality(Questions) /\ Cardinality(Questions) \in Nat
<1>1. IsFiniteSet(Questions)
  BY FiniteAssumption, FS_Union DEF Questions
<1> QED BY <1>1, FS_Subset, FS_CardinalityType

LEMMA PointsAreScores ==
  ASSUME NEW row \in AttemptRow
  PROVE  Points(row) \in 0..Cardinality(Questions) /\ Cardinality(Questions) \in Nat
  BY SubsetPoints, {q \in row.graded : row.grade[q] = 1} \in SUBSET Questions DEF Points, AttemptRow

LEMMA NewAttemptType ==
  ASSUME NEW number \in Nat \ {0}
  PROVE  NewAttempt(number) \in AttemptRow
<1>1. Cardinality(Questions) \in Nat
  BY SubsetPoints, {} \in SUBSET Questions
<1> QED BY <1>1 DEF NewAttempt, AttemptRow, GradingStatuses, ReviewStatuses, Scores, NoScore

(* The columns that are written are those that were changed.                  *)
LEMMA WrittenRow ==
  ASSUME NEW now \in AttemptRow, NEW copy \in AttemptRow, NEW row \in AttemptRow
  PROVE  LET new == Written(now, copy, row) IN
         /\ new \in AttemptRow
         /\ new.number = now.number
         /\ new.status = IF row.status # copy.status THEN row.status ELSE now.status
         /\ new.grading = IF row.grading # copy.grading THEN row.grading ELSE now.grading
         /\ new.points = IF row.points # copy.points THEN row.points ELSE now.points
         /\ new.final = IF row.final # copy.final THEN row.final ELSE now.final
         /\ new.review = IF row.review # copy.review THEN row.review ELSE now.review
         /\ new.answered = now.answered /\ new.graded = now.graded /\ new.grade = now.grade
<1>1. Written(now, copy, row) \in AttemptRow
  BY DEF Written, AttemptRow, Columns
<1>2. Written(now, copy, row).number = now.number
  BY DEF Written, AttemptRow, Columns
<1>3. Written(now, copy, row).status = IF row.status # copy.status THEN row.status ELSE now.status
  BY DEF Written, AttemptRow, Columns
<1>4. Written(now, copy, row).grading = IF row.grading # copy.grading THEN row.grading ELSE now.grading
  BY DEF Written, AttemptRow, Columns
<1>5. Written(now, copy, row).points = IF row.points # copy.points THEN row.points ELSE now.points
  BY DEF Written, AttemptRow, Columns
<1>6. Written(now, copy, row).final = IF row.final # copy.final THEN row.final ELSE now.final
  BY DEF Written, AttemptRow, Columns
<1>7. Written(now, copy, row).review = IF row.review # copy.review THEN row.review ELSE now.review
  BY DEF Written, AttemptRow, Columns
<1>8. Written(now, copy, row).answered = now.answered
  BY DEF Written, AttemptRow, Columns
<1>9. Written(now, copy, row).graded = now.graded /\ Written(now, copy, row).grade = now.grade
  BY DEF Written, AttemptRow, Columns
<1> QED BY <1>1, <1>2, <1>3, <1>4, <1>5, <1>6, <1>7, <1>8, <1>9

-----------------------------------------------------------------------------
(* A row that may follow what an attempt is now may be stored.                *)
LEMMA StoreKeeps ==
  ASSUME GradingInv,
         NEW r \in Requests, request[r].op \in Operations,
         NEW row \in AttemptRow, row.number = request[r].id,
         Store(r, row),
         Sound(row, request[r].id),
         request[r].id \notin resubmitted' => Reviewed(row),
         request[r].id \notin resubmitted' \cup overtaken' => Recorded(row),
         Since(attempts[request[r].id], row)
  PROVE  GradingInv'
<1> DEFINE id == request[r].id
<1>1. id \in DOMAIN attempts /\ resubmitted \subseteq resubmitted'
  BY DEF GradingInv, Copied, Store
<1>0. overtaken \subseteq overtaken' \cup {id}
  BY DEF Store
<1>12. database' = "sqlite" => overtaken' = {}
  <2> SUFFICES ASSUME database = "sqlite" PROVE overtaken' = {}
    BY DEF Store
  <2>1. View(r) = attempts[id] /\ overtaken = {}
    BY DEF View, Seen, GradingInv
  <2> QED BY <2>1 DEF Store
<1>2. attempts' = [attempts EXCEPT ![id] = row] /\ request' = [request EXCEPT ![r] = Idle]
  BY DEF Store, Finish
<1>3. UNCHANGED <<assessment, open, calls>>
  BY DEF Store
<1>4. Idle \in [op : AllOperations, id : Nat, copy : AttemptRow]
  BY NewAttemptType DEF Idle, AllOperations
<1>5. /\ attempts' \in Seq(AttemptRow) /\ Len(attempts') = Len(attempts)
      /\ DOMAIN attempts' = DOMAIN attempts
      /\ \A other \in DOMAIN attempts : attempts'[other] = IF other = id THEN row ELSE attempts[other]
  BY <1>1, <1>2 DEF GradingInv, Types
<1>6. Types'
  BY <1>2, <1>3, <1>4, <1>5 DEF GradingInv, Types
<1>7. \A other \in Requests : request'[other] = IF other = r THEN Idle ELSE request[other]
  BY <1>2 DEF GradingInv, Types
<1>8. Idle.op = "none"
  BY DEF Idle
<1>9. Numbered'
  <2>1. AttemptsWithinLimit'
    BY <1>3, <1>5 DEF GradingInv, Numbered, AttemptsWithinLimit
  <2>2. attempts # << >>
    BY <1>1
  <2> QED BY <2>1, <2>2, <1>3, <1>5, <1>7, <1>8 DEF GradingInv, Numbered
<1>10. ASSUME NEW other \in DOMAIN attempts' PROVE Graded(attempts[other], other)'
  <2>1. CASE other = id
    <3>1. attempts'[other] = row
      BY <2>1, <1>1, <1>5
    <3> QED BY <3>1, <2>1, <1>3 DEF Graded, Sound, Recorded, Scored, Reviewed
  <2>2. CASE other # id
    <3>1. attempts'[other] = attempts[other] /\ Graded(attempts[other], other)
      BY <2>2, <1>5 DEF GradingInv
    <3> QED BY <3>1, <2>2, <1>0, <1>1, <1>3 DEF Graded, Sound, Recorded, Scored, Reviewed
  <2> QED BY <2>1, <2>2
<1>11. ASSUME NEW other \in Requests PROVE Copied(other)'
  <2>1. CASE other = r
    BY <2>1, <1>7, <1>8 DEF Copied, Operations
  <2>2. CASE other # r
    <3>1. request'[other] = request[other] /\ Copied(other)
      BY <2>2, <1>7 DEF GradingInv
    <3> QED BY <3>1, <1>1, <1>3, <1>5 DEF Copied, Sound, Reviewed, Since
  <2> QED BY <2>1, <2>2
<1> QED BY <1>6, <1>9, <1>10, <1>11, <1>12 DEF GradingInv

-----------------------------------------------------------------------------
(* What a submit stores: of an attempt in progress, the answers, the points   *)
(* and the final score together; of one submitted meanwhile, no final score   *)
(* is taken back.                                                             *)
LEMMA SubmittedRow ==
  ASSUME GradingInv,
         NEW r \in Requests, request[r].op = "submit",
         request[r].copy.status # "submitted",
         NEW answered \in SUBSET assessment.questions,
         answered \cap attempts[request[r].id].answered = {},
         NEW right \in SUBSET (answered \cap ChoiceQuestions)
  PROVE  LET now == attempts[request[r].id]
             copy == request[r].copy
             row == WithAnswers(Written(now, copy, Submitted(copy, answered, right)), answered, right) IN
         /\ row \in AttemptRow /\ row.number = request[r].id
         /\ Sound(row, request[r].id)
         /\ now.status # "submitted" => Recorded(row) /\ Reviewed(row)
         /\ Since(now, row)
<1> DEFINE id == request[r].id
           now == attempts[id]
           copy == request[r].copy
           complete == answered = assessment.questions /\ answered \subseteq ChoiceQuestions
           sub == Submitted(copy, answered, right)
           mid == Written(now, copy, sub)
           row == WithAnswers(mid, answered, right)
<1>1. /\ id \in DOMAIN attempts /\ now \in AttemptRow /\ now.number = id /\ id \in Nat \ {0}
      /\ copy \in AttemptRow /\ Sound(copy, id) /\ Graded(now, id)
  BY DEF GradingInv, Types, Numbered, AttemptsWithinLimit, Copied, Operations
<1>2. copy = NewAttempt(id)
  BY <1>1 DEF Sound, AttemptRow
<1>3. /\ right \subseteq Questions /\ answered \subseteq Questions /\ assessment.questions \subseteq Questions
      /\ Cardinality(right) \in 0..Cardinality(Questions) /\ Cardinality(Questions) \in Nat
  <2>1. assessment.questions \subseteq Questions
    BY DEF GradingInv, Types
  <2>2. right \subseteq Questions
    BY <2>1
  <2>3. Cardinality(right) \in 0..Cardinality(Questions) /\ Cardinality(Questions) \in Nat
    BY <2>2, SubsetPoints
  <2> QED BY <2>1, <2>2, <2>3
<1>4. /\ sub \in AttemptRow /\ sub.status = "submitted" /\ sub.points = Cardinality(right)
      /\ sub.final = (IF complete THEN Cardinality(right) ELSE NoScore)
      /\ sub.grading \in {"final", "manual_grading_required", "pending"}
      /\ (sub.grading = "final") <=> complete
      /\ sub.review = "absent"
  <2>1. NoScore \in Scores /\ Cardinality(right) \in Scores
    BY <1>3 DEF Scores, NoScore
  <2>2. sub = [copy EXCEPT !.status = "submitted", !.points = Cardinality(right),
                 !.final = IF complete THEN Cardinality(right) ELSE NoScore, !.grading = sub.grading]
    BY <1>1 DEF Submitted, AttemptRow
  <2>3. copy.review = "absent"
    BY <1>2 DEF NewAttempt
  <2>4. /\ sub.grading \in {"final", "manual_grading_required", "pending"}
        /\ (sub.grading = "final") <=> complete
    BY <1>1 DEF Submitted, AttemptRow
  <2> HIDE DEF sub, copy, complete
  <2> QED BY <1>1, <2>1, <2>2, <2>3, <2>4 DEF AttemptRow, GradingStatuses
<1>5. copy.status = "in_progress" /\ copy.grading = "pending" /\ copy.points = NoScore
      /\ copy.final = NoScore /\ copy.review = "absent"
  BY <1>2 DEF NewAttempt
<1> HIDE DEF sub, copy, now
<1>6. /\ mid \in AttemptRow /\ mid.number = id /\ mid.status = "submitted"
      /\ mid.grading = (IF sub.grading # "pending" THEN sub.grading ELSE now.grading)
      /\ mid.points = Cardinality(right)
      /\ mid.final = (IF complete THEN Cardinality(right) ELSE now.final)
      /\ mid.review = now.review
      /\ mid.answered = now.answered /\ mid.graded = now.graded /\ mid.grade = now.grade
  BY <1>1, <1>3, <1>4, <1>5, WrittenRow DEF NoScore
<1> HIDE DEF mid
<1>7. /\ row \in AttemptRow /\ row.number = id /\ row.status = "submitted"
      /\ row.grading = mid.grading /\ row.points = mid.points /\ row.final = mid.final
      /\ row.review = mid.review
      /\ row.answered = now.answered \cup answered
      /\ row.graded = now.graded \cup (answered \cap ChoiceQuestions)
      /\ row.grade = [q \in Questions |-> IF q \in right THEN 1 ELSE now.grade[q]]
  BY <1>3, <1>6 DEF WithAnswers, AttemptRow
<1> HIDE DEF row
<1>8. Sound(row, id)
  BY <1>1, <1>3, <1>4, <1>6, <1>7 DEF Sound, Graded, NoScore
<1>9. ASSUME now.status # "submitted" PROVE Recorded(row) /\ Reviewed(row)
  <2>1. now = NewAttempt(id)
    BY <1>1, <1>9 DEF Graded, Sound, AttemptRow
  <2>2. /\ now.graded = {} /\ now.answered = {} /\ now.final = NoScore /\ now.grading = "pending"
        /\ now.review = "absent" /\ \A q \in Questions : now.grade[q] = 0
    BY <2>1 DEF NewAttempt
  <2>3. {q \in row.graded : row.grade[q] = 1} = right
    BY <2>2, <1>3, <1>7
  <2>4. Points(row) = Cardinality(right)
    BY <2>3 DEF Points
  <2>5. (row.graded = assessment.questions) <=> complete
    BY <2>2, <1>7
  <2>6. Scored(row)
    BY <2>2, <2>4, <2>5, <1>6, <1>7 DEF Scored
  <2>7. Reviewed(row)
    BY <2>2, <1>4, <1>6, <1>7 DEF Reviewed
  <2>8. row.grading # "regraded"
    BY <2>2, <1>4, <1>6, <1>7
  <2> QED BY <2>6, <2>7, <2>8 DEF Recorded
<1>10. Since(now, row)
  BY <1>3, <1>6, <1>7 DEF Since, NoScore
<1> QED BY <1>7, <1>8, <1>9, <1>10 DEF row, mid, sub, now, copy

(* What a call other than a submit has loaded.                                *)
LEMMA LoadedFacts ==
  ASSUME GradingInv, NEW r \in Requests, NEW op \in Operations \ {"submit"}, Loaded(r, op)
  PROVE  /\ request[r].op \in Operations /\ request[r].op # "submit"
         /\ request[r].id \in DOMAIN attempts /\ attempts[request[r].id] \in AttemptRow
         /\ attempts[request[r].id].number = request[r].id
         /\ attempts[request[r].id].status = "submitted"
         /\ Graded(attempts[request[r].id], request[r].id)
         /\ request[r].copy \in AttemptRow /\ request[r].copy.status = "submitted"
         /\ request[r].copy.answered \subseteq assessment.questions
         /\ request[r].copy.graded \subseteq assessment.questions
         /\ Sound(request[r].copy, request[r].id)
         /\ request[r].id \notin resubmitted => Reviewed(request[r].copy)
         /\ Since(request[r].copy, attempts[request[r].id])
<1>1. request[r].op = op /\ request[r].copy.status = "submitted"
  BY DEF Loaded
<1>2. Copied(r) /\ request[r].op \in Operations
  BY <1>1 DEF GradingInv
<1>3. request[r].id \in DOMAIN attempts
  BY <1>2 DEF Copied
<1>4. Sound(request[r].copy, request[r].id) /\ (request[r].id \notin resubmitted => Reviewed(request[r].copy))
      /\ Since(request[r].copy, attempts[request[r].id])
  BY <1>2 DEF Copied
<1>5. attempts[request[r].id] \in AttemptRow /\ request[r].copy \in AttemptRow
  BY <1>3 DEF GradingInv, Types
<1>6. attempts[request[r].id].number = request[r].id /\ Graded(attempts[request[r].id], request[r].id)
  BY <1>3 DEF GradingInv, Numbered, AttemptsWithinLimit
<1>7. attempts[request[r].id].status = "submitted"
  BY <1>1, <1>4 DEF Since
<1>8. request[r].copy.answered \subseteq assessment.questions /\ request[r].copy.graded \subseteq assessment.questions
  BY <1>4 DEF Sound
<1> QED BY <1>1, <1>2, <1>3, <1>4, <1>5, <1>6, <1>7, <1>8

(* What a call sees of its attempt while it writes: the attempt, or its copy. *)
LEMMA ViewFacts ==
  ASSUME GradingInv, NEW r \in Requests, NEW op \in Operations \ {"submit"}, Loaded(r, op)
  PROVE  /\ View(r) \in AttemptRow /\ View(r).status = "submitted" /\ Sound(View(r), request[r].id)
         /\ Since(View(r), attempts[request[r].id])
<1>1. View(r) = attempts[request[r].id] \/ View(r) = request[r].copy
  BY DEF View, Seen
<1>2. Since(attempts[request[r].id], attempts[request[r].id])
  BY DEF Since
<1> QED BY <1>1, <1>2, LoadedFacts DEF Graded

(* Grades that are appended, and the score that is recalculated from them.    *)
LEMMA AppendedRow ==
  ASSUME NEW row \in AttemptRow, NEW S \in SUBSET Questions, NEW grades \in [S -> {0, 1}]
  PROVE  LET new == AppendGrades(row, grades) IN
         /\ new \in AttemptRow /\ new.number = row.number /\ new.status = row.status
         /\ new.review = row.review /\ new.final = row.final /\ new.points = row.points
         /\ new.grading = row.grading /\ new.answered = row.answered /\ new.graded = row.graded \cup S
  BY DEF AppendGrades, AttemptRow

LEMMA RecalculatedRow ==
  ASSUME NEW row \in AttemptRow
  PROVE  LET new == RecalculateAttempt(row)
             full == row.graded = assessment.questions IN
         /\ new \in AttemptRow /\ new.status = row.status /\ new.review = row.review
         /\ new.points = Points(row) /\ Points(row) # NoScore
         /\ new.final = (IF full THEN Points(row) ELSE NoScore)
         /\ new.grading = (IF full THEN "graded" ELSE "manual_grading_required")
<1> DEFINE full == row.graded = assessment.questions
           new == RecalculateAttempt(row)
<1>1. Points(row) \in 0..Cardinality(Questions) /\ Cardinality(Questions) \in Nat
  BY PointsAreScores
<1>2. NoScore \in Scores /\ Points(row) \in Scores /\ Points(row) # NoScore
  BY <1>1 DEF Scores, NoScore
<1>3. new = [row EXCEPT !.points = Points(row), !.final = IF full THEN Points(row) ELSE NoScore,
                        !.grading = IF full THEN "graded" ELSE "manual_grading_required"]
  BY DEF RecalculateAttempt
<1> HIDE DEF new, full
<1>4. /\ new \in AttemptRow /\ new.status = row.status /\ new.review = row.review
      /\ new.points = Points(row)
      /\ new.final = (IF full THEN Points(row) ELSE NoScore)
      /\ new.grading = (IF full THEN "graded" ELSE "manual_grading_required")
  BY <1>2, <1>3 DEF AttemptRow, GradingStatuses
<1> QED BY <1>2, <1>4 DEF new, full

(* A grade recalculates the score of what the call sees: a final score is     *)
(* never taken back, and if it sees the attempt as it is, the score is that   *)
(* of the answers.                                                            *)
LEMMA RegradedRow ==
  ASSUME GradingInv, NEW r \in Requests, NEW op \in Operations \ {"submit"}, Loaded(r, op),
         NEW S \in SUBSET assessment.questions, NEW grades \in [S -> {0, 1}]
  PROVE  LET id == request[r].id
             now == attempts[id]
             row == WithGrades(r, grades) IN
         /\ row \in AttemptRow /\ row.number = id /\ Sound(row, id)
         /\ id \notin resubmitted => Reviewed(row)
         /\ View(r) = now => Scored(row) /\ row.grading # "regraded"
         /\ row.review = now.review /\ Since(now, row)
<1> DEFINE id == request[r].id
           now == attempts[id]
           view == AppendGrades(View(r), grades)
           mid == AppendGrades(now, grades)
           recalculated == RecalculateAttempt(view)
           row == WithGrades(r, grades)
           full == view.graded = assessment.questions
<1>1. /\ now \in AttemptRow /\ now.number = id /\ now.status = "submitted" /\ Graded(now, id)
      /\ assessment.questions \subseteq Questions /\ S \in SUBSET Questions
  BY LoadedFacts DEF GradingInv, Types
<1>2. View(r) \in AttemptRow /\ View(r).status = "submitted" /\ Sound(View(r), id) /\ Since(View(r), now)
  BY ViewFacts
<1>3. /\ mid \in AttemptRow /\ mid.number = id /\ mid.status = "submitted" /\ mid.review = now.review
      /\ mid.final = now.final /\ mid.points = now.points /\ mid.grading = now.grading
      /\ mid.answered = now.answered /\ mid.graded = now.graded \cup S
  BY <1>1, AppendedRow
<1>4. /\ view \in AttemptRow /\ view.status = "submitted" /\ view.review = View(r).review
      /\ view.final = View(r).final /\ view.graded = View(r).graded \cup S
  BY <1>1, <1>2, AppendedRow
<1>5. /\ recalculated \in AttemptRow /\ recalculated.status = view.status /\ recalculated.review = view.review
      /\ recalculated.points = Points(view) /\ Points(view) # NoScore
      /\ recalculated.final = (IF full THEN Points(view) ELSE NoScore)
      /\ recalculated.grading = (IF full THEN "graded" ELSE "manual_grading_required")
  BY <1>4, RecalculatedRow
<1>6. row = Written(mid, view, recalculated)
  BY DEF WithGrades
<1>7. View(r) = now => view = mid
  OBVIOUS
<1> HIDE DEF now, view, mid, recalculated, row
<1>8. /\ row \in AttemptRow /\ row.number = id /\ row.status = "submitted" /\ row.review = now.review
      /\ row.grading = IF recalculated.grading # view.grading THEN recalculated.grading ELSE now.grading
      /\ row.points = IF recalculated.points # view.points THEN recalculated.points ELSE now.points
      /\ row.final = IF recalculated.final # view.final THEN recalculated.final ELSE now.final
      /\ row.answered = mid.answered /\ row.graded = mid.graded /\ row.grade = mid.grade
  BY <1>3, <1>4, <1>5, <1>6, WrittenRow
<1>9. Since(now, row)
  <2>1. now.final # NoScore => row.final # NoScore
    <3>1. View(r).final # NoScore => full
      BY <1>2, <1>4 DEF Sound
    <3> QED BY <3>1, <1>4, <1>5, <1>8
  <2> QED BY <2>1, <1>3, <1>8 DEF Since
<1>10. row.final # NoScore => row.graded = assessment.questions
  <2>1. now.graded \subseteq assessment.questions /\ View(r).graded \subseteq now.graded
    BY <1>1, <1>2 DEF Graded, Sound, Since
  <2>2. full => row.graded = assessment.questions
    BY <2>1, <1>3, <1>4, <1>8
  <2>3. now.final # NoScore => row.graded = assessment.questions
    BY <2>1, <1>1, <1>3, <1>8 DEF Graded, Sound
  <2>4. ~full => recalculated.final = NoScore
    BY <1>5
  <2> QED BY <2>2, <2>3, <2>4, <1>8
<1>11. row.review = "approved" \/ row.grading = "final" => row.final # NoScore
  <2>1. row.grading = "final" => now.grading = "final"
    BY <1>5, <1>8
  <2>2. now.review = "approved" \/ now.grading = "final" => now.final # NoScore
    BY <1>1 DEF Graded, Sound
  <2> QED BY <2>1, <2>2, <1>8, <1>9 DEF Since
<1>12. Sound(row, id)
  <2>1. row.answered \subseteq assessment.questions /\ row.graded \subseteq assessment.questions
    BY <1>1, <1>3, <1>8 DEF Graded, Sound
  <2> QED BY <2>1, <1>8, <1>10, <1>11 DEF Sound
<1>13. id \notin resubmitted => Reviewed(row)
  BY <1>1, <1>5, <1>8 DEF Graded, Reviewed
<1>14. ASSUME View(r) = now PROVE Scored(row) /\ row.grading # "regraded"
  <2>1. view = mid
    BY <1>7, <1>14
  <2>2. /\ row.points = recalculated.points /\ row.final = recalculated.final /\ row.grading = recalculated.grading
    BY <2>1, <1>3, <1>8
  <2>3. Points(row) = Points(view)
    BY <2>1, <1>8 DEF Points
  <2>4. row.graded = view.graded
    BY <2>1, <1>8
  <2> QED BY <2>2, <2>3, <2>4, <1>5 DEF Scored
<1> QED BY <1>8, <1>9, <1>12, <1>13, <1>14 DEF row, now

-----------------------------------------------------------------------------
(* The six operations that store a row.                                       *)
LEMMA SubmitStep == ASSUME GradingInv, NEW r \in Requests, SubmitAssessmentAttempt(r) PROVE GradingInv'
<1> DEFINE id == request[r].id
           now == attempts[id]
           copy == request[r].copy
<1>1. request[r].op = "submit" /\ request[r].op \in Operations /\ copy.status # "submitted"
  BY DEF SubmitAssessmentAttempt, Loaded, Operations
<1>2. PICK answered \in SUBSET assessment.questions :
        /\ answered \cap now.answered = {}
        /\ \E right \in SUBSET (answered \cap ChoiceQuestions) :
             Store(r, WithAnswers(Written(now, copy, Submitted(copy, answered, right)), answered, right))
  BY DEF SubmitAssessmentAttempt
<1>3. PICK right \in SUBSET (answered \cap ChoiceQuestions) :
        Store(r, WithAnswers(Written(now, copy, Submitted(copy, answered, right)), answered, right))
  BY <1>2
<1> DEFINE row == WithAnswers(Written(now, copy, Submitted(copy, answered, right)), answered, right)
<1>4. /\ row \in AttemptRow /\ row.number = id /\ Sound(row, id)
      /\ now.status # "submitted" => Recorded(row) /\ Reviewed(row)
      /\ Since(now, row)
  BY <1>1, <1>2, SubmittedRow
<1>5. Store(r, row)
  BY <1>3
<1> HIDE DEF row
<1>6. now.status = "submitted" => id \in resubmitted'
  BY <1>1, <1>5 DEF Store
<1> QED BY <1>1, <1>4, <1>5, <1>6, StoreKeeps

LEMMA GradeStep ==
  ASSUME GradingInv, NEW r \in Requests, NEW op \in {"grade", "change"}, Loaded(r, op),
         NEW q \in assessment.questions, Grade(r, q)
  PROVE  GradingInv'
<1>1. op \in Operations \ {"submit"} /\ request[r].op = op
  BY DEF Operations, Loaded
<1>2. PICK points \in {0, 1} : Store(r, WithGrades(r, [answer \in {q} |-> points]))
  BY DEF Grade
<1> DEFINE row == WithGrades(r, [answer \in {q} |-> points])
<1>3. [answer \in {q} |-> points] \in [{q} -> {0, 1}] /\ {q} \in SUBSET assessment.questions
  OBVIOUS
<1>4. /\ row \in AttemptRow /\ row.number = request[r].id /\ Sound(row, request[r].id)
      /\ request[r].id \notin resubmitted => Reviewed(row)
      /\ View(r) = attempts[request[r].id] => Scored(row) /\ row.grading # "regraded"
      /\ Since(attempts[request[r].id], row)
  BY <1>1, <1>3, RegradedRow
<1>5. Store(r, row)
  BY <1>2
<1> HIDE DEF row
<1>6. /\ resubmitted \subseteq resubmitted'
      /\ request[r].id \notin overtaken' => View(r) = attempts[request[r].id]
  BY <1>1, <1>5 DEF Store
<1> QED BY <1>1, <1>4, <1>5, <1>6, LoadedFacts, StoreKeeps DEF Recorded

LEMMA RegradeStep == ASSUME GradingInv, NEW r \in Requests, RegradeAttempt(r) PROVE GradingInv'
<1>1. Loaded(r, "regrade") /\ "regrade" \in Operations \ {"submit"} /\ request[r].op = "regrade"
  BY DEF RegradeAttempt, Operations, Loaded
<1> DEFINE S == request[r].copy.answered \cap ShortAnswers
           now == attempts[request[r].id]
<1>2. PICK grades \in [S -> {0, 1}] :
        Store(r, [WithGrades(r, grades)
                    EXCEPT !.grading = "regraded",
                           !.review = IF View(r).review = "regraded" THEN @ ELSE "regraded"])
  BY DEF RegradeAttempt
<1> DEFINE mid == WithGrades(r, grades)
           row == [mid EXCEPT !.grading = "regraded",
                              !.review = IF View(r).review = "regraded" THEN @ ELSE "regraded"]
<1>3. S \in SUBSET assessment.questions
  BY <1>1, LoadedFacts
<1>4. /\ mid \in AttemptRow /\ mid.number = request[r].id /\ Sound(mid, request[r].id)
      /\ View(r) = now => Scored(mid)
      /\ mid.review = now.review /\ Since(now, mid)
  BY <1>1, <1>3, RegradedRow
<1>5. Store(r, row)
  BY <1>2
<1> HIDE DEF mid
<1>6. /\ row \in AttemptRow /\ row.number = mid.number /\ row.status = mid.status /\ row.points = mid.points
      /\ row.final = mid.final /\ row.answered = mid.answered /\ row.graded = mid.graded /\ row.grade = mid.grade
      /\ row.grading = "regraded"
      /\ row.review = IF View(r).review = "regraded" THEN mid.review ELSE "regraded"
  BY <1>4 DEF AttemptRow, GradingStatuses, ReviewStatuses
<1>7. now.status = "submitted"
  BY <1>1, LoadedFacts
<1> HIDE DEF row
<1>8. Sound(row, request[r].id) /\ Reviewed(row) /\ Since(now, row)
  <2>1. row.status = "submitted"
    BY <1>4, <1>6, <1>7 DEF Since
  <2> QED BY <2>1, <1>4, <1>6 DEF Sound, Reviewed, Since
<1>9. View(r) = now => Recorded(row)
  BY <1>4, <1>6 DEF Recorded, Scored, Points
<1>10. request[r].id \notin overtaken' => View(r) = now
  BY <1>1, <1>5 DEF Store
<1> HIDE DEF now
<1> QED BY <1>1, <1>4, <1>5, <1>6, <1>8, <1>9, <1>10, LoadedFacts, StoreKeeps DEF now

(* A reviewer writes over whatever the attempt has become, but only over its  *)
(* review and its grading status, and both were changed from the copy.        *)
LEMMA ReviewStep ==
  ASSUME GradingInv, NEW r \in Requests, NEW op \in {"request", "approve", "request_changes"}, Loaded(r, op),
         NEW review, NEW grading, SetReview(r, review, grading),
         \/ /\ review = "pending" /\ grading = "review_pending"
            /\ request[r].copy.review # "pending"
         \/ /\ review = "approved" /\ grading = "final"
            /\ request[r].copy.review = "pending" /\ request[r].copy.final # NoScore
         \/ /\ review = "changes_requested" /\ grading = "changes_requested"
            /\ request[r].copy.review = "pending"
  PROVE  GradingInv'
<1> DEFINE id == request[r].id
           now == attempts[id]
           copy == request[r].copy
           changed == [copy EXCEPT !.review = review, !.grading = grading]
           row == Written(now, copy, changed)
<1>1. Store(r, row)
  BY DEF SetReview
<1>2. /\ now \in AttemptRow /\ copy \in AttemptRow /\ now.number = id /\ now.status = "submitted"
      /\ Graded(now, id) /\ Sound(copy, id) /\ (id \notin resubmitted => Reviewed(copy)) /\ Since(copy, now)
      /\ request[r].op \in Operations
  BY LoadedFacts, op \in Operations \ {"submit"} DEF Operations
<1> HIDE DEF copy, now
<1>3. /\ changed \in AttemptRow /\ changed.number = copy.number /\ changed.status = copy.status
      /\ changed.points = copy.points /\ changed.final = copy.final
      /\ changed.review = review /\ changed.grading = grading
  BY <1>2 DEF AttemptRow, GradingStatuses, ReviewStatuses
<1> HIDE DEF changed
<1>4. /\ row \in AttemptRow /\ row.number = id /\ row.status = "submitted"
      /\ row.points = now.points /\ row.final = now.final
      /\ row.answered = now.answered /\ row.graded = now.graded /\ row.grade = now.grade
      /\ row.review = IF review # copy.review THEN review ELSE now.review
      /\ row.grading = IF grading # copy.grading THEN grading ELSE now.grading
  BY <1>2, <1>3, WrittenRow
<1> HIDE DEF row
<1>5. review # copy.review
  BY DEF copy
<1>6. review = "approved" => now.final # NoScore
  BY <1>2 DEF Since, copy
<1>7. Sound(row, id)
  <2>1. row.review = "approved" \/ row.grading = "final" => row.final # NoScore
    BY <1>2, <1>4, <1>5, <1>6 DEF Graded, Sound
  <2> QED BY <2>1, <1>2, <1>4 DEF Graded, Sound
<1>8. ASSUME id \notin resubmitted PROVE Reviewed(row)
  <2>1. grading # copy.grading
    BY <1>2, <1>8 DEF Reviewed, copy
  <2> QED BY <2>1, <1>4, <1>5 DEF Reviewed
<1>11. ASSUME id \notin resubmitted \cup overtaken PROVE Recorded(row)
  <2>1. Scored(row)
    BY <1>2, <1>4, <1>11 DEF Graded, Recorded, Scored, Points
  <2>2. grading # copy.grading /\ grading # "regraded"
    BY <1>2, <1>11 DEF Reviewed, copy
  <2> QED BY <2>1, <2>2, <1>4 DEF Recorded
<1>9. Since(now, row)
  BY <1>4 DEF Since
<1>10. resubmitted \subseteq resubmitted' /\ overtaken' = overtaken
  BY <1>1 DEF Store, Loaded
<1> QED BY <1>1, <1>2, <1>4, <1>7, <1>8, <1>9, <1>10, <1>11, StoreKeeps DEF now

-----------------------------------------------------------------------------
(* The calls that store nothing.                                              *)
LEMMA RequestsKeep ==
  ASSUME GradingInv, UNCHANGED <<assessment, attempts, resubmitted, overtaken, database>>,
         NEW r \in Requests, NEW new \in [op : AllOperations, id : Nat, copy : AttemptRow],
         request' = [request EXCEPT ![r] = new],
         new.op # "none" => assessment.exists,
         new.op = "start" => new.id \in 1..assessment.limit /\ new.id <= Len(attempts) + 1,
         new.op \in Operations => new.id \in DOMAIN attempts /\ new.copy = attempts[new.id]
  PROVE  GradingInv'
<1>1. \A other \in Requests : request'[other] = IF other = r THEN new ELSE request[other]
  BY DEF GradingInv, Types
<1>2. Types'
  BY DEF GradingInv, Types
<1>3. Numbered'
  <2>1. AttemptsWithinLimit'
    BY DEF GradingInv, Numbered, AttemptsWithinLimit
  <2> QED BY <2>1, <1>1 DEF GradingInv, Numbered
<1>4. ASSUME NEW other \in DOMAIN attempts' PROVE Graded(attempts[other], other)'
  BY DEF GradingInv, Graded, Sound, Recorded, Scored, Reviewed
<1>5. ASSUME NEW other \in Requests PROVE Copied(other)'
  <2>1. CASE other = r
    <3>1. request'[other] = new
      BY <2>1, <1>1
    <3>2. new.op \in Operations => Graded(new.copy, new.id) /\ Since(new.copy, attempts[new.id])
      BY DEF GradingInv, Since
    <3> QED BY <3>1, <3>2 DEF Copied, Graded, Sound, Reviewed, Since
  <2>2. CASE other # r
    <3>1. request'[other] = request[other] /\ Copied(other)
      BY <2>2, <1>1 DEF GradingInv
    <3> QED BY <3>1 DEF Copied, Sound, Reviewed, Since
  <2> QED BY <2>1, <2>2
<1> QED BY <1>2, <1>3, <1>4, <1>5 DEF GradingInv

LEMMA StartStep == ASSUME GradingInv, NEW r \in Requests, StartAssessmentAttempt(r) PROVE GradingInv'
<1> DEFINE n == request[r].id
<1>1. /\ request[r].op = "start" /\ n \in 1..assessment.limit /\ n <= Len(attempts) + 1
      /\ attempts' = Append(attempts, NewAttempt(n)) /\ request' = [request EXCEPT ![r] = Idle]
      /\ UNCHANGED <<assessment, open, calls, resubmitted, overtaken, database>>
      /\ \A id \in DOMAIN attempts : attempts[id].number # n
  BY DEF StartAssessmentAttempt, Finish, GradingInv, Numbered
<1>2. n = Len(attempts) + 1 /\ n \in Nat \ {0} /\ Len(attempts) \in Nat /\ DOMAIN attempts = 1..Len(attempts)
  BY <1>1 DEF GradingInv, Types, Numbered, AttemptsWithinLimit
<1>3. NewAttempt(n) \in AttemptRow /\ Idle \in [op : AllOperations, id : Nat, copy : AttemptRow] /\ Idle.op = "none"
  BY <1>2, NewAttemptType DEF Idle, AllOperations
<1>4. /\ attempts' \in Seq(AttemptRow) /\ Len(attempts') = n /\ DOMAIN attempts' = 1..n
      /\ attempts'[n] = NewAttempt(n) /\ \A id \in 1..Len(attempts) : attempts'[id] = attempts[id]
  BY <1>1, <1>2, <1>3 DEF GradingInv, Types
<1>5. \A other \in Requests : request'[other] = IF other = r THEN Idle ELSE request[other]
  BY <1>1 DEF GradingInv, Types
<1>6. Types'
  BY <1>1, <1>3, <1>4 DEF GradingInv, Types
<1>7. NewAttempt(n).number = n
  BY DEF NewAttempt
<1>8. Numbered'
  <2>1. AttemptsWithinLimit'
    BY <1>1, <1>2, <1>4, <1>7 DEF GradingInv, Types, Numbered, AttemptsWithinLimit
  <2>2. assessment.exists
    BY <1>1 DEF GradingInv, Numbered
  <2>3. ASSUME NEW other \in Requests, request'[other].op = "start"
        PROVE  request'[other].id \in 1..assessment'.limit /\ request'[other].id <= Len(attempts') + 1
    <3>1. request'[other] = request[other] /\ request[other].op = "start"
      BY <2>3, <1>3, <1>5
    <3> QED BY <3>1, <1>1, <1>2, <1>4 DEF GradingInv, Types, Numbered
  <2> QED BY <2>1, <2>2, <2>3, <1>1 DEF Numbered
<1>9. ASSUME NEW id \in DOMAIN attempts' PROVE Graded(attempts[id], id)'
  <2>1. CASE id = n
    <3>1. attempts'[id] = NewAttempt(id)
      BY <2>1, <1>4
    <3>2. Graded(NewAttempt(id), id)
      BY DEF Graded, Sound, Recorded, Scored, Reviewed, NewAttempt
    <3> QED BY <3>1, <3>2, <1>1 DEF Graded, Sound, Recorded, Scored, Reviewed
  <2>2. CASE id # n
    <3>1. attempts'[id] = attempts[id] /\ Graded(attempts[id], id)
      BY <2>2, <1>2, <1>4 DEF GradingInv
    <3> QED BY <3>1, <1>1 DEF Graded, Sound, Recorded, Scored, Reviewed
  <2> QED BY <2>1, <2>2
<1>10. ASSUME NEW other \in Requests PROVE Copied(other)'
  <2>1. CASE other = r
    BY <2>1, <1>3, <1>5 DEF Copied, Operations
  <2>2. CASE other # r
    <3>1. request'[other] = request[other] /\ Copied(other)
      BY <2>2, <1>5 DEF GradingInv
    <3> QED BY <3>1, <1>1, <1>2, <1>4 DEF Copied, Sound, Reviewed, Since
  <2> QED BY <2>1, <2>2
<1> QED BY <1>1, <1>6, <1>8, <1>9, <1>10 DEF GradingInv

(* The assessment is created before anything is attempted.                    *)
LEMMA CreateStep == ASSUME GradingInv, CreateAssessment PROVE GradingInv'
<1>1. /\ ~assessment.exists /\ UNCHANGED <<attempts, request, resubmitted, overtaken, database>>
      /\ \E questions \in SUBSET Questions, limit \in Limits :
           assessment' = [exists |-> TRUE, questions |-> questions, limit |-> limit]
  BY DEF CreateAssessment
<1>2. attempts = << >> /\ \A r \in Requests : request[r].op = "none"
  BY <1>1 DEF GradingInv, Numbered
<1>3. assessment' \in [exists : BOOLEAN, questions : SUBSET Questions, limit : Nat] /\ assessment'.exists
  BY <1>1, LimitsAssumption
<1>4. Types'
  BY <1>1, <1>3 DEF GradingInv, Types
<1>5. Len(attempts') = 0 /\ DOMAIN attempts' = {}
  BY <1>1, <1>2
<1>6. Numbered'
  <2>1. assessment'.limit \in Nat
    BY <1>3
  <2>2. AttemptsWithinLimit'
    BY <2>1, <1>5 DEF AttemptsWithinLimit
  <2> QED BY <2>2, <1>1, <1>2, <1>3 DEF Numbered
<1>7. \A id \in DOMAIN attempts' : Graded(attempts[id], id)'
  BY <1>5
<1>8. \A r \in Requests : Copied(r)'
  BY <1>1, <1>2 DEF Copied, Operations
<1> QED BY <1>1, <1>4, <1>6, <1>7, <1>8 DEF GradingInv

LEMMA InitGrading == Init => GradingInv
<1> SUFFICES ASSUME Init PROVE GradingInv
  OBVIOUS
<1>1. Idle \in [op : AllOperations, id : Nat, copy : AttemptRow] /\ Idle.op = "none"
  BY NewAttemptType DEF Idle, AllOperations
<1>2. Types /\ overtaken = {}
  BY <1>1 DEF Init, Types
<1>3. Len(attempts) = 0 /\ DOMAIN attempts = {}
  BY DEF Init
<1>4. \A r \in Requests : request[r] = Idle
  BY DEF Init
<1>5. Numbered
  BY <1>1, <1>3, <1>4 DEF Init, Numbered, AttemptsWithinLimit
<1>6. \A r \in Requests : Copied(r)
  BY <1>1, <1>4 DEF Copied, Operations
<1> QED BY <1>2, <1>3, <1>5, <1>6 DEF GradingInv

LEMMA NextGrading == GradingInv /\ [Next]_vars => GradingInv'
<1> SUFFICES ASSUME GradingInv, [Next]_vars PROVE GradingInv'
  OBVIOUS
<1>1. CASE CreateAssessment
  BY <1>1, CreateStep
<1>2. CASE ToggleOpen \/ UNCHANGED vars
  <2>1. UNCHANGED <<assessment, attempts, request, resubmitted, overtaken, database>>
    BY <1>2 DEF ToggleOpen, vars
  <2>2. Types' /\ Numbered'
    BY <2>1 DEF GradingInv, Types, Numbered, AttemptsWithinLimit
  <2>3. \A id \in DOMAIN attempts' : Graded(attempts[id], id)'
    BY <2>1 DEF GradingInv, Graded, Sound, Recorded, Scored, Reviewed
  <2>4. \A r \in Requests : Copied(r)'
    BY <2>1 DEF GradingInv, Copied, Sound, Reviewed, Since
  <2> QED BY <2>1, <2>2, <2>3, <2>4 DEF GradingInv
<1>3. ASSUME NEW r \in Requests, CountAttempts(r) PROVE GradingInv'
  <2> DEFINE new == [Idle EXCEPT !.op = "start", !.id = Len(attempts) + 1]
  <2>1. /\ assessment.exists /\ Len(attempts) < assessment.limit
        /\ request' = [request EXCEPT ![r] = new] /\ UNCHANGED <<assessment, attempts, resubmitted, overtaken, database>>
    BY <1>3 DEF CountAttempts
  <2>2. Len(attempts) \in Nat /\ assessment.limit \in Nat
    BY DEF GradingInv, Types
  <2>3. /\ new \in [op : AllOperations, id : Nat, copy : AttemptRow]
        /\ new.op = "start" /\ new.id = Len(attempts) + 1
    <3>1. Idle \in [op : AllOperations, id : Nat, copy : AttemptRow] /\ "start" \in AllOperations
      BY NewAttemptType DEF Idle, AllOperations
    <3> DEFINE n == Len(attempts) + 1
    <3>2. n \in Nat
      BY <2>2
    <3>3. new = [Idle EXCEPT !.op = "start", !.id = n]
      OBVIOUS
    <3> HIDE DEF new, n
    <3>4. /\ new \in [op : AllOperations, id : Nat, copy : AttemptRow]
          /\ new.op = "start" /\ new.id = n
      BY <3>1, <3>2, <3>3
    <3> QED BY <3>4 DEF n
  <2>4. new.id \in 1..assessment.limit
    BY <2>1, <2>2, <2>3
  <2> HIDE DEF new
  <2>5. new.op \notin Operations /\ new.id <= Len(attempts) + 1
    BY <2>2, <2>3 DEF Operations
  <2> QED BY <2>1, <2>3, <2>4, <2>5, RequestsKeep
<1>4. ASSUME NEW r \in Requests, NEW op \in Operations, NEW id \in DOMAIN attempts, LoadAttempt(r, op, id)
      PROVE  GradingInv'
  <2> DEFINE new == [op |-> op, id |-> id, copy |-> attempts[id]]
  <2>1. request' = [request EXCEPT ![r] = new] /\ UNCHANGED <<assessment, attempts, resubmitted, overtaken, database>>
    BY <1>4 DEF LoadAttempt
  <2>2. new \in [op : AllOperations, id : Nat, copy : AttemptRow] /\ new.op = op /\ new.id = id /\ new.copy = attempts[id]
    BY DEF GradingInv, Types, AllOperations
  <2>3. assessment.exists
    BY DEF GradingInv, Numbered
  <2>4. op # "start"
    BY DEF Operations
  <2> HIDE DEF new
  <2> QED BY <2>1, <2>2, <2>3, <2>4, RequestsKeep
<1>5. ASSUME NEW r \in Requests, EndUnchanged(r) PROVE GradingInv'
  <2>1. Idle \in [op : AllOperations, id : Nat, copy : AttemptRow] /\ Idle.op = "none"
    BY NewAttemptType DEF Idle, AllOperations
  <2> QED BY <1>5, <2>1, RequestsKeep DEF EndUnchanged, Finish, Operations
<1>6. ASSUME NEW r \in Requests, StartAssessmentAttempt(r) PROVE GradingInv'
  BY <1>6, StartStep
<1>7. ASSUME NEW r \in Requests, SubmitAssessmentAttempt(r) PROVE GradingInv'
  BY <1>7, SubmitStep
<1>8. ASSUME NEW r \in Requests, GradeShortAnswer(r) PROVE GradingInv'
  <2>1. Loaded(r, "grade") /\ "grade" \in Operations \ {"submit"}
    BY <1>8 DEF GradeShortAnswer, Operations
  <2>2. PICK q \in request[r].copy.answered : Grade(r, q)
    BY <1>8 DEF GradeShortAnswer
  <2>3. q \in assessment.questions
    BY <2>1, LoadedFacts
  <2> QED BY <2>1, <2>2, <2>3, GradeStep
<1>9. ASSUME NEW r \in Requests, ChangeGrade(r) PROVE GradingInv'
  <2>1. Loaded(r, "change") /\ "change" \in Operations \ {"submit"}
    BY <1>9 DEF ChangeGrade, Operations
  <2>2. PICK q \in request[r].copy.graded : Grade(r, q)
    BY <1>9 DEF ChangeGrade
  <2>3. q \in assessment.questions
    BY <2>1, LoadedFacts
  <2> QED BY <2>1, <2>2, <2>3, GradeStep
<1>10. ASSUME NEW r \in Requests, RegradeAttempt(r) PROVE GradingInv'
  BY <1>10, RegradeStep
<1>11. ASSUME NEW r \in Requests, RequestReview(r) PROVE GradingInv'
  BY <1>11, ReviewStep DEF RequestReview
<1>12. ASSUME NEW r \in Requests, ApproveReview(r) PROVE GradingInv'
  BY <1>12, ReviewStep DEF ApproveReview
<1>13. ASSUME NEW r \in Requests, RequestGradingChanges(r) PROVE GradingInv'
  BY <1>13, ReviewStep DEF RequestGradingChanges
<1> QED BY <1>1, <1>2, <1>3, <1>4, <1>5, <1>6, <1>7, <1>8, <1>9, <1>10, <1>11, <1>12, <1>13 DEF Next

LEMMA GradingIsInvariant == Spec => []GradingInv
  BY InitGrading, NextGrading, PTL DEF Spec

-----------------------------------------------------------------------------
(* However many calls start an attempt at once, on counts that are old by     *)
(* then, no learner gets more attempts than max_attempts.                     *)
THEOREM AttemptsStayWithinLimit == Spec => []AttemptsConsistent
<1>1. GradingInv => AttemptsConsistent
  <2> SUFFICES ASSUME GradingInv PROVE AttemptsConsistent
    OBVIOUS
  <2>1. TypeOK
    BY DEF GradingInv, Types, TypeOK
  <2> QED BY <2>1 DEF GradingInv, Numbered, AttemptsConsistent
<1> QED BY <1>1, GradingIsInvariant, PTL

(* On SQLite the scores of an attempt submitted once are those of its grades, *)
(* whatever graders and reviewers do on copies of it that are no longer true. *)
(* On MySQL so are they unless recalculate_attempt last ran over a snapshot   *)
(* out of date, and a final score never comes before the last grade.          *)
THEOREM ScoresAreThoseOfGrades == Spec => []ScoresFollowGrades
<1>1. GradingInv => ScoresFollowGrades
  BY DEF GradingInv, Graded, Sound, Recorded, Scored, ScoresFollowGrades
<1> QED BY <1>1, GradingIsInvariant, PTL

(* The grading status and the review of an attempt submitted once agree: what *)
(* a review operation writes is never what it had loaded.  A regrade that     *)
(* reads its review from an old snapshot of MySQL is the exception.           *)
THEOREM StatusAgreesWithReview == Spec => []StatusFollowsReview
<1>1. GradingInv => StatusFollowsReview
  BY DEF GradingInv, Graded, Reviewed, Recorded, StatusFollowsReview
<1> QED BY <1>1, GradingIsInvariant, PTL

(* No approval and no final status stands without a score, on attempts that   *)
(* were submitted twice as well: a final score is never taken back.           *)
THEOREM ApprovalsHaveScores == Spec => []ApprovedAttemptsHaveScores
<1>1. GradingInv => ApprovedAttemptsHaveScores
  BY DEF GradingInv, Graded, Sound, ApprovedAttemptsHaveScores
<1> QED BY <1>1, GradingIsInvariant, PTL

-----------------------------------------------------------------------------
(* The way through the lessons.                                               *)

(* A call under way is about a lesson, or enrols.                             *)
LessonCallRow ==
    [call : Calls \cup {"none", "enroll"}, about : Lessons \cup Collections \cup {"none"},
     copy : ProgressRow, snapshot : Snapshots]

LessonCallsTyped ==
    /\ lessonRequest \in [LessonRequests -> LessonCallRow]
    /\ \A r \in LessonRequests : lessonRequest[r].call \in Calls => lessonRequest[r].about \in Lessons

LearnerTyped ==
    /\ learner \in LearnerStatuses \cup {"absent"}
    /\ contents \in [Collections -> SUBSET Lessons]
    /\ progress \in [Lessons -> ProgressRow]
    /\ enrollment \in [Collections -> EnrollmentRow]
    /\ drifted \subseteq Collections

(* Every completion was paid by a call, and the calls under way are others.   *)
Underway == {r \in LessonRequests : lessonRequest[r] # NoCall}

CompletionsPaid ==
    /\ lessonCalls \in 0..MaxLessonCalls
    /\ completions \in [Lessons -> Nat]
    /\ IsFiniteSet(Underway)
    /\ \A l \in Lessons : completions[l] + Cardinality(Underway) <= lessonCalls

(* What the columns of one enrolment say of each other: whether and when it   *)
(* was completed, at all times, and its percentage, unless it has drifted on  *)
(* MySQL; and what the percentage says of the lessons, unless it has drifted. *)
Settled(e) == e.status = "completed" <=> e.completed
Whole(e) == e.status = "completed" <=> e.percent = 100
Counts(k) == Enrolled(k) => enrollment[k].percent = CompletionPercentage(contents[k], progress)

EnrollmentsSound ==
    \A k \in Collections :
        /\ Settled(enrollment[k])
        /\ database = "sqlite" \/ k \notin drifted => Whole(enrollment[k])
        /\ k \notin drifted => Counts(k)

(* A snapshot was true once: no enrolment has gone since.                     *)
SnapshotSound(view) ==
    \A k \in Collections :
        /\ Settled(view.enrollment[k])
        /\ view.enrollment[k].status # "absent" => Enrolled(k)

ProgressInv ==
    /\ LearnerTyped
    /\ LessonCallsTyped
    /\ CompletionsPaid
    /\ EnrollmentsSound
    /\ \A r \in LessonRequests : SnapshotSound(lessonRequest[r].snapshot)
    /\ CompletedLessonsHaveHistory

-----------------------------------------------------------------------------
(* A part of the whole is less than a hundred percent.                        *)
LEMMA PartIsLess ==
  ASSUME NEW k \in Nat, NEW n \in Nat, k < n
  PROVE  (k * 100) \div n \in 0..99
  OBVIOUS

LEMMA WholeIsAll ==
  ASSUME NEW n \in Nat, n # 0
  PROVE  (n * 100) \div n = 100
  OBVIOUS

(* The aggregate is a percentage, 100 exactly when all lessons are completed. *)
LEMMA PercentageOfLessons ==
  ASSUME NEW lessons \in SUBSET Lessons, NEW of \in [Lessons -> ProgressRow]
  PROVE  /\ CompletionPercentage(lessons, of) \in 0..100
         /\ CompletionPercentage(lessons, of) = 100 <=>
              lessons # {} /\ Completed(lessons, of) = lessons
<1> DEFINE done == Completed(lessons, of)
<1>1. done \subseteq lessons
  BY DEF Completed
<1>2. IsFiniteSet(lessons)
  BY LessonsAssumption, FS_Subset
<1>3. Cardinality(lessons) \in Nat /\ Cardinality(done) \in Nat
  BY <1>1, <1>2, FS_Subset, FS_CardinalityType
<1>4. CASE lessons = {}
  BY <1>4 DEF CompletionPercentage
<1>5. CASE lessons # {} /\ done = lessons
  <2>1. Cardinality(lessons) # 0
    BY <1>2, <1>5, FS_EmptySet
  <2>2. CompletionPercentage(lessons, of) = (Cardinality(done) * 100) \div Cardinality(lessons)
    BY <1>5 DEF CompletionPercentage
  <2> QED BY <1>3, <1>5, <2>1, <2>2, WholeIsAll
<1>6. CASE lessons # {} /\ done # lessons
  <2>1. Cardinality(done) < Cardinality(lessons)
    BY <1>1, <1>2, <1>3, <1>6, FS_Subset
  <2>2. CompletionPercentage(lessons, of) = (Cardinality(done) * 100) \div Cardinality(lessons)
    BY <1>6 DEF CompletionPercentage
  <2>3. CompletionPercentage(lessons, of) \in 0..99
    BY <1>3, <2>1, <2>2, PartIsLess
  <2> HIDE DEF done
  <2> QED BY <1>6, <2>3 DEF done
<1> QED BY <1>4, <1>5, <1>6

(* The aggregate is of the lessons that are completed, and of nothing else.   *)
LEMMA SamePercentage ==
  ASSUME NEW lessons, NEW of, NEW to, Completed(lessons, of) = Completed(lessons, to)
  PROVE  CompletionPercentage(lessons, of) = CompletionPercentage(lessons, to)
BY DEF CompletionPercentage

(* The rollup stores the aggregate and brings the columns into agreement.     *)
LEMMA RollupAgrees ==
  ASSUME NEW e \in EnrollmentRow, Settled(e),
         NEW lessons \in SUBSET Lessons, NEW of \in [Lessons -> ProgressRow]
  PROVE  LET new == SetEnrollmentRollup(e, lessons, of) IN
         /\ new.percent = CompletionPercentage(lessons, of)
         /\ Settled(new) /\ Whole(new)
         /\ new \in EnrollmentRow
         /\ new.status # e.status <=> new.completed # e.completed
         /\ new.status \in {"completed", "in_progress", e.status}
<1> DEFINE new == SetEnrollmentRollup(e, lessons, of)
           whole == lessons # {} /\ Completed(lessons, of) = lessons
           percent == CompletionPercentage(lessons, of)
<1>1. percent \in 0..100 /\ (percent = 100 <=> whole)
  BY PercentageOfLessons
<1>2. new = IF whole THEN [status |-> "completed", percent |-> 100, completed |-> TRUE]
            ELSE [status |-> IF e.status = "completed" THEN "in_progress" ELSE e.status,
                  percent |-> percent,
                  completed |-> IF e.status = "completed" THEN FALSE ELSE e.completed]
  BY DEF SetEnrollmentRollup
<1> HIDE DEF new, whole, percent
<1>3. CASE whole
  <2>1. new = [status |-> "completed", percent |-> 100, completed |-> TRUE]
    BY <1>2, <1>3
  <2>2. new \in EnrollmentRow /\ Settled(new) /\ Whole(new) /\ new.percent = percent
    BY <1>1, <1>3, <2>1 DEF EnrollmentRow, EnrollmentStatuses, Settled, Whole
  <2>3. new.status # e.status <=> new.completed # e.completed
    BY <2>1 DEF Settled, EnrollmentRow
  <2>4. new.status \in {"completed", "in_progress", e.status}
    BY <2>1
  <2> QED BY <2>2, <2>3, <2>4 DEF new, percent
<1>4. CASE ~whole /\ e.status = "completed"
  <2>1. new = [status |-> "in_progress", percent |-> percent, completed |-> FALSE]
    BY <1>2, <1>4
  <2>2. new \in EnrollmentRow /\ Settled(new) /\ Whole(new) /\ new.percent = percent
    BY <1>1, <1>4, <2>1 DEF EnrollmentRow, EnrollmentStatuses, Settled, Whole
  <2>3. new.status # e.status <=> new.completed # e.completed
    BY <1>4, <2>1 DEF Settled
  <2>4. new.status \in {"completed", "in_progress", e.status}
    BY <2>1
  <2> QED BY <2>2, <2>3, <2>4 DEF new, percent
<1>5. CASE ~whole /\ e.status # "completed"
  <2>1. new = [status |-> e.status, percent |-> percent, completed |-> e.completed]
    BY <1>2, <1>5
  <2>2. new \in EnrollmentRow /\ Settled(new) /\ Whole(new) /\ new.percent = percent
    BY <1>1, <1>5, <2>1 DEF EnrollmentRow, EnrollmentStatuses, Settled, Whole
  <2> QED BY <2>1, <2>2 DEF new, percent
<1> QED BY <1>3, <1>4, <1>5

(* Status and completion are written together or not at all.                  *)
LEMMA WrittenEnrollment ==
  ASSUME NEW now \in EnrollmentRow, NEW seen \in EnrollmentRow, NEW row \in EnrollmentRow,
         Settled(now), Settled(row),
         row.status # seen.status <=> row.completed # seen.completed,
         row.status \in {"completed", "in_progress", seen.status}
  PROVE  LET new == EnrollmentWritten(now, seen, row) IN
         /\ new \in EnrollmentRow
         /\ Settled(new)
         /\ now.status # "absent" => new.status # "absent"
         /\ now = seen => new = row
<1> DEFINE new == EnrollmentWritten(now, seen, row)
<1>1. /\ new = [status |-> new.status, percent |-> new.percent, completed |-> new.completed]
      /\ new.status = IF row.status # seen.status THEN row.status ELSE now.status
      /\ new.percent = IF row.percent # seen.percent THEN row.percent ELSE now.percent
      /\ new.completed = IF row.completed # seen.completed THEN row.completed ELSE now.completed
  BY DEF EnrollmentWritten
<1> HIDE DEF new
<1>2. /\ new.status \in EnrollmentStatuses \cup {"absent"} /\ new.percent \in 0..100
      /\ new.completed \in BOOLEAN
  BY <1>1 DEF EnrollmentRow
<1>3. new \in EnrollmentRow
  BY <1>1, <1>2 DEF EnrollmentRow
<1>4. Settled(new)
  BY <1>1 DEF Settled
<1>5. now.status # "absent" => new.status # "absent"
  BY <1>1
<1>6. ASSUME now = seen PROVE new = row
  <2>1. new.status = row.status /\ new.percent = row.percent /\ new.completed = row.completed
    BY <1>1, <1>6
  <2>2. row = [status |-> row.status, percent |-> row.percent, completed |-> row.completed]
    BY DEF EnrollmentRow
  <2> QED BY <1>1, <2>1, <2>2
<1> QED BY <1>3, <1>4, <1>5, <1>6 DEF new

(* A completion or a reset, counted from what the call sees: the enrolments   *)
(* stay sound, and those it did not see as they are have drifted.             *)
LEMMA EnrollmentsRecalculated ==
  ASSUME ProgressInv, NEW l \in Lessons, NEW of \in [Lessons -> ProgressRow],
         NEW view \in Snapshots, SnapshotSound(view), database = "sqlite" => view = RowsNow,
         RecalculateRelatedEnrollments(view, l, of), Recounted(view, Related(l, view), of),
         UNCHANGED <<contents, database>>,
         \A m \in Lessons \ {l} : progress'[m] = progress[m]
  PROVE  /\ enrollment' \in [Collections -> EnrollmentRow] /\ drifted' \subseteq Collections
         /\ EnrollmentsSound'
         /\ \A k \in Collections : Enrolled(k) => enrollment'[k].status # "absent"
<1>1. drifted' \subseteq Collections
  BY DEF Recounted, Related, ProgressInv, LearnerTyped
<1> SUFFICES ASSUME NEW k \in Collections
             PROVE  /\ enrollment'[k] \in EnrollmentRow
                    /\ Settled(enrollment'[k])
                    /\ database = "sqlite" \/ k \notin drifted' => Whole(enrollment'[k])
                    /\ k \notin drifted' => Counts(k)'
                    /\ Enrolled(k) => enrollment'[k].status # "absent"
  <2>1. DOMAIN enrollment' = Collections /\ enrollment' = [c \in Collections |-> enrollment'[c]]
    BY DEF RecalculateRelatedEnrollments
  <2> QED BY <1>1, <2>1 DEF EnrollmentsSound
<1> DEFINE now == enrollment[k]
           seen == view.enrollment[k]
           row == SetEnrollmentRollup(seen, view.contents[k], of)
           rolled == seen.status # "absent" /\ l \in view.contents[k]
<1>2. enrollment'[k] = IF rolled THEN EnrollmentWritten(now, seen, row) ELSE now
  BY DEF RecalculateRelatedEnrollments
<1>3. /\ now \in EnrollmentRow /\ Settled(now) /\ contents[k] \in SUBSET Lessons
      /\ database = "sqlite" \/ k \notin drifted => Whole(now)
      /\ k \notin drifted => Counts(k)
  BY DEF ProgressInv, LearnerTyped, EnrollmentsSound
<1>4. /\ seen \in EnrollmentRow /\ Settled(seen) /\ view.contents[k] \in SUBSET Lessons
      /\ seen.status # "absent" => Enrolled(k)
  BY DEF Snapshots, SnapshotSound
<1>5. /\ row.percent = CompletionPercentage(view.contents[k], of)
      /\ Settled(row) /\ Whole(row) /\ row \in EnrollmentRow
      /\ row.status # seen.status <=> row.completed # seen.completed
      /\ row.status \in {"completed", "in_progress", seen.status}
  BY <1>4, RollupAgrees
<1>6. database = "sqlite" => now = seen
  BY DEF RowsNow
<1>7. k \notin drifted' /\ k \in Related(l, view) => Current(view, k, of)
  BY DEF Recounted
<1>8. k \notin drifted' /\ k \notin Related(l, view) => k \notin drifted
  BY DEF Recounted
<1>9. k \in Related(l, view) <=> Enrolled(k) /\ l \in contents[k] \cup view.contents[k]
  BY DEF Related
<1>10. Current(view, k, of) <=> /\ view.contents[k] = contents[k] /\ seen = now
                               /\ Completed(contents[k], of) = Completed(contents[k], progress')
  BY DEF Current
<1>11. PICK written : written = EnrollmentWritten(now, seen, row)
  OBVIOUS
<1>12. /\ written \in EnrollmentRow /\ Settled(written)
       /\ now.status # "absent" => written.status # "absent"
       /\ now = seen => written = row
  BY <1>3, <1>4, <1>5, <1>11, WrittenEnrollment
<1>13. enrollment'[k] = IF rolled THEN written ELSE now
  BY <1>2, <1>11
<1>14. Enrolled(k) <=> now.status # "absent"
  BY DEF Enrolled
<1> HIDE DEF now, seen, row, rolled
<1>15. enrollment'[k] \in EnrollmentRow /\ Settled(enrollment'[k])
       /\ (Enrolled(k) => enrollment'[k].status # "absent")
  BY <1>3, <1>12, <1>13, <1>14
<1>16. ASSUME database = "sqlite" PROVE Whole(enrollment'[k])
  BY <1>3, <1>5, <1>6, <1>12, <1>13, <1>16
<1>17. ASSUME k \notin drifted' PROVE Whole(enrollment'[k]) /\ Counts(k)'
  <2>1. CASE k \in Related(l, view)
    <3>1. Current(view, k, of) /\ Enrolled(k) /\ l \in view.contents[k]
      BY <1>7, <1>9, <1>10, <1>17, <2>1
    <3>2. rolled
      BY <3>1, <1>10, <1>14 DEF rolled
    <3>3. enrollment'[k] = row
      BY <3>1, <3>2, <1>10, <1>12, <1>13
    <3>4. CompletionPercentage(contents[k], of) = CompletionPercentage(contents[k], progress')
      BY <3>1, <1>10, SamePercentage
    <3>5. row.percent = CompletionPercentage(contents'[k], progress')
      BY <3>1, <3>4, <1>5, <1>10
    <3> QED BY <3>3, <3>5, <1>5 DEF Counts
  <2>2. CASE k \notin Related(l, view)
    <3>1. k \notin drifted /\ Whole(now) /\ Counts(k)
      BY <1>3, <1>8, <1>17, <2>2
    <3>2. ~rolled
      BY <1>4, <1>9, <2>2 DEF rolled
    <3>3. enrollment'[k] = enrollment[k]
      BY <3>2, <1>13 DEF now
    <3>4. CASE ~Enrolled(k)
      BY <3>1, <3>3, <3>4 DEF Counts, Enrolled, now
    <3>5. CASE Enrolled(k)
      <4>1. l \notin contents[k]
        BY <3>5, <1>9, <2>2
      <4>2. \A m \in contents[k] : progress'[m] = progress[m]
        BY <4>1, <1>3
      <4>3. Completed(contents[k], progress) = Completed(contents[k], progress')
        BY <4>2 DEF Completed
      <4>4. CompletionPercentage(contents[k], progress) = CompletionPercentage(contents[k], progress')
        BY <4>3, SamePercentage
      <4>5. enrollment'[k].percent = CompletionPercentage(contents'[k], progress')
        BY <4>4, <3>1, <3>3, <3>5 DEF Counts
      <4> QED BY <4>5, <3>1, <3>3 DEF Counts, now
    <3> QED BY <3>4, <3>5
  <2> QED BY <2>1, <2>2
<1> QED BY <1>15, <1>16, <1>17

-----------------------------------------------------------------------------
(* A call counts, whatever else it does.                                      *)
LEMMA CallsCounted ==
  ASSUME CompletionsPaid, LessonCall, UNCHANGED <<completions, lessonRequest>>
  PROVE  CompletionsPaid'
<1>1. lessonCalls' = lessonCalls + 1 /\ lessonCalls' \in 0..MaxLessonCalls
  BY CallsAssumption DEF CompletionsPaid, LessonCall
<1>2. Underway' = Underway
  BY DEF Underway
<1>3. completions \in [Lessons -> Nat] /\ lessonCalls \in Nat
      /\ \A l \in Lessons : completions[l] + Cardinality(Underway) <= lessonCalls
  BY DEF CompletionsPaid
<1>4. Cardinality(Underway) \in Nat /\ IsFiniteSet(Underway)
  BY FS_CardinalityType DEF CompletionsPaid
<1> QED BY <1>1, <1>2, <1>3, <1>4 DEF CompletionsPaid

(* A call that begins has been counted.                                       *)
LEMMA CallsBegun ==
  ASSUME CompletionsPaid, LessonCall, UNCHANGED completions,
         NEW r \in LessonRequests, lessonRequest[r] = NoCall,
         \A q \in LessonRequests \ {r} : lessonRequest'[q] = lessonRequest[q]
  PROVE  CompletionsPaid'
<1>1. lessonCalls' = lessonCalls + 1 /\ lessonCalls' \in 0..MaxLessonCalls
  BY CallsAssumption DEF CompletionsPaid, LessonCall
<1>2. completions \in [Lessons -> Nat] /\ lessonCalls \in Nat
      /\ \A l \in Lessons : completions[l] + Cardinality(Underway) <= lessonCalls
  BY DEF CompletionsPaid
<1>3. Cardinality(Underway) \in Nat /\ IsFiniteSet(Underway)
  BY FS_CardinalityType DEF CompletionsPaid
<1>4. Underway' \in {Underway, Underway \cup {r}}
  BY DEF Underway
<1>5. r \notin Underway
  BY DEF Underway
<1>6. IsFiniteSet(Underway') /\ Cardinality(Underway') \in Nat /\ Cardinality(Underway') <= Cardinality(Underway) + 1
  <2>1. CASE Underway' = Underway
    BY <1>3, <2>1
  <2>2. CASE Underway' = Underway \cup {r}
    BY <1>3, <1>5, <2>2, FS_AddElement
  <2> QED BY <1>4, <2>1, <2>2
<1> QED BY <1>1, <1>2, <1>3, <1>6 DEF CompletionsPaid

(* A call that ends has paid for one completion at most.                      *)
LEMMA CallsEnded ==
  ASSUME CompletionsPaid, LessonCallsTyped, NEW r \in LessonRequests, lessonRequest[r] # NoCall,
         FinishCall(r),
         \/ completions' = completions
         \/ completions' = [completions EXCEPT ![lessonRequest[r].about] = @ + 1]
  PROVE  CompletionsPaid'
<1>1. lessonCalls' = lessonCalls
  BY DEF FinishCall
<1>2. completions \in [Lessons -> Nat] /\ lessonCalls \in Nat
      /\ \A l \in Lessons : completions[l] + Cardinality(Underway) <= lessonCalls
  BY CallsAssumption DEF CompletionsPaid
<1>3. Cardinality(Underway) \in Nat /\ IsFiniteSet(Underway)
  BY FS_CardinalityType DEF CompletionsPaid
<1>4. Underway' = Underway \ {r} /\ r \in Underway
  BY DEF Underway, FinishCall, LessonCallsTyped
<1>5. IsFiniteSet(Underway') /\ Cardinality(Underway') = Cardinality(Underway) - 1
  BY <1>3, <1>4, FS_RemoveElement
<1>6. completions' \in [Lessons -> Nat] /\ \A l \in Lessons : completions'[l] <= completions[l] + 1
  BY <1>2
<1>7. lessonCalls' \in 0..MaxLessonCalls
  BY <1>1 DEF CompletionsPaid
<1>8. SUFFICES ASSUME NEW l \in Lessons
               PROVE  completions'[l] + Cardinality(Underway') <= lessonCalls'
  BY <1>5, <1>6, <1>7 DEF CompletionsPaid
<1>9. completions'[l] \in Nat /\ completions[l] \in Nat /\ completions'[l] <= completions[l] + 1
      /\ completions[l] + Cardinality(Underway) <= lessonCalls
  BY <1>2, <1>6
<1> QED BY <1>1, <1>2, <1>3, <1>5, <1>9

LEMMA NoCallTyped == NoCall \in LessonCallRow /\ NoSnapshot \in Snapshots
<1>1. NoProgress \in ProgressRow /\ NotEnrolled \in EnrollmentRow
  BY DEF NoProgress, ProgressRow, NotEnrolled, EnrollmentRow
<1>2. NoSnapshot \in Snapshots
  BY <1>1 DEF NoSnapshot, Snapshots
<1> QED BY <1>1, <1>2 DEF NoCall, LessonCallRow

LEMMA CallsFinished ==
  ASSUME LessonCallsTyped, NEW r \in LessonRequests, FinishCall(r)
  PROVE  /\ LessonCallsTyped'
         /\ \A q \in LessonRequests : lessonRequest'[q].snapshot \in {lessonRequest[q].snapshot, NoSnapshot}
<1>1. NoCall \in LessonCallRow /\ NoCall.call \notin Calls /\ NoCall.snapshot = NoSnapshot
  BY NoCallTyped DEF NoCall, Calls
<1>2. lessonRequest' = [lessonRequest EXCEPT ![r] = NoCall]
  BY DEF FinishCall
<1>3. \A q \in LessonRequests : lessonRequest'[q] \in {lessonRequest[q], NoCall}
  BY <1>2 DEF LessonCallsTyped
<1>4. lessonRequest' \in [LessonRequests -> LessonCallRow]
  BY <1>1, <1>2 DEF LessonCallsTyped
<1> QED BY <1>1, <1>3, <1>4 DEF LessonCallsTyped

(* A snapshot stays sound while no enrolment goes.                            *)
LEMMA SnapshotsKept ==
  ASSUME ProgressInv,
         \A k \in Collections : Enrolled(k) => enrollment'[k].status # "absent",
         \A q \in LessonRequests : lessonRequest'[q].snapshot \in {lessonRequest[q].snapshot, NoSnapshot, RowsNow}
  PROVE  \A q \in LessonRequests : SnapshotSound(lessonRequest[q].snapshot)'
<1>1. SnapshotSound(NoSnapshot)
  BY DEF SnapshotSound, NoSnapshot, NotEnrolled, Settled
<1>2. SnapshotSound(RowsNow)
  BY DEF SnapshotSound, RowsNow, ProgressInv, EnrollmentsSound, Enrolled
<1>3. SUFFICES ASSUME NEW q \in LessonRequests, NEW k \in Collections
               PROVE  LET view == lessonRequest'[q].snapshot IN
                      /\ Settled(view.enrollment[k])
                      /\ view.enrollment[k].status # "absent" => enrollment'[k].status # "absent"
  BY DEF SnapshotSound, Enrolled
<1>4. SnapshotSound(lessonRequest[q].snapshot)
  BY DEF ProgressInv
<1>5. PICK view : view = lessonRequest'[q].snapshot
  OBVIOUS
<1>6. SnapshotSound(view)
  BY <1>1, <1>2, <1>4, <1>5
<1> QED BY <1>5, <1>6 DEF SnapshotSound

(* What a call sees is sound, and on SQLite it is what there is.              *)
LEMMA ViewSound ==
  ASSUME ProgressInv, NEW r \in LessonRequests
  PROVE  /\ RowsSeen(r) \in Snapshots /\ SnapshotSound(RowsSeen(r))
         /\ database = "sqlite" => RowsSeen(r) = RowsNow
<1>1. RowsNow \in Snapshots
  BY DEF RowsNow, Snapshots, ProgressInv, LearnerTyped
<1>2. SnapshotSound(RowsNow)
  BY DEF SnapshotSound, RowsNow, ProgressInv, EnrollmentsSound, Enrolled
<1>3. lessonRequest[r].snapshot \in Snapshots /\ SnapshotSound(lessonRequest[r].snapshot)
  BY DEF ProgressInv, LessonCallsTyped, LessonCallRow
<1> QED BY <1>1, <1>2, <1>3 DEF RowsSeen, Seen

(* What a call stores is a row, of no other lesson than its own.              *)
LEMMA RowStored ==
  ASSUME ProgressInv, NEW r \in LessonRequests, lessonRequest[r].call \in Calls, NEW row \in ProgressRow,
         progress' = Stored(r, row)
  PROVE  LET l == lessonRequest[r].about IN
         /\ l \in Lessons
         /\ progress' \in [Lessons -> ProgressRow]
         /\ \A m \in Lessons \ {l} : progress'[m] = progress[m]
         /\ progress'[l].status \in {row.status, progress[l].status}
         /\ row.status # lessonRequest[r].copy.status \/ lessonRequest[r].copy = NoProgress =>
              progress'[l].status = row.status
         /\ row.status = lessonRequest[r].copy.status /\ lessonRequest[r].copy # NoProgress =>
              progress'[l].status = progress[l].status
<1> DEFINE copy == lessonRequest[r].copy
<1>1. PICK l \in Lessons : l = lessonRequest[r].about
  BY DEF ProgressInv, LessonCallsTyped
<1>2. progress \in [Lessons -> ProgressRow] /\ copy \in ProgressRow
  BY DEF ProgressInv, LearnerTyped, LessonCallsTyped, LessonCallRow
<1>3. PICK new : /\ new = IF copy = NoProgress THEN row
                     ELSE [column \in {"status", "percent"} |->
                             IF row[column] # copy[column] THEN row[column] ELSE progress[l][column]]
                 /\ progress' = [progress EXCEPT ![l] = new]
  BY <1>1, <1>2 DEF Stored
<1> HIDE DEF copy
<1>4. CASE copy = NoProgress
  BY <1>1, <1>2, <1>3, <1>4 DEF copy
<1>5. CASE copy # NoProgress
  <2>1. /\ new = [status |-> new.status, percent |-> new.percent]
        /\ new.status = IF row.status # copy.status THEN row.status ELSE progress[l].status
        /\ new.percent = IF row.percent # copy.percent THEN row.percent ELSE progress[l].percent
    BY <1>3, <1>5
  <2>2. new.status \in LessonProgressStatuses \cup {"absent"} /\ new.percent \in {0, 50, 100}
    BY <1>1, <1>2, <2>1 DEF ProgressRow
  <2>3. new \in ProgressRow
    BY <2>1, <2>2 DEF ProgressRow
  <2> QED BY <1>1, <1>2, <1>3, <1>5, <2>1, <2>3 DEF copy
<1> QED BY <1>4, <1>5

-----------------------------------------------------------------------------
(* A step that makes no progress row and no completion.                       *)
LEMMA InvOfRows ==
  ASSUME ProgressInv, UNCHANGED <<progress, completions>>,
         CompletionsPaid', LessonCallsTyped',
         learner' \in LearnerStatuses \cup {"absent"},
         contents' \in [Collections -> SUBSET Lessons],
         enrollment' \in [Collections -> EnrollmentRow],
         drifted' \subseteq Collections, EnrollmentsSound',
         \A k \in Collections : Enrolled(k) => enrollment'[k].status # "absent",
         \A q \in LessonRequests : lessonRequest'[q].snapshot \in {lessonRequest[q].snapshot, NoSnapshot, RowsNow}
  PROVE  ProgressInv'
<1>1. \A q \in LessonRequests : SnapshotSound(lessonRequest[q].snapshot)'
  BY SnapshotsKept
<1>2. LearnerTyped' /\ CompletedLessonsHaveHistory'
  BY DEF ProgressInv, LearnerTyped, CompletedLessonsHaveHistory
<1> QED BY <1>1, <1>2 DEF ProgressInv

LEMMA CallsTypedUnchanged ==
  ASSUME LessonCallsTyped, UNCHANGED lessonRequest
  PROVE  LessonCallsTyped'
BY DEF LessonCallsTyped

LEMMA EnrollmentsUnchanged ==
  ASSUME ProgressInv, UNCHANGED <<database, contents, progress, enrollment, drifted>>
  PROVE  /\ contents' \in [Collections -> SUBSET Lessons] /\ enrollment' \in [Collections -> EnrollmentRow]
         /\ drifted' \subseteq Collections /\ EnrollmentsSound'
         /\ \A k \in Collections : Enrolled(k) => enrollment'[k].status # "absent"
BY DEF ProgressInv, LearnerTyped, EnrollmentsSound, Counts, Enrolled

(* One enrolment is stored, counted or drifted.                               *)
LEMMA EnrollmentStored ==
  ASSUME ProgressInv, NEW k \in Collections, NEW e \in EnrollmentRow, Settled(e), Whole(e),
         e.status # "absent",
         enrollment' = [enrollment EXCEPT ![k] = e], UNCHANGED <<database, contents, progress>>,
         drifted' \subseteq Collections, drifted \ {k} \subseteq drifted',
         k \notin drifted' => e.percent = CompletionPercentage(contents[k], progress)
  PROVE  /\ enrollment' \in [Collections -> EnrollmentRow]
         /\ EnrollmentsSound'
         /\ \A c \in Collections : Enrolled(c) => enrollment'[c].status # "absent"
<1>1. /\ enrollment' \in [Collections -> EnrollmentRow] /\ enrollment'[k] = e
      /\ \A c \in Collections \ {k} : enrollment'[c] = enrollment[c]
  BY DEF ProgressInv, LearnerTyped
<1>2. \A c \in Collections : Enrolled(c) => enrollment'[c].status # "absent"
  BY <1>1 DEF Enrolled
<1>3. ASSUME NEW c \in Collections
      PROVE  /\ Settled(enrollment'[c])
             /\ database' = "sqlite" \/ c \notin drifted' => Whole(enrollment'[c])
             /\ c \notin drifted' => Counts(c)'
  <2>1. CASE c = k
    <3>1. c \notin drifted' => Counts(c)'
      BY <1>1, <2>1 DEF Counts
    <3> QED BY <1>1, <2>1, <3>1
  <2>2. CASE c # k
    <3>1. enrollment'[c] = enrollment[c] /\ (c \notin drifted' => c \notin drifted)
      BY <1>1, <2>2
    <3>2. Counts(c) => Counts(c)'
      BY <3>1 DEF Counts, Enrolled
    <3> QED BY <3>1, <3>2 DEF ProgressInv, EnrollmentsSound
  <2> QED BY <2>1, <2>2
<1> QED BY <1>1, <1>2, <1>3 DEF EnrollmentsSound

LEMMA LearnerStep ==
  ASSUME ProgressInv, CreateLearner \/ UpdateLearner \/ DeactivateLearner
  PROVE  ProgressInv'
<1>1. LessonCall /\ UNCHANGED <<database, contents, progress, completions, enrollment, lessonRequest, drifted>>
  BY DEF CreateLearner, UpdateLearner, DeactivateLearner
<1>2. learner' \in LearnerStatuses
  BY DEF CreateLearner, UpdateLearner, DeactivateLearner, LearnerStatuses
<1>3. CompletionsPaid'
  BY <1>1, CallsCounted DEF ProgressInv
<1>4. LessonCallsTyped'
  BY <1>1, CallsTypedUnchanged DEF ProgressInv
<1> QED BY <1>1, <1>2, <1>3, <1>4, EnrollmentsUnchanged, InvOfRows

LEMMA EditStep ==
  ASSUME ProgressInv, NEW k \in Collections, NEW l \in Lessons, EditCollection(k, l)
  PROVE  ProgressInv'
<1>1. LessonCall /\ Drift({k}) /\ UNCHANGED <<database, learner, progress, completions, enrollment, lessonRequest>>
  BY DEF EditCollection
<1>2. contents' \in [Collections -> SUBSET Lessons] /\ \A c \in Collections \ {k} : contents'[c] = contents[c]
  BY DEF EditCollection, ProgressInv, LearnerTyped
<1>3. CompletionsPaid'
  BY <1>1, CallsCounted DEF ProgressInv
<1>4. LessonCallsTyped'
  BY <1>1, CallsTypedUnchanged DEF ProgressInv
<1>5. drifted' \subseteq Collections /\ drifted \subseteq drifted' /\ (Enrolled(k) => k \in drifted')
  BY <1>1 DEF Drift, ProgressInv, LearnerTyped
<1>6. ASSUME NEW c \in Collections, c \notin drifted' PROVE Counts(c)'
  <2>1. Counts(c) /\ Enrolled(c)' = Enrolled(c)
    BY <1>1, <1>5, <1>6 DEF ProgressInv, EnrollmentsSound, Enrolled
  <2>2. CASE Enrolled(c)
    <3>1. contents'[c] = contents[c]
      BY <1>2, <1>5, <1>6, <2>2
    <3> QED BY <1>1, <2>1, <2>2, <3>1 DEF Counts
  <2>3. CASE ~Enrolled(c)
    BY <2>1, <2>3 DEF Counts
  <2> QED BY <2>2, <2>3
<1>7. EnrollmentsSound'
  BY <1>1, <1>5, <1>6 DEF ProgressInv, EnrollmentsSound
<1> QED BY <1>1, <1>2, <1>3, <1>4, <1>5, <1>7, InvOfRows DEF ProgressInv, LearnerTyped, Enrolled

LEMMA EnrollStep ==
  ASSUME ProgressInv, NEW r \in LessonRequests, NEW k \in Collections, Enroll(r, k)
  PROVE  ProgressInv'
<1> DEFINE view == RowsSeen(r)
<1>1. FinishCall(r) /\ UNCHANGED <<database, learner, contents, progress, completions>>
  BY DEF Enroll, FinishCall
<1>2. lessonRequest[r] # NoCall
  BY DEF Enroll, NoCall
<1>3. CompletionsPaid' /\ LessonCallsTyped'
      /\ \A q \in LessonRequests : lessonRequest'[q].snapshot \in {lessonRequest[q].snapshot, NoSnapshot}
  BY <1>1, <1>2, CallsEnded, CallsFinished DEF ProgressInv
<1>4. view.contents[k] \in SUBSET Lessons /\ view.progress \in [Lessons -> ProgressRow]
  BY ViewSound DEF Snapshots
<1>5. PICK fresh : fresh = [NotEnrolled EXCEPT !.status = "enrolled"]
  OBVIOUS
<1>6. fresh = [status |-> "enrolled", percent |-> 0, completed |-> FALSE]
  BY <1>5 DEF NotEnrolled
<1>7. fresh \in EnrollmentRow /\ Settled(fresh) /\ fresh.status = "enrolled"
  BY <1>6 DEF EnrollmentRow, EnrollmentStatuses, Settled
<1>8. PICK e : e = SetEnrollmentRollup(fresh, view.contents[k], view.progress)
  OBVIOUS
<1>9. /\ e \in EnrollmentRow /\ Settled(e) /\ Whole(e) /\ e.status # "absent"
      /\ e.percent = CompletionPercentage(view.contents[k], view.progress)
  BY <1>4, <1>7, <1>8, RollupAgrees
<1>10. enrollment' = [enrollment EXCEPT ![k] = e] /\ Recounted(view, {k}, view.progress)
  BY <1>5, <1>8 DEF Enroll
<1>11. /\ drifted' \subseteq Collections /\ drifted \ {k} \subseteq drifted'
       /\ k \notin drifted' => Current(view, k, view.progress)
  BY <1>10 DEF Recounted, ProgressInv, LearnerTyped
<1>12. ASSUME k \notin drifted' PROVE e.percent = CompletionPercentage(contents[k], progress)
  <2>1. view.contents[k] = contents[k] /\ Completed(contents[k], view.progress) = Completed(contents[k], progress)
    BY <1>1, <1>11, <1>12 DEF Current
  <2> HIDE DEF view
  <2> QED BY <1>9, <2>1, SamePercentage
<1> HIDE DEF view
<1>13. /\ enrollment' \in [Collections -> EnrollmentRow] /\ EnrollmentsSound'
       /\ \A c \in Collections : Enrolled(c) => enrollment'[c].status # "absent"
  BY <1>1, <1>9, <1>10, <1>11, <1>12, EnrollmentStored
<1> QED BY <1>1, <1>3, <1>11, <1>13, InvOfRows DEF ProgressInv, LearnerTyped

LEMMA ByHandStep ==
  ASSUME ProgressInv, NEW k \in Collections, StartEnrollment(k) \/ CompleteEnrollment(k)
  PROVE  ProgressInv'
<1>1. LessonCall /\ UNCHANGED <<database, learner, contents, progress, completions, lessonRequest>>
  BY DEF StartEnrollment, CompleteEnrollment
<1>2. CompletionsPaid'
  BY <1>1, CallsCounted DEF ProgressInv
<1>3. LessonCallsTyped'
  BY <1>1, CallsTypedUnchanged DEF ProgressInv
<1>4. enrollment[k] \in EnrollmentRow /\ Settled(enrollment[k])
      /\ (database = "sqlite" \/ k \notin drifted => Whole(enrollment[k]))
      /\ (k \notin drifted => Counts(k)) /\ drifted \subseteq Collections
  BY DEF ProgressInv, LearnerTyped, EnrollmentsSound
<1>5. CASE StartEnrollment(k)
  <2>1. PICK started : started = [enrollment[k] EXCEPT !.status = "in_progress"]
    OBVIOUS
  <2>2. enrollment[k].status \in {"enrolled", "in_progress"} /\ drifted' = drifted
        /\ enrollment' = [enrollment EXCEPT ![k] = started]
    BY <1>5, <2>1 DEF StartEnrollment
  <2>3. /\ started \in EnrollmentRow /\ Settled(started) /\ started.status # "absent"
        /\ started.percent = enrollment[k].percent
        /\ Whole(enrollment[k]) => Whole(started)
    BY <1>4, <2>1, <2>2 DEF EnrollmentRow, EnrollmentStatuses, Settled, Whole
  <2>4. /\ enrollment' \in [Collections -> EnrollmentRow] /\ enrollment'[k] = started
        /\ \A c \in Collections \ {k} : enrollment'[c] = enrollment[c]
    BY <2>2, <2>3 DEF ProgressInv, LearnerTyped
  <2>5. \A c \in Collections : Enrolled(c) => enrollment'[c].status # "absent"
    BY <2>3, <2>4 DEF Enrolled
  <2>6. ASSUME NEW c \in Collections
        PROVE  /\ Settled(enrollment'[c])
               /\ database' = "sqlite" \/ c \notin drifted' => Whole(enrollment'[c])
               /\ c \notin drifted' => Counts(c)'
    <3>1. CASE c = k
      <4>1. Enrolled(k)
        BY <2>2 DEF Enrolled
      <4>2. c \notin drifted' => Counts(c)'
        BY <1>1, <1>4, <2>2, <2>3, <2>4, <3>1, <4>1 DEF Counts
      <4> QED BY <1>1, <1>4, <2>2, <2>3, <2>4, <3>1, <4>2
    <3>2. CASE c # k
      <4>1. enrollment'[c] = enrollment[c]
        BY <2>4, <3>2
      <4>2. Counts(c) => Counts(c)'
        BY <1>1, <4>1 DEF Counts, Enrolled
      <4> QED BY <1>1, <2>2, <4>1, <4>2 DEF ProgressInv, EnrollmentsSound
    <3> QED BY <3>1, <3>2
  <2>7. EnrollmentsSound'
    BY <2>6 DEF EnrollmentsSound
  <2> QED BY <1>1, <1>2, <1>3, <1>4, <2>2, <2>4, <2>5, <2>7, InvOfRows DEF ProgressInv, LearnerTyped
<1>6. CASE CompleteEnrollment(k)
  <2>1. PICK whole : whole = [status |-> "completed", percent |-> 100, completed |-> TRUE]
    OBVIOUS
  <2>2. whole \in EnrollmentRow /\ Settled(whole) /\ Whole(whole) /\ whole.status # "absent"
    BY <2>1 DEF EnrollmentRow, EnrollmentStatuses, Settled, Whole
  <2>3. enrollment' = [enrollment EXCEPT ![k] = whole] /\ Enrolled(k) /\ Drift({k})
    BY <1>6, <2>1 DEF CompleteEnrollment
  <2>4. drifted' = drifted \cup {k}
    BY <2>3 DEF Drift
  <2>5. /\ enrollment' \in [Collections -> EnrollmentRow] /\ EnrollmentsSound'
        /\ \A c \in Collections : Enrolled(c) => enrollment'[c].status # "absent"
    BY <1>1, <1>4, <2>2, <2>3, <2>4, EnrollmentStored
  <2> QED BY <1>1, <1>2, <1>3, <1>4, <2>4, <2>5, InvOfRows DEF ProgressInv, LearnerTyped
<1> QED BY <1>5, <1>6

(* A call that begins reads the rows as they are.                             *)
LEMMA BeginStep ==
  ASSUME ProgressInv, NEW r \in LessonRequests, NEW begun \in LessonCallRow,
         LessonCall, UNCHANGED rows, lessonRequest[r] = NoCall,
         lessonRequest' = [lessonRequest EXCEPT ![r] = begun],
         begun.call \in Calls => begun.about \in Lessons,
         begun.snapshot \in {NoSnapshot, RowsNow}
  PROVE  ProgressInv'
<1>1. \A q \in LessonRequests : lessonRequest'[q] = IF q = r THEN begun ELSE lessonRequest[q]
  BY DEF ProgressInv, LessonCallsTyped
<1>2. LessonCallsTyped'
  BY <1>1 DEF ProgressInv, LessonCallsTyped
<1>3. \A q \in LessonRequests \ {r} : lessonRequest'[q] = lessonRequest[q]
  BY <1>1
<1>4. UNCHANGED <<database, learner, contents, progress, completions, enrollment, drifted>>
  BY DEF rows
<1>5. CompletionsPaid'
  BY <1>3, <1>4, CallsBegun DEF ProgressInv
<1>6. \A q \in LessonRequests : lessonRequest'[q].snapshot \in {lessonRequest[q].snapshot, NoSnapshot, RowsNow}
  BY <1>1
<1> QED BY <1>2, <1>4, <1>5, <1>6, EnrollmentsUnchanged, InvOfRows DEF ProgressInv, LearnerTyped

LEMMA ReadStep ==
  ASSUME ProgressInv, NEW r \in LessonRequests, NEW l \in Lessons, NEW call \in Calls,
         GetOrCreateProgress(r, l, call)
  PROVE  ProgressInv'
<1>1. LessonCall /\ UNCHANGED rows /\ lessonRequest[r] = NoCall
  BY DEF GetOrCreateProgress
<1>2. PICK snapshot : /\ snapshot = IF call \in Completing THEN Seen(NoSnapshot, RowsNow) ELSE NoSnapshot
                      /\ snapshot \in {NoSnapshot, RowsNow}
  BY DEF Seen
<1>3. RowsNow \in Snapshots /\ NoSnapshot \in Snapshots /\ progress[l] \in ProgressRow
  BY NoCallTyped DEF RowsNow, Snapshots, ProgressInv, LearnerTyped
<1>4. PICK begun : begun = [call |-> call, about |-> l, copy |-> progress[l], snapshot |-> snapshot]
  OBVIOUS
<1>5. lessonRequest' = [lessonRequest EXCEPT ![r] = begun]
  BY <1>2, <1>4 DEF GetOrCreateProgress
<1>6. begun \in LessonCallRow /\ begun.about \in Lessons /\ begun.snapshot \in {NoSnapshot, RowsNow}
  BY <1>2, <1>3, <1>4 DEF LessonCallRow
<1> QED BY <1>1, <1>5, <1>6, BeginStep

LEMMA ReadEnrollmentStep ==
  ASSUME ProgressInv, NEW r \in LessonRequests, NEW k \in Collections, ReadEnrollment(r, k)
  PROVE  ProgressInv'
<1>1. LessonCall /\ UNCHANGED rows /\ lessonRequest[r] = NoCall
  BY DEF ReadEnrollment
<1>2. PICK snapshot : snapshot = Seen(NoSnapshot, RowsNow) /\ snapshot \in {NoSnapshot, RowsNow}
  BY DEF Seen
<1>3. RowsNow \in Snapshots /\ NoSnapshot \in Snapshots /\ NoProgress \in ProgressRow
  BY NoCallTyped DEF RowsNow, Snapshots, ProgressInv, LearnerTyped, NoProgress, ProgressRow
<1>4. PICK begun : begun = [call |-> "enroll", about |-> k, copy |-> NoProgress, snapshot |-> snapshot]
  OBVIOUS
<1>5. lessonRequest' = [lessonRequest EXCEPT ![r] = begun]
  BY <1>2, <1>4 DEF ReadEnrollment
<1>6. begun \in LessonCallRow /\ begun.call \notin Calls /\ begun.snapshot \in {NoSnapshot, RowsNow}
  BY <1>2, <1>3, <1>4 DEF LessonCallRow, Calls
<1> QED BY <1>1, <1>5, <1>6, BeginStep

(* A call that is none has nothing to store.                                  *)
LEMMA CallUnderway ==
  ASSUME ProgressInv, NEW r \in LessonRequests, lessonRequest[r].call \in Calls
  PROVE  lessonRequest[r] # NoCall /\ lessonRequest[r].copy \in ProgressRow /\ LoadedProgress(r) \in ProgressRow
<1>1. lessonRequest[r] # NoCall
  BY DEF NoCall, Calls
<1>2. lessonRequest[r].copy \in ProgressRow
  BY DEF ProgressInv, LessonCallsTyped, LessonCallRow
<1>3. [NoProgress EXCEPT !.status = "not_started"] \in ProgressRow
  BY DEF NoProgress, ProgressRow, LessonProgressStatuses
<1> QED BY <1>1, <1>2, <1>3 DEF LoadedProgress

(* A call that stores something short of a completion: an access, a start or  *)
(* an update of half a lesson.  If it sets a completed lesson back, the       *)
(* enrolments that had counted it have drifted.                               *)
LEMMA StoreShort ==
  ASSUME ProgressInv, NEW r \in LessonRequests, lessonRequest[r].call \in Calls,
         NEW row \in ProgressRow, progress' = Stored(r, row),
         row.status = "completed" => lessonRequest[r].copy.status = "completed",
         SetBack(lessonRequest[r].about),
         FinishCall(r), UNCHANGED <<learner, contents, completions, enrollment>>
  PROVE  ProgressInv'
<1>1. lessonRequest[r] # NoCall
  BY CallUnderway
<1>2. PICK l \in Lessons : l = lessonRequest[r].about
  BY DEF ProgressInv, LessonCallsTyped
<1>3. progress' \in [Lessons -> ProgressRow]
      /\ (\A m \in Lessons \ {l} : progress'[m] = progress[m])
  BY <1>2, RowStored
<1>4. progress'[l].status = "completed" => progress[l].status = "completed"
  <2>1. CASE row.status # "completed"
    BY <1>2, <2>1, RowStored
  <2>2. CASE row.status = "completed"
    <3>1. lessonRequest[r].copy # NoProgress
      BY <2>2 DEF NoProgress
    <3> QED BY <1>2, <2>2, <3>1, RowStored
  <2> QED BY <2>1, <2>2
<1>5. \A m \in Lessons : progress'[m].status = "completed" => progress[m].status = "completed"
  BY <1>3, <1>4
<1>6. CompletionsPaid' /\ LessonCallsTyped'
      /\ \A q \in LessonRequests : lessonRequest'[q].snapshot \in {lessonRequest[q].snapshot, NoSnapshot}
  BY <1>1, CallsEnded, CallsFinished DEF ProgressInv
<1>7. CompletedLessonsHaveHistory'
  BY <1>5 DEF ProgressInv, CompletedLessonsHaveHistory
<1>8. drifted' = drifted \cup {k \in IF progress[l].status = "completed" /\ progress'[l].status # "completed"
                                    THEN {c \in Collections : l \in contents[c]} ELSE {} : Enrolled(k)}
  BY <1>2 DEF SetBack, Drift
<1>9. drifted' \subseteq Collections /\ drifted \subseteq drifted'
  BY <1>8 DEF ProgressInv, LearnerTyped
<1>10. ASSUME NEW k \in Collections, k \notin drifted' PROVE Counts(k)'
  <2>1. Counts(k)
    BY <1>9, <1>10 DEF ProgressInv, EnrollmentsSound
  <2>2. SUFFICES ASSUME Enrolled(k)
                 PROVE  CompletionPercentage(contents[k], progress') = CompletionPercentage(contents[k], progress)
    BY <2>1 DEF Counts, Enrolled
  <2>3. l \in contents[k] => (progress'[l].status = "completed" <=> progress[l].status = "completed")
    BY <1>4, <1>8, <1>10, <2>2
  <2>4. contents[k] \subseteq Lessons
    BY DEF ProgressInv, LearnerTyped
  <2>5. Completed(contents[k], progress') = Completed(contents[k], progress)
    BY <1>3, <2>3, <2>4 DEF Completed
  <2> QED BY <2>5, SamePercentage
<1>11. EnrollmentsSound'
  <2>1. database' = database
    BY DEF FinishCall
  <2> QED BY <1>9, <1>10, <2>1 DEF ProgressInv, EnrollmentsSound
<1>12. LearnerTyped'
  BY <1>3, <1>9 DEF ProgressInv, LearnerTyped
<1>13. \A q \in LessonRequests : SnapshotSound(lessonRequest[q].snapshot)'
  BY <1>6, SnapshotsKept DEF Enrolled
<1> QED BY <1>6, <1>7, <1>11, <1>12, <1>13 DEF ProgressInv

LEMMA AccessStep ==
  ASSUME ProgressInv, NEW r \in LessonRequests, RecordLessonAccess(r) \/ StartLesson(r) \/ UpdateLessonProgress(r)
  PROVE  ProgressInv'
<1>1. lessonRequest[r].call \in Calls /\ FinishCall(r) /\ UNCHANGED <<learner, contents, completions, enrollment>>
  BY DEF RecordLessonAccess, StartLesson, UpdateLessonProgress, Calls
<1>2. LoadedProgress(r) \in ProgressRow
  BY <1>1, CallUnderway
<1>3. LoadedProgress(r).status = "completed" => lessonRequest[r].copy.status = "completed"
  BY DEF LoadedProgress, NoProgress
<1>4. PICK started \in ProgressRow : /\ started = Started(LoadedProgress(r))
                                     /\ started.status = "completed" => LoadedProgress(r).status = "completed"
  <2>1. PICK row \in ProgressRow : row = LoadedProgress(r)
    BY <1>2
  <2>2. PICK begun : begun = [row EXCEPT !.status = "in_progress"]
    OBVIOUS
  <2>3. begun \in ProgressRow /\ begun.status = "in_progress"
    BY <2>2 DEF ProgressRow, LessonProgressStatuses
  <2>4. Started(row) \in {row, begun}
    BY <2>2 DEF Started
  <2> QED BY <2>1, <2>3, <2>4
<1>5. CASE RecordLessonAccess(r)
  <2>1. PICK l \in Lessons : l = lessonRequest[r].about
    BY <1>1 DEF ProgressInv, LessonCallsTyped
  <2>2. ~InsertRefused(r) /\ progress' = Stored(r, LoadedProgress(r)) /\ drifted' = drifted
    BY <1>5 DEF RecordLessonAccess
  <2>3. progress[l].status = "completed" => progress'[l].status = "completed"
    <3>1. CASE lessonRequest[r].copy = NoProgress
      <4>1. progress[l] = NoProgress
        BY <2>1, <2>2, <3>1 DEF InsertRefused
      <4> QED BY <4>1 DEF NoProgress
    <3>2. CASE lessonRequest[r].copy # NoProgress
      <4>1. LoadedProgress(r) = lessonRequest[r].copy
        BY <3>2 DEF LoadedProgress
      <4>2. PICK row \in ProgressRow : row = LoadedProgress(r)
        BY <1>2
      <4>3. progress'[l].status = progress[l].status
        BY <1>1, <2>1, <2>2, <3>2, <4>1, <4>2, RowStored
      <4> QED BY <4>3
    <3> QED BY <3>1, <3>2
  <2>4. SetBack(lessonRequest[r].about)
    BY <2>1, <2>2, <2>3 DEF SetBack, Drift
  <2> QED BY <1>1, <1>2, <1>3, <2>2, <2>4, StoreShort
<1>6. CASE StartLesson(r)
  BY <1>1, <1>3, <1>4, <1>6, StoreShort DEF StartLesson
<1>7. CASE UpdateLessonProgress(r)
  <2>1. PICK half : half = [started EXCEPT !.percent = 50]
    OBVIOUS
  <2>2. half \in ProgressRow /\ half.status = started.status
    BY <2>1 DEF ProgressRow
  <2>3. progress' = Stored(r, half) /\ SetBack(lessonRequest[r].about)
    BY <1>4, <1>7, <2>1 DEF UpdateLessonProgress
  <2> QED BY <1>1, <1>3, <1>4, <2>2, <2>3, StoreShort
<1> QED BY <1>5, <1>6, <1>7

LEMMA CompleteStep ==
  ASSUME ProgressInv, NEW r \in LessonRequests, CompleteLesson(r)
  PROVE  ProgressInv'
<1>1. lessonRequest[r].call \in Calls /\ FinishCall(r) /\ UNCHANGED <<learner, contents>>
  BY DEF CompleteLesson, Completing, Calls
<1>2. lessonRequest[r] # NoCall
  BY <1>1, CallUnderway
<1>3. PICK l \in Lessons : l = lessonRequest[r].about
  BY <1>1 DEF ProgressInv, LessonCallsTyped
<1>4. PICK row \in ProgressRow : row = [status |-> "completed", percent |-> 100]
  BY DEF ProgressRow, LessonProgressStatuses
<1>5. progress' = Stored(r, row)
  BY <1>4 DEF CompleteLesson
<1>6. progress' \in [Lessons -> ProgressRow]
      /\ (\A m \in Lessons \ {l} : progress'[m] = progress[m])
  BY <1>1, <1>3, <1>5, RowStored
<1>7. completions' = [completions EXCEPT ![lessonRequest[r].about] = @ + 1]
  BY DEF CompleteLesson
<1>8. CompletionsPaid' /\ LessonCallsTyped'
      /\ \A q \in LessonRequests : lessonRequest'[q].snapshot \in {lessonRequest[q].snapshot, NoSnapshot}
  BY <1>1, <1>2, <1>7, CallsEnded, CallsFinished DEF ProgressInv
<1>9. PICK view : view = RowsSeen(r)
  OBVIOUS
<1>10. view \in Snapshots /\ SnapshotSound(view) /\ (database = "sqlite" => view = RowsNow)
  BY <1>9, ViewSound
<1>11. PICK of : of = [view.progress EXCEPT ![l] = progress'[l]]
  OBVIOUS
<1>12. of \in [Lessons -> ProgressRow]
  BY <1>6, <1>10, <1>11 DEF Snapshots
<1>13. RecalculateRelatedEnrollments(view, l, of) /\ Recounted(view, Related(l, view), of)
  <2>1. Counted(r, [RowsSeen(r).progress EXCEPT ![lessonRequest[r].about] = progress'[lessonRequest[r].about]])
    BY DEF CompleteLesson
  <2> QED BY <1>3, <1>9, <1>11, <2>1 DEF Counted
<1>14. database' = database
  BY <1>1 DEF FinishCall
<1>15. /\ enrollment' \in [Collections -> EnrollmentRow] /\ drifted' \subseteq Collections
       /\ EnrollmentsSound'
       /\ \A k \in Collections : Enrolled(k) => enrollment'[k].status # "absent"
  BY <1>1, <1>6, <1>10, <1>12, <1>13, <1>14, EnrollmentsRecalculated
<1>16. LearnerTyped'
  BY <1>1, <1>6, <1>15 DEF ProgressInv, LearnerTyped
<1>17. CompletedLessonsHaveHistory'
  <2> SUFFICES ASSUME NEW m \in Lessons, progress'[m].status = "completed"
               PROVE  completions'[m] > 0
    BY DEF CompletedLessonsHaveHistory
  <2>1. completions \in [Lessons -> Nat]
    BY DEF ProgressInv, CompletionsPaid
  <2>2. CASE m = l
    <3>1. completions'[m] = completions[m] + 1 /\ completions[m] \in Nat
      BY <1>3, <1>7, <2>1, <2>2
    <3> QED BY <3>1
  <2>3. CASE m # l
    BY <1>3, <1>6, <1>7, <2>1, <2>3 DEF ProgressInv, CompletedLessonsHaveHistory
  <2> QED BY <2>2, <2>3
<1>18. \A q \in LessonRequests : SnapshotSound(lessonRequest[q].snapshot)'
  BY <1>8, <1>15, SnapshotsKept
<1> QED BY <1>8, <1>15, <1>16, <1>17, <1>18 DEF ProgressInv

LEMMA EndStep ==
  ASSUME ProgressInv, NEW r \in LessonRequests, EndCallUnchanged(r)
  PROVE  ProgressInv'
<1>1. lessonRequest[r] # NoCall /\ FinishCall(r) /\ UNCHANGED rows
  BY DEF EndCallUnchanged
<1>2. UNCHANGED <<database, learner, contents, progress, completions, enrollment, drifted>>
  BY <1>1 DEF rows
<1>3. CompletionsPaid' /\ LessonCallsTyped'
      /\ \A q \in LessonRequests : lessonRequest'[q].snapshot \in {lessonRequest[q].snapshot, NoSnapshot}
  BY <1>1, <1>2, CallsEnded, CallsFinished DEF ProgressInv
<1> QED BY <1>2, <1>3, EnrollmentsUnchanged, InvOfRows DEF ProgressInv, LearnerTyped

LEMMA ResetStep ==
  ASSUME ProgressInv, NEW l \in Lessons, ResetLessonProgress(l)
  PROVE  ProgressInv'
<1>1. LessonCall /\ UNCHANGED <<database, learner, contents, completions, lessonRequest>>
  BY DEF ResetLessonProgress
<1>2. progress \in [Lessons -> ProgressRow]
  BY DEF ProgressInv, LearnerTyped
<1>3. PICK row \in ProgressRow : row = [status |-> "not_started", percent |-> 0]
  BY DEF ProgressRow, LessonProgressStatuses
<1>4. progress' = [progress EXCEPT ![l] = row]
  BY <1>3 DEF ResetLessonProgress
<1>5. /\ progress' \in [Lessons -> ProgressRow]
      /\ \A m \in Lessons \ {l} : progress'[m] = progress[m]
      /\ \A m \in Lessons : progress'[m].status = "completed" => progress[m].status = "completed"
  BY <1>2, <1>3, <1>4
<1>6. RowsNow \in Snapshots /\ SnapshotSound(RowsNow)
  BY DEF RowsNow, Snapshots, SnapshotSound, ProgressInv, LearnerTyped, EnrollmentsSound, Enrolled
<1>7. RecalculateRelatedEnrollments(RowsNow, l, progress) /\ Recounted(RowsNow, Related(l, RowsNow), progress)
  BY DEF ResetLessonProgress
<1>8. /\ enrollment' \in [Collections -> EnrollmentRow] /\ drifted' \subseteq Collections
      /\ EnrollmentsSound'
      /\ \A k \in Collections : Enrolled(k) => enrollment'[k].status # "absent"
  BY <1>1, <1>2, <1>5, <1>6, <1>7, EnrollmentsRecalculated
<1>9. CompletionsPaid' /\ LessonCallsTyped'
  BY <1>1, CallsCounted, CallsTypedUnchanged DEF ProgressInv
<1>10. LearnerTyped'
  BY <1>1, <1>5, <1>8 DEF ProgressInv, LearnerTyped
<1>11. CompletedLessonsHaveHistory'
  BY <1>1, <1>5 DEF ProgressInv, CompletedLessonsHaveHistory
<1>12. \A q \in LessonRequests : SnapshotSound(lessonRequest[q].snapshot)'
  BY <1>1, <1>8, SnapshotsKept
<1> QED BY <1>8, <1>9, <1>10, <1>11, <1>12 DEF ProgressInv

-----------------------------------------------------------------------------
LEMMA ProgressInvInit == ProgressInit => ProgressInv
<1> SUFFICES ASSUME ProgressInit PROVE ProgressInv
  OBVIOUS
<1>1. NoProgress \in ProgressRow /\ NotEnrolled \in EnrollmentRow /\ Settled(NotEnrolled) /\ Whole(NotEnrolled)
  BY DEF NoProgress, ProgressRow, NotEnrolled, EnrollmentRow, Settled, Whole
<1>2. LearnerTyped
  BY <1>1 DEF ProgressInit, LearnerTyped
<1>3. NoCall.call \notin Calls /\ NoCall.snapshot = NoSnapshot
  BY DEF NoCall, Calls
<1>4. LessonCallsTyped
  BY <1>3, NoCallTyped DEF ProgressInit, LessonCallsTyped
<1>5. CompletionsPaid
  <2>1. Underway = {}
    BY DEF Underway, ProgressInit
  <2> QED BY <2>1, FS_EmptySet, CallsAssumption DEF CompletionsPaid, ProgressInit
<1>6. \A k \in Collections : enrollment[k] = NotEnrolled /\ NotEnrolled.status = "absent"
  BY DEF ProgressInit, NotEnrolled
<1>7. EnrollmentsSound
  BY <1>1, <1>6 DEF EnrollmentsSound, Counts, Enrolled
<1>8. \A r \in LessonRequests : SnapshotSound(lessonRequest[r].snapshot)
  <2>1. SnapshotSound(NoSnapshot)
    BY <1>1, <1>6 DEF SnapshotSound, NoSnapshot
  <2> QED BY <2>1, <1>3 DEF ProgressInit
<1>9. CompletedLessonsHaveHistory
  BY DEF CompletedLessonsHaveHistory, ProgressInit, NoProgress
<1> QED BY <1>2, <1>4, <1>5, <1>7, <1>8, <1>9 DEF ProgressInv

LEMMA ProgressStep == ASSUME ProgressInv, [ProgressNext]_progressVars PROVE ProgressInv'
<1>1. CASE CreateLearner \/ UpdateLearner \/ DeactivateLearner
  BY <1>1, LearnerStep
<1>2. CASE \E k \in Collections, l \in Lessons : EditCollection(k, l)
  BY <1>2, EditStep
<1>3. CASE \E k \in Collections : StartEnrollment(k) \/ CompleteEnrollment(k)
  BY <1>3, ByHandStep
<1>4. CASE \E r \in LessonRequests, l \in Lessons, call \in Calls : GetOrCreateProgress(r, l, call)
  BY <1>4, ReadStep
<1>5. CASE \E r \in LessonRequests : RecordLessonAccess(r) \/ StartLesson(r) \/ UpdateLessonProgress(r)
  BY <1>5, AccessStep
<1>6. CASE \E r \in LessonRequests : CompleteLesson(r)
  BY <1>6, CompleteStep
<1>7. CASE \E r \in LessonRequests : EndCallUnchanged(r)
  BY <1>7, EndStep
<1>8. CASE \E l \in Lessons : ResetLessonProgress(l)
  BY <1>8, ResetStep
<1>9. CASE UNCHANGED progressVars
  <2>1. UNCHANGED <<database, learner, contents, progress, completions, enrollment, drifted, lessonRequest, lessonCalls>>
    BY <1>9 DEF progressVars, rows
  <2>2. CompletionsPaid' /\ LessonCallsTyped'
    BY <2>1 DEF ProgressInv, CompletionsPaid, LessonCallsTyped, Underway
  <2> QED BY <2>1, <2>2, EnrollmentsUnchanged, InvOfRows DEF ProgressInv, LearnerTyped
<1>10. CASE \E r \in LessonRequests, k \in Collections : ReadEnrollment(r, k)
  BY <1>10, ReadEnrollmentStep
<1>11. CASE \E r \in LessonRequests : \/ \E c \in Courses : EnrollInCourse(r, c)
                                      \/ \E p \in Paths : EnrollInCurriculumPath(r, p)
  <2>1. PICK r \in LessonRequests, k \in Collections : Enroll(r, k)
    BY <1>11 DEF EnrollInCourse, EnrollInCurriculumPath, Collections
  <2> QED BY <2>1, EnrollStep
<1> QED BY <1>1, <1>2, <1>3, <1>4, <1>5, <1>6, <1>7, <1>8, <1>9, <1>10, <1>11 DEF ProgressNext

(* Every call of the lesson services keeps the columns of the enrolments in   *)
(* agreement, and every completion in the history.                            *)
THEOREM ProgressInvariant == ProgressSpec => []ProgressInv
<1>1. ProgressInit => ProgressInv
  BY ProgressInvInit
<1>2. ProgressInv /\ [ProgressNext]_progressVars => ProgressInv'
  BY ProgressStep
<1> QED BY <1>1, <1>2, PTL DEF ProgressSpec

(* Whatever calls overlap or rest on old copies, and whatever is reset, edited*)
(* or completed by hand, an enrolment is completed exactly when its time of   *)
(* completion is set and, on MySQL unless it has drifted, its percentage is   *)
(* 100; and the rows have their types, so there are no more completion events *)
(* than calls.                                                                *)
THEOREM EnrollmentsStayConsistent == ProgressSpec => []EnrollmentsConsistent
<1>1. ProgressInv => EnrollmentsConsistent
  <2> SUFFICES ASSUME ProgressInv PROVE EnrollmentsConsistent
    OBVIOUS
  <2>1. completions \in [Lessons -> 0..MaxLessonCalls]
    <3>1. Cardinality(Underway) \in Nat
      BY FS_CardinalityType DEF ProgressInv, CompletionsPaid
    <3>2. completions \in [Lessons -> Nat] /\ lessonCalls \in 0..MaxLessonCalls
          /\ \A l \in Lessons : completions[l] + Cardinality(Underway) <= lessonCalls
      BY DEF ProgressInv, CompletionsPaid
    <3>3. \A l \in Lessons : completions[l] \in 0..MaxLessonCalls
      BY <3>1, <3>2, CallsAssumption
    <3> QED BY <3>2, <3>3
  <2>2. ProgressTypeOK
    BY <2>1 DEF ProgressInv, LearnerTyped, LessonCallsTyped, LessonCallRow, ProgressTypeOK
  <2>3. EnrollmentsAgreeWithThemselves
    BY DEF ProgressInv, EnrollmentsSound, EnrollmentsAgreeWithThemselves, Settled, Whole
  <2> QED BY <2>2, <2>3 DEF EnrollmentsConsistent
<1> QED BY <1>1, ProgressInvariant, PTL

(* No lesson is completed without an event in its history.                    *)
THEOREM CompletionsHaveHistory == ProgressSpec => []CompletedLessonsHaveHistory
<1>1. ProgressInv => CompletedLessonsHaveHistory
  BY DEF ProgressInv
<1> QED BY <1>1, ProgressInvariant, PTL

(* The percentage of an enrolment is that of its lessons, for any number of   *)
(* calls that overlap; the exceptions are those of drifted, and that two      *)
(* calls overlap is one on MySQL only.                                        *)
THEOREM EnrollmentsAreCounted == ProgressSpec => []EnrollmentsCountLessons
<1>1. ProgressInv => EnrollmentsCountLessons
  BY DEF ProgressInv, EnrollmentsSound, EnrollmentsCountLessons, Counts
<1> QED BY <1>1, ProgressInvariant, PTL
=============================================================================
