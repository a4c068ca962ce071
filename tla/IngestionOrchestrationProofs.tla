-------------------- MODULE IngestionOrchestrationProofs --------------------
(* Proofs about IngestionOrchestration, for any jobs, documents, nodes and   *)
(* bounds.                                                                   *)
EXTENDS IngestionOrchestration, FiniteSetTheorems, TLAPS

USE DEF JobStatuses, AttemptStatuses, EventTypes, ActiveJobStatuses

EventRecords == [event : EventTypes, previous : JobStatuses \cup {"absent"}, new : JobStatuses]

(* Finishing an attempt keeps their number, and changes the outcome of the   *)
(* latest running attempt alone.                                             *)
LEMMA FinishAttemptFacts ==
    ASSUME TypeOK, NEW j \in Jobs, NEW outcome \in AttemptStatuses
    PROVE  /\ FinishAttempt(j, outcome) \in Seq(AttemptStatuses)
           /\ Len(FinishAttempt(j, outcome)) = Len(attempts[j])
           /\ \A n \in 1..Len(attempts[j]) :
                FinishAttempt(j, outcome)[n] =
                  IF IsRunningAttempt(j, n) THEN outcome ELSE attempts[j][n]
<1> DEFINE s == attempts[j]
           f == [n \in 1..Len(s) |-> IF IsRunningAttempt(j, n) THEN outcome ELSE s[n]]
<1>1. s \in Seq(AttemptStatuses) BY DEF TypeOK
<1>2. Len(s) \in Nat /\ \A n \in 1..Len(s) : s[n] \in AttemptStatuses
  BY <1>1
<1>3. f \in [1..Len(s) -> AttemptStatuses]
  <2> HIDE DEF s
  <2> QED BY <1>2
<1>4. f \in Seq(AttemptStatuses) /\ Len(f) = Len(s)
  <2> HIDE DEF f, s
  <2> QED BY <1>2, <1>3
<1>5. \A n \in 1..Len(s) : f[n] = IF IsRunningAttempt(j, n) THEN outcome ELSE s[n]
  OBVIOUS
<1> QED BY <1>4, <1>5 DEF FinishAttempt

(* What recording events does to the trail of one job.                       *)
LEMMA RecordFacts ==
    ASSUME TypeOK, NEW j \in Jobs, NEW kind \in EventTypes, NEW new \in JobStatuses
    PROVE  /\ Record(j, kind, new) \in Seq(EventRecords)
           /\ RecordAndRelease(j, kind, new) \in Seq(EventRecords)
<1>1. audit[j] \in Seq(EventRecords) /\ status[j] \in JobStatuses \cup {"absent"}
  BY DEF TypeOK, EventRecords
<1>2. Event(kind, status[j], new) \in EventRecords
  BY <1>1 DEF Event, EventRecords
<1>3. Event("released", new, new) \in EventRecords
  BY DEF Event, EventRecords
<1>4. Record(j, kind, new) \in Seq(EventRecords)
  <2> HIDE DEF EventRecords
  <2> QED BY <1>1, <1>2 DEF Record
<1>5. Append(Record(j, kind, new), Event("released", new, new)) \in Seq(EventRecords)
  <2> HIDE DEF EventRecords
  <2> QED BY <1>3, <1>4
<1> QED BY <1>4, <1>5 DEF RecordAndRelease

(* Types are preserved.  The expiry of a reservation records the status its  *)
(* job is left in, so it needs to know that a job that does not exist holds  *)
(* none.                                                                     *)
LEMMA TypeStep == TypeOK /\ ReservationFollowsWork /\ [Next]_vars => TypeOK'
<1> SUFFICES ASSUME TypeOK, ReservationFollowsWork, [Next]_vars PROVE TypeOK'
  OBVIOUS
<1> USE DEF jobVars, envVars
<1>a. audit \in [Jobs -> Seq(EventRecords)]
  BY DEF TypeOK, EventRecords
<1>1. ASSUME NEW d \in Documents, CreateJob(d) PROVE TypeOK'
  <2>1. PICK j \in Jobs :
          /\ status' = [status EXCEPT ![j] = "new"]
          /\ document' = [document EXCEPT ![j] = d]
          /\ audit' = [audit EXCEPT ![j] = Append(audit[j], Event("created", "absent", "new"))]
    BY <1>1 DEF CreateJob
  <2>2. Event("created", "absent", "new") \in EventRecords
    BY DEF Event, EventRecords
  <2>3. audit' \in [Jobs -> Seq(EventRecords)]
    <3> HIDE DEF EventRecords
    <3> QED BY <1>a, <2>1, <2>2
  <2> QED BY <1>1, <2>1, <2>3 DEF CreateJob, TypeOK, EventRecords
<1>2. ASSUME NEW d \in Documents, RegistryChange(d) PROVE TypeOK'
  BY <1>2 DEF RegistryChange, TypeOK
<1>3. ASSUME NEW n \in Nodes, HeartbeatNode(n) PROVE TypeOK'
  BY <1>3 DEF HeartbeatNode, TypeOK
<1>4. ASSUME NEW n \in Nodes, NEW active \in BOOLEAN, RegisterProcessingNode(n, active) PROVE TypeOK'
  BY <1>4 DEF RegisterProcessingNode, TypeOK
<1>5. ASSUME NEW j \in Jobs, QueueJob(j) PROVE TypeOK'
  <2>1. Record(j, "queued", "queued") \in Seq(EventRecords)
    BY RecordFacts
  <2> QED BY <1>5, <2>1 DEF QueueJob, Transition, TypeOK, EventRecords
<1>6. ASSUME NEW j \in Jobs, NEW n \in Nodes, NEW ttl \in TTLs, ReserveJob(j, n, ttl) PROVE TypeOK'
  <2>1. Record(j, "reserved", "reserved") \in Seq(EventRecords)
    BY RecordFacts
  <2>2. [node |-> n, expiresAt |-> now + ttl] \in Reservations
    BY TTLsAssumption DEF TypeOK, Reservations
  <2> QED BY <1>6, <2>1, <2>2 DEF ReserveJob, Transition, TypeOK, EventRecords
<1>7. ASSUME NEW j \in Jobs, ReleaseJob(j) PROVE TypeOK'
  <2>1. Record(j, "released", "queued") \in Seq(EventRecords)
    BY RecordFacts
  <2> QED BY <1>7, <2>1 DEF ReleaseJob, Transition, TypeOK, EventRecords
<1>8. ASSUME NEW j \in Jobs, StartJob(j) PROVE TypeOK'
  <2>1. Record(j, "started", "running") \in Seq(EventRecords)
    BY RecordFacts
  <2>2. Append(attempts[j], "running") \in Seq(AttemptStatuses)
    BY DEF TypeOK
  <2> QED BY <1>8, <2>1, <2>2 DEF StartJob, Transition, TypeOK, EventRecords
<1>9. ASSUME NEW j \in Jobs, CompleteJob(j) PROVE TypeOK'
  <2>1. RecordAndRelease(j, "succeeded", "succeeded") \in Seq(EventRecords)
    BY RecordFacts
  <2>2. FinishAttempt(j, "success") \in Seq(AttemptStatuses)
    BY FinishAttemptFacts
  <2> QED BY <1>9, <2>1, <2>2 DEF CompleteJob, Transition, TypeOK, EventRecords
<1>10. ASSUME NEW j \in Jobs, FailJob(j) PROVE TypeOK'
  <2>1. RecordAndRelease(j, "failed", "failed") \in Seq(EventRecords)
    BY RecordFacts
  <2>2. FinishAttempt(j, "failed") \in Seq(AttemptStatuses)
    BY FinishAttemptFacts
  <2> QED BY <1>10, <2>1, <2>2 DEF FailJob, Transition, TypeOK, EventRecords
<1>11. ASSUME NEW j \in Jobs, NEW limit \in RetryLimits, RetryJob(j, limit) PROVE TypeOK'
  <2>1. Record(j, "retried", "retrying") \in Seq(EventRecords)
    BY RecordFacts
  <2> QED BY <1>11, <2>1 DEF RetryJob, Transition, TypeOK, EventRecords
<1>12. ASSUME NEW j \in Jobs, CancelJob(j) PROVE TypeOK'
  <2>1. RecordAndRelease(j, "cancelled", "cancelled") \in Seq(EventRecords)
    BY RecordFacts
  <2>2. FinishAttempt(j, "failed") \in Seq(AttemptStatuses)
    BY FinishAttemptFacts
  <2> QED BY <1>12, <2>1, <2>2 DEF CancelJob, Transition, TypeOK, EventRecords
<1>13. ASSUME CleanupExpiredReservations PROVE TypeOK'
  <2>1. ASSUME NEW j \in Jobs PROVE FinishAttempt(j, "failed") \in Seq(AttemptStatuses)
    BY FinishAttemptFacts
  <2>2. ASSUME NEW j \in Jobs, Expired(j)
        PROVE  /\ StatusAfterExpiry(status[j]) \in JobStatuses
               /\ AuditAfterExpiry(j) \in Seq(EventRecords)
    <3>1. status[j] \in JobStatuses /\ StatusAfterExpiry(status[j]) \in JobStatuses
      BY <2>2 DEF Expired, ReservationFollowsWork, StatusAfterExpiry
    <3> QED BY <3>1, RecordFacts DEF AuditAfterExpiry
  <2>3. audit' \in [Jobs -> Seq(EventRecords)]
    BY <1>13, <1>a, <2>2 DEF CleanupExpiredReservations
  <2>4. status' \in [Jobs -> JobStatuses \cup {"absent"}]
    BY <1>13, <2>2 DEF CleanupExpiredReservations, TypeOK
  <2>5. attempts' \in [Jobs -> Seq(AttemptStatuses)]
    BY <1>13, <2>1 DEF CleanupExpiredReservations, TypeOK
  <2>6. /\ completedAt' \in [Jobs -> BOOLEAN]
        /\ lastError' \in [Jobs -> BOOLEAN]
        /\ reservation' \in [Jobs -> Reservations \cup {None}]
    BY <1>13, Zenon DEF CleanupExpiredReservations, TypeOK
  <2> QED BY <1>13, <2>3, <2>4, <2>5, <2>6 DEF CleanupExpiredReservations, TypeOK, EventRecords
<1>14. CASE Tick
  BY <1>14 DEF Tick, TypeOK
<1>15. CASE UNCHANGED vars
  BY <1>15 DEF vars, TypeOK
<1> QED BY <1>1, <1>2, <1>3, <1>4, <1>5, <1>6, <1>7, <1>8, <1>9, <1>10, <1>11, <1>12, <1>13,
           <1>14, <1>15 DEF Next

(* No step takes the reservation from work under way or leaves one on a job  *)
(* that has ended.                                                           *)
LEMMA ReservationStep == TypeOK /\ ReservationFollowsWork /\ [Next]_vars => ReservationFollowsWork'
<1> SUFFICES ASSUME TypeOK, ReservationFollowsWork, [Next]_vars PROVE ReservationFollowsWork'
  OBVIOUS
<1> USE DEF jobVars, envVars, TypeOK, ReservationFollowsWork, LegalTransitions, Transition
<1>1. ASSUME NEW d \in Documents, CreateJob(d) PROVE ReservationFollowsWork'
  BY <1>1 DEF CreateJob
<1>2. ASSUME NEW j \in Jobs, QueueJob(j) PROVE ReservationFollowsWork'
  BY <1>2 DEF QueueJob
<1>3. ASSUME NEW j \in Jobs, NEW n \in Nodes, NEW ttl \in TTLs, ReserveJob(j, n, ttl)
      PROVE  ReservationFollowsWork'
  <2>1. [node |-> n, expiresAt |-> now + ttl] # None
    BY TTLsAssumption, NoneAssumption
  <2> QED BY <1>3, <2>1 DEF ReserveJob
<1>4. ASSUME NEW j \in Jobs, ReleaseJob(j) PROVE ReservationFollowsWork'
  BY <1>4 DEF ReleaseJob
<1>5. ASSUME NEW j \in Jobs, StartJob(j) PROVE ReservationFollowsWork'
  BY <1>5 DEF StartJob
<1>6. ASSUME NEW j \in Jobs, CompleteJob(j) \/ FailJob(j) \/ CancelJob(j) PROVE ReservationFollowsWork'
  BY <1>6 DEF CompleteJob, FailJob, CancelJob
<1>7. ASSUME NEW j \in Jobs, NEW limit \in RetryLimits, RetryJob(j, limit) PROVE ReservationFollowsWork'
  BY <1>7 DEF RetryJob
<1>8. CASE CleanupExpiredReservations
  BY <1>8 DEF CleanupExpiredReservations, Expired, StatusAfterExpiry
<1>9. ASSUME UNCHANGED <<status, reservation>> PROVE ReservationFollowsWork'
  BY <1>9
<1> QED
  BY <1>1, <1>2, <1>3, <1>4, <1>5, <1>6, <1>7, <1>8, <1>9
     DEF Next, vars, RegistryChange, HeartbeatNode, RegisterProcessingNode, Tick

(* Every variable keeps its type, and a reservation is active exactly as     *)
(* long as the work it was taken for, whatever sequence of service calls is  *)
(* made.                                                                     *)
THEOREM ReservationsCorrect == Spec => [](TypeOK /\ ReservationFollowsWork)
<1>1. Init => TypeOK /\ ReservationFollowsWork
  BY NoneAssumption DEF Init, TypeOK, Reservations, ReservationFollowsWork
<1> QED BY <1>1, TypeStep, ReservationStep, PTL DEF Spec

(* Among the types: the reservation of a job is None or a row of a node and  *)
(* an expiry, so that releasing one is always told from holding one.         *)
THEOREM TypesAreKept == Spec => []TypeOK
  BY ReservationsCorrect, PTL

-----------------------------------------------------------------------------
(* With one running attempt, the last, finishing it leaves none.             *)
LEMMA FinishLastAttempt ==
    ASSUME TypeOK, NEW j \in Jobs, NEW outcome \in {"success", "failed"},
           RunningAttempts(j) = {Len(attempts[j])}
    PROVE  /\ Len(attempts[j]) \in 1..Len(attempts[j])
           /\ \A n \in 1..Len(attempts[j]) :
                /\ attempts[j][n] = "running" <=> n = Len(attempts[j])
                /\ FinishAttempt(j, outcome)[n] =
                     IF n = Len(attempts[j]) THEN outcome ELSE attempts[j][n]
<1>1. attempts[j] \in Seq(AttemptStatuses) /\ DOMAIN attempts[j] = 1..Len(attempts[j])
  BY DEF TypeOK
<1>2. /\ Len(attempts[j]) \in 1..Len(attempts[j])
      /\ \A n \in 1..Len(attempts[j]) : attempts[j][n] = "running" <=> n = Len(attempts[j])
  BY <1>1 DEF RunningAttempts
<1>3. \A n \in 1..Len(attempts[j]) : IsRunningAttempt(j, n) <=> n = Len(attempts[j])
  BY <1>1, <1>2 DEF IsRunningAttempt
<1> QED BY <1>2, <1>3, FinishAttemptFacts

Matches(j) == RunningAttempts(j) = IF status[j] = "running" THEN {Len(attempts[j])} ELSE {}

(* Start opens the one running attempt and every end of work closes it.      *)
LEMMA AttemptStep == TypeOK /\ AttemptMatchesStatus /\ [Next]_vars => AttemptMatchesStatus'
<1> SUFFICES ASSUME TypeOK, AttemptMatchesStatus, [Next]_vars PROVE AttemptMatchesStatus'
  OBVIOUS
<1> USE DEF jobVars, envVars
<1>a. \A j \in Jobs : Matches(j)
  BY DEF AttemptMatchesStatus, Matches
<1>b. ASSUME NEW j \in Jobs, attempts'[j] = attempts[j], status'[j] = "running" <=> status[j] = "running"
      PROVE  Matches(j)'
  BY <1>a, <1>b DEF RunningAttempts, Matches
<1>c. ASSUME NEW j \in Jobs, status[j] = "running", status'[j] # "running",
             NEW outcome \in {"success", "failed"}, attempts'[j] = FinishAttempt(j, outcome)
      PROVE  Matches(j)'
  <2>1. RunningAttempts(j) = {Len(attempts[j])}
    BY <1>a, <1>c DEF Matches
  <2>2. DOMAIN attempts'[j] = 1..Len(attempts[j])
    BY <1>c, FinishAttemptFacts
  <2>3. \A n \in DOMAIN attempts'[j] : attempts'[j][n] # "running"
    BY <1>c, <2>1, <2>2, FinishLastAttempt
  <2> QED BY <1>c, <2>3 DEF RunningAttempts, Matches
<1>d. (\A j \in Jobs : Matches(j)') => AttemptMatchesStatus'
  BY DEF AttemptMatchesStatus, Matches
<1>1. ASSUME NEW d \in Documents, CreateJob(d) PROVE AttemptMatchesStatus'
  BY <1>1, <1>b, <1>d DEF CreateJob, TypeOK
<1>2. ASSUME NEW j \in Jobs, StartJob(j) PROVE AttemptMatchesStatus'
  <2>1. ASSUME NEW k \in Jobs, k # j PROVE Matches(k)'
    BY <1>2, <1>b, <2>1 DEF StartJob, Transition, TypeOK
  <2>2. attempts'[j] = Append(attempts[j], "running") /\ status'[j] = "running" /\ status[j] # "running"
    BY <1>2 DEF StartJob, Transition, TypeOK
  <2>3. attempts[j] \in Seq(AttemptStatuses) /\ \A n \in 1..Len(attempts[j]) : attempts[j][n] # "running"
    BY <1>a, <2>2 DEF TypeOK, RunningAttempts, Matches
  <2>4. RunningAttempts(j)' = {Len(attempts'[j])}
    BY <2>2, <2>3 DEF RunningAttempts
  <2> QED BY <1>d, <2>1, <2>2, <2>4 DEF Matches
<1>3. ASSUME NEW j \in Jobs,
             \/ QueueJob(j)
             \/ \E n \in Nodes, ttl \in TTLs : ReserveJob(j, n, ttl)
             \/ ReleaseJob(j)
             \/ \E limit \in RetryLimits : RetryJob(j, limit)
             \/ (CancelJob(j) /\ status[j] # "running")
      PROVE  AttemptMatchesStatus'
  <2>1. attempts' = attempts \/ attempts' = [attempts EXCEPT ![j] = attempts[j]]
    BY <1>3 DEF QueueJob, ReserveJob, ReleaseJob, RetryJob, CancelJob
  <2>2. attempts' = attempts
    BY <2>1 DEF TypeOK
  <2>3. \A k \in Jobs : status'[k] = "running" <=> status[k] = "running"
    BY <1>3 DEF QueueJob, ReserveJob, ReleaseJob, RetryJob, CancelJob, Transition, LegalTransitions, TypeOK
  <2> QED BY <1>b, <1>d, <2>2, <2>3
<1>4. ASSUME NEW j \in Jobs, CompleteJob(j) \/ FailJob(j) \/ (CancelJob(j) /\ status[j] = "running")
      PROVE  AttemptMatchesStatus'
  <2>1. ASSUME NEW k \in Jobs, k # j PROVE Matches(k)'
    BY <1>4, <1>b, <2>1 DEF CompleteJob, FailJob, CancelJob, Transition, TypeOK
  <2>2. /\ status[j] = "running" /\ status'[j] # "running"
        /\ \E outcome \in {"success", "failed"} : attempts'[j] = FinishAttempt(j, outcome)
    BY <1>4 DEF CompleteJob, FailJob, CancelJob, Transition, TypeOK
  <2> QED BY <1>c, <1>d, <2>1, <2>2
<1>5. ASSUME CleanupExpiredReservations PROVE AttemptMatchesStatus'
  <2> SUFFICES ASSUME NEW j \in Jobs PROVE Matches(j)'
    BY <1>d
  <2>1. CASE Expired(j) /\ status[j] = "running"
    BY <1>5, <1>c, <2>1 DEF CleanupExpiredReservations, StatusAfterExpiry
  <2>2. CASE ~(Expired(j) /\ status[j] = "running")
    BY <1>5, <1>b, <2>2 DEF CleanupExpiredReservations, StatusAfterExpiry
  <2> QED BY <2>1, <2>2
<1>6. ASSUME UNCHANGED <<status, attempts>> PROVE AttemptMatchesStatus'
  BY <1>6, <1>b, <1>d
<1>7. ASSUME NEW j \in Jobs, CancelJob(j) PROVE AttemptMatchesStatus'
  BY <1>3, <1>4, <1>7
<1> QED
  BY <1>1, <1>2, <1>3, <1>4, <1>5, <1>6, <1>7
     DEF Next, vars, RegistryChange, HeartbeatNode, RegisterProcessingNode, Tick

(* Exactly one attempt runs while its job runs, and it is the last one.      *)
THEOREM AttemptsCorrect == Spec => []AttemptMatchesStatus
<1>1. Init => AttemptMatchesStatus
  BY DEF Init, AttemptMatchesStatus, RunningAttempts
<1> QED BY <1>1, AttemptStep, ReservationsCorrect, PTL DEF Spec

-----------------------------------------------------------------------------
(* Only create_job makes a job active, and it looks for another one first.   *)
LEMMA OneActiveStep == TypeOK /\ OneActiveJobPerDocument /\ [Next]_vars => OneActiveJobPerDocument'
<1> SUFFICES ASSUME TypeOK, OneActiveJobPerDocument, [Next]_vars PROVE OneActiveJobPerDocument'
  OBVIOUS
<1> USE DEF jobVars, envVars
<1>a. ASSUME document' = document,
             \A j \in Jobs : status'[j] \in ActiveJobStatuses => status[j] \in ActiveJobStatuses
      PROVE  OneActiveJobPerDocument'
  BY <1>a DEF OneActiveJobPerDocument
<1>1. ASSUME NEW d \in Documents, CreateJob(d) PROVE OneActiveJobPerDocument'
  <2>1. PICK j \in Jobs :
          /\ status[j] = "absent"
          /\ status' = [status EXCEPT ![j] = "new"]
          /\ document' = [document EXCEPT ![j] = d]
    BY <1>1 DEF CreateJob
  <2>2. \A k \in Jobs : document[k] = d => status[k] \notin ActiveJobStatuses
    BY <1>1 DEF CreateJob
  <2>3. status'[j] = "new" /\ document'[j] = d
    BY <2>1 DEF TypeOK
  <2>4. \A k \in Jobs \ {j} : status'[k] = status[k] /\ document'[k] = document[k]
    BY <2>1 DEF TypeOK
  <2> QED BY <2>2, <2>3, <2>4 DEF OneActiveJobPerDocument
<1>2. ASSUME NEW j \in Jobs,
             \/ QueueJob(j)
             \/ \E n \in Nodes, ttl \in TTLs : ReserveJob(j, n, ttl)
             \/ ReleaseJob(j) \/ StartJob(j) \/ CompleteJob(j) \/ FailJob(j)
             \/ \E limit \in RetryLimits : RetryJob(j, limit)
             \/ CancelJob(j)
      PROVE  OneActiveJobPerDocument'
  <2>1. document' = document
    BY <1>2 DEF QueueJob, ReserveJob, ReleaseJob, StartJob, CompleteJob, FailJob, RetryJob, CancelJob
  <2>2. \E new : Transition(j, new)
    BY <1>2 DEF QueueJob, ReserveJob, ReleaseJob, StartJob, CompleteJob, FailJob, RetryJob, CancelJob
  <2>3. \A k \in Jobs : status'[k] \in ActiveJobStatuses => status[k] \in ActiveJobStatuses
    BY <2>2 DEF Transition, LegalTransitions, TypeOK
  <2> QED BY <1>a, <2>1, <2>3
<1>3. CASE CleanupExpiredReservations
  BY <1>a, <1>3 DEF CleanupExpiredReservations, StatusAfterExpiry
<1>4. ASSUME UNCHANGED <<status, document>> PROVE OneActiveJobPerDocument'
  BY <1>a, <1>4
<1> QED
  BY <1>1, <1>2, <1>3, <1>4
     DEF Next, vars, RegistryChange, HeartbeatNode, RegisterProcessingNode, Tick

(* No sequence of calls gives a document two active jobs.                    *)
THEOREM OneActiveJob == Spec => []OneActiveJobPerDocument
<1>1. Init => OneActiveJobPerDocument
  BY DEF Init, OneActiveJobPerDocument
<1> QED BY <1>1, OneActiveStep, ReservationsCorrect, PTL DEF Spec

-----------------------------------------------------------------------------
(* A job that has ended is never changed again: its status allows no         *)
(* transition, and it holds no reservation whose expiry could touch it.      *)
TerminalUnchanged ==
    \A j \in Jobs : Terminal(j) =>
      /\ status'[j] = status[j]
      /\ attempts'[j] = attempts[j]
      /\ reservation'[j] = reservation[j]
      /\ audit'[j] = audit[j]
      /\ lastError'[j] = lastError[j]

LEMMA TerminalStep == TypeOK /\ ReservationFollowsWork /\ [Next]_vars => TerminalUnchanged
<1> SUFFICES ASSUME TypeOK, ReservationFollowsWork, [Next]_vars PROVE TerminalUnchanged
  OBVIOUS
<1> USE DEF jobVars, envVars, TerminalUnchanged, Terminal
<1>1. ASSUME NEW d \in Documents, CreateJob(d) PROVE TerminalUnchanged
  BY <1>1 DEF CreateJob, TypeOK
<1>2. ASSUME NEW j \in Jobs,
             \/ QueueJob(j)
             \/ \E n \in Nodes, ttl \in TTLs : ReserveJob(j, n, ttl)
             \/ ReleaseJob(j) \/ StartJob(j) \/ CompleteJob(j) \/ FailJob(j)
             \/ \E limit \in RetryLimits : RetryJob(j, limit)
             \/ CancelJob(j)
      PROVE  TerminalUnchanged
  <2>1. ~Terminal(j)
    BY <1>2 DEF QueueJob, ReserveJob, ReleaseJob, StartJob, CompleteJob, FailJob, RetryJob, CancelJob,
                Transition, LegalTransitions
  <2>2. ASSUME NEW k \in Jobs, k # j
        PROVE  /\ status'[k] = status[k] /\ attempts'[k] = attempts[k] /\ audit'[k] = audit[k]
               /\ reservation'[k] = reservation[k] /\ lastError'[k] = lastError[k]
    BY <1>2, <2>2 DEF QueueJob, ReserveJob, ReleaseJob, StartJob, CompleteJob, FailJob, RetryJob,
                      CancelJob, Transition, TypeOK
  <2> QED BY <2>1, <2>2
<1>3. ASSUME CleanupExpiredReservations PROVE TerminalUnchanged
  <2>1. \A j \in Jobs : Terminal(j) => ~Expired(j)
    BY DEF ReservationFollowsWork, Expired
  <2> QED BY <1>3, <2>1 DEF CleanupExpiredReservations, TypeOK
<1>4. ASSUME UNCHANGED jobVars PROVE TerminalUnchanged
  BY <1>4
<1> QED
  BY <1>1, <1>2, <1>3, <1>4
     DEF Next, vars, RegistryChange, HeartbeatNode, RegisterProcessingNode, Tick

(* "Terminal succeeded and cancelled jobs cannot transition", for operations *)
(* taken as whole transactions.                                              *)
THEOREM TerminalJobsAreFinal == Spec => TerminalIsFinal
<1>1. TypeOK /\ ReservationFollowsWork /\ [Next]_vars => [TerminalUnchanged]_vars
  BY TerminalStep
<1> QED BY <1>1, ReservationsCorrect, PTL DEF Spec, TerminalIsFinal, TerminalUnchanged
-----------------------------------------------------------------------------

(* A trail replays to a status: it starts from the row's creation, each      *)
(* event takes up the status the one before it left, and so on to the last.  *)
Replays(s, last) ==
    /\ last = IF s = <<>> THEN "absent" ELSE s[Len(s)].new
    /\ \A i \in 1..Len(s) : s[i].previous = IF i = 1 THEN "absent" ELSE s[i - 1].new

(* A trail that replays to the status an event took up replays to the status *)
(* the event left.                                                           *)
LEMMA ReplayAppend ==
    ASSUME NEW s \in Seq(EventRecords), NEW e \in EventRecords, Replays(s, e.previous)
    PROVE  Replays(Append(s, e), e.new)
<1> DEFINE n == Len(s) + 1
           t == Append(s, e)
<1>1. Len(s) \in Nat /\ (s = <<>> <=> Len(s) = 0)
  OBVIOUS
<1>2. Len(t) = n /\ t # <<>> /\ t[n] = e /\ \A i \in 1..Len(s) : t[i] = s[i]
  <2> HIDE DEF EventRecords
  <2> QED OBVIOUS
<1>3. t[n].previous = IF n = 1 THEN "absent" ELSE t[n - 1].new
  BY <1>1, <1>2 DEF Replays
<1>4. \A i \in 1..Len(s) : t[i].previous = IF i = 1 THEN "absent" ELSE t[i - 1].new
  <2> HIDE DEF t
  <2> QED BY <1>1, <1>2 DEF Replays
<1> HIDE DEF t
<1>5. \A i \in 1..Len(t) : i = n \/ i \in 1..Len(s)
  BY <1>1, <1>2
<1>6. \A i \in 1..Len(t) : t[i].previous = IF i = 1 THEN "absent" ELSE t[i - 1].new
  BY <1>3, <1>4, <1>5
<1>7. Replays(t, e.new)
  BY <1>2, <1>6 DEF Replays
<1> QED BY <1>7 DEF t

(* What is recorded takes up the status of the job.                          *)
LEMMA RecordReplays ==
    ASSUME TypeOK, NEW j \in Jobs, NEW kind \in EventTypes, NEW new \in JobStatuses,
           Replays(audit[j], status[j])
    PROVE  Replays(Record(j, kind, new), new) /\ Replays(RecordAndRelease(j, kind, new), new)
<1>1. audit[j] \in Seq(EventRecords) /\ status[j] \in JobStatuses \cup {"absent"}
  BY DEF TypeOK, EventRecords
<1>2. /\ Event(kind, status[j], new) \in EventRecords
      /\ Event(kind, status[j], new).previous = status[j]
      /\ Event(kind, status[j], new).new = new
  BY <1>1 DEF Event, EventRecords
<1>3. /\ Event("released", new, new) \in EventRecords
      /\ Event("released", new, new).previous = new
      /\ Event("released", new, new).new = new
  BY DEF Event, EventRecords, EventTypes
<1>4. Replays(Record(j, kind, new), new)
  BY <1>1, <1>2, ReplayAppend DEF Record
<1>5. Record(j, kind, new) \in Seq(EventRecords)
  BY RecordFacts
<1>6. Replays(Append(Record(j, kind, new), Event("released", new, new)), new)
  BY <1>3, <1>4, <1>5, ReplayAppend
<1> QED BY <1>4, <1>6 DEF RecordAndRelease

(* Every step that changes a job records what it did, in the same step.      *)
Recorded(j) ==
    \/ status'[j] = status[j] /\ audit'[j] = audit[j]
    \/ /\ status'[j] \in JobStatuses
       /\ \E kind \in EventTypes : audit'[j] \in {Record(j, kind, status'[j]),
                                                  RecordAndRelease(j, kind, status'[j])}

LEMMA ChangesAreRecorded ==
    ASSUME TypeOK, ReservationFollowsWork, [Next]_vars, NEW j \in Jobs
    PROVE  Recorded(j)
<1> USE DEF jobVars, envVars, JobStatuses, EventTypes
<1>1. ASSUME NEW d \in Documents, CreateJob(d) PROVE Recorded(j)
  BY <1>1 DEF CreateJob, Record, Recorded, TypeOK
<1>2. ASSUME NEW k \in Jobs, NEW kind \in EventTypes, NEW new \in JobStatuses,
             status' = [status EXCEPT ![k] = new],
             \/ audit' = [audit EXCEPT ![k] = Record(k, kind, new)]
             \/ audit' = [audit EXCEPT ![k] = RecordAndRelease(k, kind, new)]
      PROVE  Recorded(j)
  <2>1. CASE k = j
    <3>1. /\ status'[j] = new
          /\ audit'[j] = Record(j, kind, new) \/ audit'[j] = RecordAndRelease(j, kind, new)
      BY <1>2, <2>1 DEF TypeOK
    <3> QED BY <3>1 DEF Recorded
  <2>2. CASE k # j
    BY <1>2, <2>2 DEF TypeOK, Recorded
  <2> QED BY <2>1, <2>2
<1>3. ASSUME NEW k \in Jobs,
             \/ QueueJob(k)
             \/ \E n \in Nodes, ttl \in TTLs : ReserveJob(k, n, ttl)
             \/ ReleaseJob(k) \/ StartJob(k) \/ CompleteJob(k) \/ FailJob(k)
             \/ \E limit \in RetryLimits : RetryJob(k, limit)
             \/ CancelJob(k)
      PROVE  Recorded(j)
  <2>1. PICK kind \in EventTypes, new \in JobStatuses :
          /\ status' = [status EXCEPT ![k] = new]
          /\ \/ audit' = [audit EXCEPT ![k] = Record(k, kind, new)]
             \/ audit' = [audit EXCEPT ![k] = RecordAndRelease(k, kind, new)]
    BY <1>3 DEF QueueJob, ReserveJob, ReleaseJob, StartJob, CompleteJob, FailJob, RetryJob,
                CancelJob, Transition
  <2> QED BY <1>2, <2>1
<1>4. ASSUME CleanupExpiredReservations PROVE Recorded(j)
  <2>1. CASE ~Expired(j)
    BY <1>4, <2>1 DEF CleanupExpiredReservations, Recorded
  <2>2. CASE Expired(j)
    <3>1. status'[j] = StatusAfterExpiry(status[j]) /\ audit'[j] = AuditAfterExpiry(j)
      BY <1>4, <2>2 DEF CleanupExpiredReservations
    <3>2. status'[j] \in JobStatuses
      BY <2>2, <3>1 DEF Expired, ReservationFollowsWork, StatusAfterExpiry
    <3> QED BY <3>1, <3>2 DEF AuditAfterExpiry, Recorded
  <2> QED BY <2>1, <2>2
<1>5. ASSUME UNCHANGED jobVars PROVE Recorded(j)
  BY <1>5 DEF Recorded
<1> QED
  BY <1>1, <1>3, <1>4, <1>5
     DEF Next, vars, RegistryChange, HeartbeatNode, RegisterProcessingNode, Tick

(* So the trail keeps replaying to the status.                               *)
LEMMA AuditStep ==
    TypeOK /\ ReservationFollowsWork /\ AuditReplaysStatus /\ [Next]_vars => AuditReplaysStatus'
<1> SUFFICES ASSUME TypeOK, ReservationFollowsWork, AuditReplaysStatus, [Next]_vars, NEW j \in Jobs
             PROVE  Replays(audit'[j], status'[j])
  BY DEF AuditReplaysStatus, Replays
<1>1. Replays(audit[j], status[j])
  BY DEF AuditReplaysStatus, Replays
<1>2. Recorded(j)
  BY ChangesAreRecorded
<1>3. CASE status'[j] = status[j] /\ audit'[j] = audit[j]
  BY <1>1, <1>3
<1>4. ASSUME status'[j] \in JobStatuses, NEW kind \in EventTypes,
             audit'[j] \in {Record(j, kind, status'[j]), RecordAndRelease(j, kind, status'[j])}
      PROVE  Replays(audit'[j], status'[j])
  BY <1>1, <1>4, RecordReplays
<1> QED BY <1>2, <1>3, <1>4 DEF Recorded

-----------------------------------------------------------------------------
(* Whether the latest attempt failed, and what last_error may say then.      *)
LastFailed(s) == s # <<>> /\ s[Len(s)] = "failed"
ErrorFits(j) == (status[j] = "failed" => lastError[j]) /\ (lastError[j] => LastFailed(attempts[j]))

(* A job at work has no error: its latest attempt is the one that runs.      *)
LEMMA RunningHasNoError ==
    ASSUME TypeOK, AttemptMatchesStatus, NEW j \in Jobs, status[j] = "running", ErrorFits(j)
    PROVE  ~lastError[j]
<1>1. RunningAttempts(j) = {Len(attempts[j])}
  BY DEF AttemptMatchesStatus
<1>2. attempts[j][Len(attempts[j])] = "running"
  BY <1>1 DEF RunningAttempts
<1> QED BY <1>2 DEF ErrorFits, LastFailed

(* What failed is the latest attempt.                                        *)
LEMMA FailingFailsTheLast ==
    ASSUME TypeOK, AttemptMatchesStatus, NEW j \in Jobs, status[j] = "running"
    PROVE  LastFailed(FinishAttempt(j, "failed"))
<1>1. RunningAttempts(j) = {Len(attempts[j])}
  BY DEF AttemptMatchesStatus
<1>2. /\ FinishAttempt(j, "failed") \in Seq(AttemptStatuses)
      /\ Len(FinishAttempt(j, "failed")) = Len(attempts[j])
  BY FinishAttemptFacts DEF AttemptStatuses
<1>3. /\ Len(attempts[j]) \in 1..Len(attempts[j])
      /\ FinishAttempt(j, "failed")[Len(attempts[j])] = "failed"
  BY <1>1, FinishLastAttempt
<1>4. FinishAttempt(j, "failed") # <<>>
  BY <1>2, <1>3
<1> QED BY <1>2, <1>3, <1>4 DEF LastFailed

(* Starting clears the error, failing sets it, and no other step tells two   *)
(* stories about the latest attempt.                                         *)
LEMMA ErrorStep ==
    TypeOK /\ AttemptMatchesStatus /\ LastErrorDescribesLastAttempt /\ [Next]_vars
      => LastErrorDescribesLastAttempt'
<1> SUFFICES ASSUME TypeOK, AttemptMatchesStatus, LastErrorDescribesLastAttempt, [Next]_vars,
                    NEW j \in Jobs
             PROVE  ErrorFits(j)'
  BY DEF LastErrorDescribesLastAttempt, ErrorFits, LastFailed
<1> USE DEF jobVars, envVars
<1>a. ErrorFits(j)
  BY DEF LastErrorDescribesLastAttempt, ErrorFits, LastFailed
<1>b. ASSUME lastError'[j] = lastError[j], attempts'[j] = attempts[j],
             status'[j] # "failed" \/ status'[j] = status[j]
      PROVE  ErrorFits(j)'
  BY <1>a, <1>b DEF ErrorFits
<1>c. ASSUME ~lastError'[j], status'[j] # "failed" PROVE ErrorFits(j)'
  BY <1>c DEF ErrorFits
<1>d. ASSUME status[j] = "running", attempts'[j] = FinishAttempt(j, "failed"), lastError'[j]
      PROVE  ErrorFits(j)'
  BY <1>d, FailingFailsTheLast DEF ErrorFits
<1>1. ASSUME NEW d \in Documents, CreateJob(d) PROVE ErrorFits(j)'
  BY <1>1, <1>b DEF CreateJob, TypeOK
<1>2. ASSUME NEW k \in Jobs,
             \/ QueueJob(k)
             \/ \E n \in Nodes, ttl \in TTLs : ReserveJob(k, n, ttl)
             \/ ReleaseJob(k) \/ StartJob(k) \/ CompleteJob(k) \/ FailJob(k)
             \/ \E limit \in RetryLimits : RetryJob(k, limit)
             \/ CancelJob(k)
      PROVE  ErrorFits(j)'
  <2>1. CASE k # j
    <3>1. lastError'[j] = lastError[j] /\ attempts'[j] = attempts[j] /\ status'[j] = status[j]
      BY <1>2, <2>1 DEF QueueJob, ReserveJob, ReleaseJob, StartJob, CompleteJob, FailJob, RetryJob,
                        CancelJob, Transition, TypeOK
    <3> QED BY <1>b, <3>1
  <2>2. CASE /\ k = j
             /\ \/ QueueJob(j)
                \/ \E n \in Nodes, ttl \in TTLs : ReserveJob(j, n, ttl)
                \/ ReleaseJob(j)
                \/ \E limit \in RetryLimits : RetryJob(j, limit)
                \/ CancelJob(j) /\ status[j] # "running"
    <3>1. lastError'[j] = lastError[j] /\ attempts'[j] = attempts[j] /\ status'[j] # "failed"
      BY <2>2 DEF QueueJob, ReserveJob, ReleaseJob, RetryJob, CancelJob, Transition, TypeOK
    <3> QED BY <1>b, <3>1
  <2>3. CASE k = j /\ (StartJob(j) \/ CompleteJob(j) \/ (CancelJob(j) /\ status[j] = "running"))
    <3>1. ~lastError'[j] /\ status'[j] # "failed"
      BY <2>3, <1>a, RunningHasNoError DEF StartJob, CompleteJob, CancelJob, Transition, TypeOK
    <3> QED BY <1>c, <3>1
  <2>4. CASE k = j /\ FailJob(j)
    <3>1. status[j] = "running" /\ attempts'[j] = FinishAttempt(j, "failed") /\ lastError'[j]
      BY <2>4 DEF FailJob, TypeOK
    <3> QED BY <1>d, <3>1
  <2> QED BY <1>2, <2>1, <2>2, <2>3, <2>4
<1>3. ASSUME CleanupExpiredReservations PROVE ErrorFits(j)'
  <2>1. CASE Expired(j) /\ status[j] = "running"
    <3>1. attempts'[j] = FinishAttempt(j, "failed") /\ lastError'[j]
      BY <1>3, <2>1 DEF CleanupExpiredReservations
    <3> QED BY <1>d, <2>1, <3>1
  <2>2. CASE ~(Expired(j) /\ status[j] = "running")
    <3>1. attempts'[j] = attempts[j]
      BY <1>3, <2>2 DEF CleanupExpiredReservations
    <3>2. lastError'[j] = lastError[j]
      BY <1>3, <2>2 DEF CleanupExpiredReservations, TypeOK
    <3>3. status'[j] # "failed" \/ status'[j] = status[j]
      BY <1>3, <2>2 DEF CleanupExpiredReservations, StatusAfterExpiry
    <3> QED BY <1>b, <3>1, <3>2, <3>3
  <2> QED BY <2>1, <2>2
<1>4. ASSUME UNCHANGED jobVars PROVE ErrorFits(j)'
  BY <1>4, <1>b
<1> QED
  BY <1>1, <1>2, <1>3, <1>4
     DEF Next, vars, RegistryChange, HeartbeatNode, RegisterProcessingNode, Tick

(* The audit trail replays to the status of its job and last_error tells of  *)
(* its latest attempt, after every sequence of calls: every operation writes *)
(* its event and its error in the transaction that moves the job.            *)
THEOREM RecordsCorrect == Spec => []RecordsFollowStatus
<1>1. Init => AuditReplaysStatus /\ LastErrorDescribesLastAttempt
  BY DEF Init, AuditReplaysStatus, LastErrorDescribesLastAttempt
<1> QED
  BY <1>1, AuditStep, ErrorStep, ReservationsCorrect, AttemptsCorrect, PTL
     DEF Spec, RecordsFollowStatus
-----------------------------------------------------------------------------

(* The retries in a trail grow by one with a retried event, and not with     *)
(* another.                                                                  *)
Retried(s) == {i \in 1..Len(s) : s[i].event = "retried"}

LEMMA RetriedAppend ==
    ASSUME NEW s \in Seq(EventRecords), NEW e \in EventRecords
    PROVE  /\ Cardinality(Retried(s)) \in Nat
           /\ Cardinality(Retried(Append(s, e))) =
                IF e.event = "retried" THEN Cardinality(Retried(s)) + 1 ELSE Cardinality(Retried(s))
<1> DEFINE n == Len(s) + 1
<1>1. n \in Nat /\ Len(s) \in Nat
  OBVIOUS
<1>2. IsFiniteSet(Retried(s))
  <2>1. IsFiniteSet(1..Len(s))
    BY <1>1, FS_Interval
  <2>2. Retried(s) \in SUBSET (1..Len(s))
    BY DEF Retried
  <2> QED BY <2>1, <2>2, FS_Subset
<1>3. Cardinality(Retried(s)) \in Nat
  BY <1>2, FS_CardinalityType
<1>4. Len(Append(s, e)) = n /\ Append(s, e)[n] = e /\ \A i \in 1..Len(s) : Append(s, e)[i] = s[i]
  <2> HIDE DEF EventRecords
  <2> QED OBVIOUS
<1>5. n \notin Retried(s)
  BY <1>1 DEF Retried
<1>6. CASE e.event = "retried"
  <2>1. Retried(Append(s, e)) = Retried(s) \cup {n}
    BY <1>1, <1>4, <1>6 DEF Retried
  <2> QED BY <1>2, <1>3, <1>5, <1>6, <2>1, FS_AddElement
<1>7. CASE e.event # "retried"
  <2>1. Retried(Append(s, e)) = Retried(s)
    BY <1>1, <1>4, <1>7 DEF Retried
  <2> QED BY <1>3, <1>7, <2>1
<1> QED BY <1>6, <1>7

(* What recording events does to the retries used.                           *)
LEMMA RetriesAfterRecord ==
    ASSUME TypeOK, NEW j \in Jobs, NEW kind \in EventTypes, NEW new \in JobStatuses
    PROVE  /\ RetriesUsed(j) \in Nat
           /\ RetriesUsed(j) = Cardinality(Retried(audit[j]))
           /\ kind # "retried" =>
                /\ Cardinality(Retried(Record(j, kind, new))) = RetriesUsed(j)
                /\ Cardinality(Retried(RecordAndRelease(j, kind, new))) = RetriesUsed(j)
           /\ kind = "retried" => Cardinality(Retried(Record(j, kind, new))) = RetriesUsed(j) + 1
<1>1. audit[j] \in Seq(EventRecords) /\ status[j] \in JobStatuses \cup {"absent"}
  BY DEF TypeOK, EventRecords
<1>2. Event(kind, status[j], new) \in EventRecords /\ Event(kind, status[j], new).event = kind
  BY <1>1 DEF Event, EventRecords
<1>3. /\ Event("released", new, new) \in EventRecords
      /\ Event("released", new, new).event # "retried"
  BY DEF Event, EventRecords, EventTypes
<1>4. RetriesUsed(j) = Cardinality(Retried(audit[j]))
  BY DEF RetriesUsed, Retried
<1>5. Record(j, kind, new) \in Seq(EventRecords)
  BY RecordFacts
<1>6. /\ RetriesUsed(j) \in Nat
      /\ Cardinality(Retried(Record(j, kind, new))) =
           IF kind = "retried" THEN RetriesUsed(j) + 1 ELSE RetriesUsed(j)
  BY <1>1, <1>2, <1>4, RetriedAppend DEF Record
<1>7. Cardinality(Retried(Append(Record(j, kind, new), Event("released", new, new)))) =
        Cardinality(Retried(Record(j, kind, new)))
  BY <1>3, <1>5, RetriedAppend
<1> QED BY <1>4, <1>6, <1>7 DEF RecordAndRelease

-----------------------------------------------------------------------------
(* The job as JobLifecycle sees it.                                          *)
View(s, a, h, r) == [status |-> s, attempts |-> a, held |-> h, retries |-> r]
Image(j) == View(status[j], attempts[j], reservation[j] # None, RetriesUsed(j))

(* The two values of "held", as names the provers take for values.           *)
Held == TRUE
Free == FALSE

(* One field of the view changes at a time.                                  *)
LEMMA NewStatus ==
    ASSUME NEW s, NEW a, NEW h, NEW r, NEW x
    PROVE  View(x, a, h, r) = [View(s, a, h, r) EXCEPT !.status = x]
BY DEF View

LEMMA NewAttempts ==
    ASSUME NEW s, NEW a, NEW h, NEW r, NEW x
    PROVE  View(s, x, h, r) = [View(s, a, h, r) EXCEPT !.attempts = x]
BY DEF View

LEMMA NewHeld ==
    ASSUME NEW s, NEW a, NEW h, NEW r, NEW x
    PROVE  View(s, a, x, r) = [View(s, a, h, r) EXCEPT !.held = x]
BY DEF View

LEMMA NewRetries ==
    ASSUME NEW s, NEW a, NEW h, NEW r, NEW x
    PROVE  View(s, a, h, x) = [View(s, a, h, r) EXCEPT !.retries = x]
BY DEF View

(* The steps of JobLifecycle between two views, but for the end of work.     *)
LEMMA ViewSteps ==
    ASSUME NEW a, NEW h, NEW r
    PROVE  /\ Lifecycle!Step(View("absent", a, h, r), View("new", a, h, r))
           /\ \A s \in {"new", "reserved"} : Lifecycle!Step(View(s, a, h, r), View("queued", a, h, r))
           /\ \A s \in {"queued", "retrying"} :
                Lifecycle!Step(View(s, a, Free, r), View("reserved", a, Held, r))
           /\ \A s \in {"queued", "reserved"} :
                Lifecycle!Step(View(s, a, Held, r), View("queued", a, Free, r))
           /\ Lifecycle!Step(View("reserved", a, Held, r),
                             View("running", Append(a, "running"), Held, r))
           /\ Lifecycle!Step(View("failed", a, h, r), View("retrying", a, h, r + 1))
           /\ \A s \in {"new", "queued", "reserved", "failed", "retrying"} :
                Lifecycle!Step(View(s, a, h, r), View("cancelled", a, Free, r))
<1>1. Lifecycle!Step(View("absent", a, h, r), View("new", a, h, r))
  <2> DEFINE v == View("absent", a, h, r)
             w1 == View("new", a, h, r)
  <2>1. v.status = "absent"
    BY DEF View
  <2>2. w1 = [v EXCEPT !.status = "new"]
    BY NewStatus
  <2> HIDE DEF v, w1
  <2>3. w1 = [v EXCEPT !.status = "new"]
    BY <2>2
  <2>4. Lifecycle!Step(v, w1)
    BY <2>1, <2>3 DEF Lifecycle!Step
  <2> QED BY <2>4 DEF v, w1
<1>2. ASSUME NEW s \in {"new", "reserved"}
      PROVE  Lifecycle!Queue(View(s, a, h, r), View("queued", a, h, r))
  <2> DEFINE v == View(s, a, h, r)
             w1 == View("queued", a, h, r)
  <2>1. v.status = s
    BY DEF View
  <2>2. w1 = [v EXCEPT !.status = "queued"]
    BY NewStatus
  <2> HIDE DEF v, w1
  <2>3. w1 = [v EXCEPT !.status = "queued"]
    BY <2>2
  <2>4. Lifecycle!Queue(v, w1)
    BY <2>1, <2>3 DEF Lifecycle!Queue
  <2> QED BY <2>4 DEF v, w1
<1>3. ASSUME NEW s \in {"queued", "retrying"}
      PROVE  Lifecycle!Reserve(View(s, a, Free, r), View("reserved", a, Held, r))
  <2> DEFINE v == View(s, a, Free, r)
             w1 == View("reserved", a, Free, r)
             w2 == View("reserved", a, Held, r)
  <2>1. v.status = s /\ v.held = Free
    BY DEF View
  <2>2. /\ w1 = [v EXCEPT !.status = "reserved"]
        /\ w2 = [w1 EXCEPT !.held = Held]
    BY NewHeld, NewStatus
  <2> HIDE DEF v, w1, w2
  <2>3. w2 = [v EXCEPT !.status = "reserved", !.held = Held]
    BY <2>2
  <2>4. Lifecycle!Reserve(v, w2)
    BY <2>1, <2>3 DEF Lifecycle!Reserve, Held, Free
  <2> QED BY <2>4 DEF v, w2
<1>4. ASSUME NEW s \in {"queued", "reserved"}
      PROVE  Lifecycle!GiveBack(View(s, a, Held, r), View("queued", a, Free, r))
  <2> DEFINE v == View(s, a, Held, r)
             w1 == View("queued", a, Held, r)
             w2 == View("queued", a, Free, r)
  <2>1. v.status = s /\ v.held = Held
    BY DEF View
  <2>2. /\ w1 = [v EXCEPT !.status = "queued"]
        /\ w2 = [w1 EXCEPT !.held = Free]
    BY NewHeld, NewStatus
  <2> HIDE DEF v, w1, w2
  <2>3. w2 = [v EXCEPT !.status = "queued", !.held = Free]
    BY <2>2
  <2>4. Lifecycle!GiveBack(v, w2)
    BY <2>1, <2>3 DEF Lifecycle!GiveBack, Held, Free
  <2> QED BY <2>4 DEF v, w2
<1>5. ASSUME NEW b, b = Append(a, "running")
      PROVE  Lifecycle!Start(View("reserved", a, Held, r), View("running", b, Held, r))
  <2> DEFINE v == View("reserved", a, Held, r)
             w1 == View("running", a, Held, r)
             w2 == View("running", b, Held, r)
  <2>1. v.status = "reserved" /\ v.held = Held /\ v.attempts = a
    BY DEF View
  <2>2. /\ w1 = [v EXCEPT !.status = "running"]
        /\ w2 = [w1 EXCEPT !.attempts = b]
    BY NewAttempts, NewStatus
  <2> HIDE DEF v, w1, w2
  <2>3. w2 = [v EXCEPT !.status = "running", !.attempts = b]
    BY <2>2
  <2>4. Lifecycle!Start(v, w2)
    BY <1>5, <2>1, <2>3 DEF Lifecycle!Start, Held, Free
  <2> QED BY <2>4 DEF v, w2
<1>6. Lifecycle!Retry(View("failed", a, h, r), View("retrying", a, h, r + 1))
  <2> DEFINE v == View("failed", a, h, r)
             w1 == View("retrying", a, h, r)
             w2 == View("retrying", a, h, r + 1)
  <2>1. v.status = "failed" /\ v.retries = r
    BY DEF View
  <2>2. /\ w1 = [v EXCEPT !.status = "retrying"]
        /\ w2 = [w1 EXCEPT !.retries = r + 1]
    BY NewRetries, NewStatus
  <2> HIDE DEF v, w1, w2
  <2>3. w2 = [v EXCEPT !.status = "retrying", !.retries = r + 1]
    BY <2>2
  <2>4. Lifecycle!Retry(v, w2)
    BY <2>1, <2>3 DEF Lifecycle!Retry
  <2> QED BY <2>4 DEF v, w2
<1>7. ASSUME NEW s \in {"new", "queued", "reserved", "failed", "retrying"}
      PROVE  Lifecycle!Cancel(View(s, a, h, r), View("cancelled", a, Free, r))
  <2> DEFINE v == View(s, a, h, r)
             w1 == View("cancelled", a, h, r)
             w2 == View("cancelled", a, Free, r)
  <2>1. v.status = s
    BY DEF View
  <2>2. /\ w1 = [v EXCEPT !.status = "cancelled"]
        /\ w2 = [w1 EXCEPT !.held = Free]
    BY NewHeld, NewStatus
  <2> HIDE DEF v, w1, w2
  <2>3. w2 = [v EXCEPT !.status = "cancelled", !.held = Free]
    BY <2>2
  <2>4. Lifecycle!Cancel(v, w2)
    BY <2>1, <2>3 DEF Lifecycle!Cancel, Lifecycle!Unstarted, Held, Free
  <2> QED BY <2>4 DEF v, w2
<1> QED BY <1>1, <1>2, <1>3, <1>4, <1>5, <1>6, <1>7 DEF Lifecycle!Step

(* With one running attempt, the last, to finish it is to finish the last.   *)
LEMMA FinishIsLast ==
    ASSUME TypeOK, AttemptMatchesStatus, NEW j \in Jobs, status[j] = "running",
           NEW outcome \in {"success", "failed"}
    PROVE  FinishAttempt(j, outcome) = [attempts[j] EXCEPT ![Len(attempts[j])] = outcome]
<1>1. RunningAttempts(j) = {Len(attempts[j])}
  BY DEF AttemptMatchesStatus
<1>2. attempts[j] \in Seq(AttemptStatuses)
  BY DEF TypeOK
<1> DEFINE s == attempts[j]
           f == [n \in 1..Len(s) |-> IF IsRunningAttempt(j, n) THEN outcome ELSE s[n]]
<1>3. \A n \in 1..Len(s) : f[n] = IF n = Len(s) THEN outcome ELSE s[n]
  BY <1>1, FinishLastAttempt DEF FinishAttempt
<1>4. f = [n \in 1..Len(s) |-> IF n = Len(s) THEN outcome ELSE s[n]]
  BY <1>3
<1>5. [s EXCEPT ![Len(s)] = outcome] = [n \in 1..Len(s) |-> IF n = Len(s) THEN outcome ELSE s[n]]
  <2> HIDE DEF s, f
  <2>1. s \in Seq(AttemptStatuses) BY <1>2 DEF s
  <2>2. DOMAIN s = 1..Len(s) BY <2>1
  <2> QED BY <2>2
<1> QED BY <1>4, <1>5 DEF FinishAttempt

(* The end of work is one too.                                               *)
LEMMA FinishStep ==
    ASSUME NEW end \in {"succeeded", "failed", "cancelled"}, NEW outcome,
           outcome = (IF end = "succeeded" THEN "success" ELSE "failed"), NEW a, NEW r
    PROVE  Lifecycle!Step(View("running", a, Held, r),
                          View(end, [a EXCEPT ![Len(a)] = outcome], Free, r))
<1>1. end \in DOMAIN Lifecycle!EndOfWork /\ Lifecycle!EndOfWork[end] = outcome
  BY DEF Lifecycle!EndOfWork
<1> DEFINE c == [a EXCEPT ![Len(a)] = outcome]
<1>2. Lifecycle!Finish(View("running", a, Held, r), View(end, c, Free, r))
  <2> DEFINE v == View("running", a, Held, r)
             w1 == View(end, a, Held, r)
             w2 == View(end, a, Free, r)
             w3 == View(end, c, Free, r)
  <2>1. v.status = "running" /\ v.held = Held /\ v.attempts = a
    BY DEF View
  <2>2. /\ w1 = [v EXCEPT !.status = end]
        /\ w2 = [w1 EXCEPT !.held = Free]
        /\ w3 = [w2 EXCEPT !.attempts = c]
    BY NewAttempts, NewHeld, NewStatus
  <2> HIDE DEF v, w1, w2, w3
  <2>3. w3 = [v EXCEPT !.status = end, !.held = Free, !.attempts = c]
    BY <2>2
  <2>4. Lifecycle!Finish(v, w3)
    BY <1>1, <2>1, <2>3 DEF Lifecycle!Finish, Held, Free
  <2> QED BY <2>4 DEF v, w3
<1> QED BY <1>2 DEF Lifecycle!Step

-----------------------------------------------------------------------------
(* A job stays as it is or takes a step of its lifecycle.                    *)
JobMoves(j) == Image(j)' = Image(j) \/ Lifecycle!Step(Image(j), Image(j)')

LEMMA Untouched ==
    ASSUME NEW j \in Jobs, status'[j] = status[j], attempts'[j] = attempts[j],
           reservation'[j] = reservation[j], audit'[j] = audit[j]
    PROVE  JobMoves(j)
<1>1. RetriesUsed(j)' = RetriesUsed(j)
  BY DEF RetriesUsed
<1>2. Image(j)' = Image(j)
  BY <1>1 DEF Image
<1> QED BY <1>2 DEF JobMoves

(* The view after a step, from what the step did to the job.                 *)
LEMMA ImageIs ==
    ASSUME NEW j \in Jobs
    PROVE  /\ reservation[j] = None => Image(j) = View(status[j], attempts[j], Free, RetriesUsed(j))
           /\ reservation[j] # None => Image(j) = View(status[j], attempts[j], Held, RetriesUsed(j))
<1>1. reservation[j] = None => (reservation[j] # None) = Free
  BY DEF Free
<1>2. reservation[j] # None => (reservation[j] # None) = Held
  BY DEF Held
<1> QED BY <1>1, <1>2 DEF Image

LEMMA NextImageIs ==
    ASSUME NEW j \in Jobs, NEW r, Cardinality(Retried(audit'[j])) = r
    PROVE  /\ reservation'[j] = None => Image(j)' = View(status'[j], attempts'[j], Free, r)
           /\ reservation'[j] # None => Image(j)' = View(status'[j], attempts'[j], Held, r)
<1>1. RetriesUsed(j)' = r
  BY DEF RetriesUsed, Retried
<1>2. reservation'[j] = None => (reservation'[j] # None) = Free
  BY DEF Free
<1>3. reservation'[j] # None => (reservation'[j] # None) = Held
  BY DEF Held
<1> QED BY <1>1, <1>2, <1>3 DEF Image

(* Every operation moves the job it is about as JobLifecycle says.           *)
LEMMA OperationMoves ==
    ASSUME TypeOK, ReservationFollowsWork, AttemptMatchesStatus, NEW j \in Jobs,
           \/ QueueJob(j)
           \/ \E n \in Nodes, ttl \in TTLs : ReserveJob(j, n, ttl)
           \/ ReleaseJob(j) \/ StartJob(j) \/ CompleteJob(j) \/ FailJob(j)
           \/ \E limit \in RetryLimits : RetryJob(j, limit)
           \/ CancelJob(j)
    PROVE  JobMoves(j)
<1> DEFINE r == RetriesUsed(j)
<1> USE DEF JobMoves
<1>a. ASSUME NEW kind \in EventTypes \ {"retried"}, NEW new \in JobStatuses,
             audit'[j] = Record(j, kind, new) \/ audit'[j] = RecordAndRelease(j, kind, new)
      PROVE  Cardinality(Retried(audit'[j])) = r
  BY <1>a, RetriesAfterRecord
<1>1. CASE QueueJob(j)
  <2>1. /\ status[j] \in {"new", "reserved"}
        /\ status'[j] = "queued"
        /\ attempts'[j] = attempts[j]
        /\ reservation'[j] = reservation[j]
        /\ audit'[j] = Record(j, "queued", "queued")
    BY <1>1 DEF QueueJob, Transition, LegalTransitions, TypeOK
  <2>2. Cardinality(Retried(audit'[j])) = r
    BY <1>a, <2>1 DEF EventTypes, JobStatuses
  <2>3. PICK h : /\ Image(j) = View(status[j], attempts[j], h, r)
                 /\ Image(j)' = View("queued", attempts[j], h, r)
    BY <2>1, <2>2, ImageIs, NextImageIs
  <2> QED BY <2>1, <2>3, ViewSteps
<1>2. ASSUME NEW n \in Nodes, NEW ttl \in TTLs, ReserveJob(j, n, ttl) PROVE JobMoves(j)
  <2>1. /\ status[j] \in {"queued", "retrying"}
        /\ status'[j] = "reserved"
        /\ attempts'[j] = attempts[j]
        /\ reservation[j] = None
        /\ reservation'[j] # None
        /\ audit'[j] = Record(j, "reserved", "reserved")
    <3>1. [node |-> n, expiresAt |-> now + ttl] # None
      BY TTLsAssumption, NoneAssumption DEF TypeOK
    <3> QED BY <1>2, <3>1 DEF ReserveJob, Transition, TypeOK
  <2>2. Cardinality(Retried(audit'[j])) = r
    BY <1>a, <2>1 DEF EventTypes, JobStatuses
  <2>3. /\ Image(j) = View(status[j], attempts[j], Free, r)
        /\ Image(j)' = View("reserved", attempts[j], Held, r)
    BY <2>1, <2>2, ImageIs, NextImageIs
  <2> QED BY <2>1, <2>3, ViewSteps
<1>3. CASE ReleaseJob(j)
  <2>1. /\ status[j] = "reserved"
        /\ status'[j] = "queued"
        /\ attempts'[j] = attempts[j]
        /\ reservation[j] # None
        /\ reservation'[j] = None
        /\ audit'[j] = Record(j, "released", "queued")
    BY <1>3 DEF ReleaseJob, Transition, TypeOK
  <2>2. Cardinality(Retried(audit'[j])) = r
    BY <1>a, <2>1 DEF EventTypes, JobStatuses
  <2>3. /\ Image(j) = View("reserved", attempts[j], Held, r)
        /\ Image(j)' = View("queued", attempts[j], Free, r)
    BY <2>1, <2>2, ImageIs, NextImageIs
  <2> QED BY <2>3, ViewSteps
<1>4. CASE StartJob(j)
  <2>1. /\ status[j] = "reserved"
        /\ status'[j] = "running"
        /\ attempts'[j] = Append(attempts[j], "running")
        /\ reservation[j] # None
        /\ reservation'[j] = reservation[j]
        /\ audit'[j] = Record(j, "started", "running")
    BY <1>4 DEF StartJob, Transition, TypeOK
  <2>2. Cardinality(Retried(audit'[j])) = r
    BY <1>a, <2>1 DEF EventTypes, JobStatuses
  <2>3. /\ Image(j) = View("reserved", attempts[j], Held, r)
        /\ Image(j)' = View("running", Append(attempts[j], "running"), Held, r)
    BY <2>1, <2>2, ImageIs, NextImageIs
  <2> QED BY <2>3, ViewSteps
<1>5. CASE CompleteJob(j) \/ FailJob(j) \/ (CancelJob(j) /\ status[j] = "running")
  <2>1. PICK end \in {"succeeded", "failed", "cancelled"} :
          /\ status'[j] = end
          /\ attempts'[j] = FinishAttempt(j, IF end = "succeeded" THEN "success" ELSE "failed")
          /\ audit'[j] = RecordAndRelease(j, end, end)
    BY <1>5 DEF CompleteJob, FailJob, CancelJob, Transition, TypeOK
  <2>2. status[j] = "running" /\ reservation[j] # None /\ reservation'[j] = None
    BY <1>5 DEF CompleteJob, FailJob, CancelJob, ReservationFollowsWork, TypeOK
  <2>3. PICK outcome \in {"success", "failed"} :
          outcome = IF end = "succeeded" THEN "success" ELSE "failed"
    OBVIOUS
  <2>4. attempts'[j] = [attempts[j] EXCEPT ![Len(attempts[j])] = outcome]
    BY <2>1, <2>2, <2>3, FinishIsLast
  <2>5. Cardinality(Retried(audit'[j])) = r
    BY <1>a, <2>1 DEF EventTypes, JobStatuses
  <2>6. /\ Image(j) = View("running", attempts[j], Held, r)
        /\ Image(j)' = View(end, attempts'[j], Free, r)
    BY <2>1, <2>2, <2>5, ImageIs, NextImageIs
  <2>7. Lifecycle!Step(View("running", attempts[j], Held, r),
                       View(end, [attempts[j] EXCEPT ![Len(attempts[j])] = outcome], Free, r))
    BY <2>3, FinishStep
  <2> QED BY <2>4, <2>6, <2>7
<1>6. ASSUME NEW limit \in RetryLimits, RetryJob(j, limit) PROVE JobMoves(j)
  <2>1. /\ status[j] = "failed"
        /\ status'[j] = "retrying"
        /\ attempts'[j] = attempts[j]
        /\ reservation'[j] = reservation[j]
        /\ audit'[j] = Record(j, "retried", "retrying")
    BY <1>6 DEF RetryJob, Transition, TypeOK
  <2>2. Cardinality(Retried(audit'[j])) = r + 1
    BY <2>1, RetriesAfterRecord DEF EventTypes, JobStatuses
  <2>3. PICK h : /\ Image(j) = View("failed", attempts[j], h, r)
                 /\ Image(j)' = View("retrying", attempts[j], h, r + 1)
    BY <2>1, <2>2, ImageIs, NextImageIs
  <2> QED BY <2>3, ViewSteps
<1>7. CASE CancelJob(j) /\ status[j] # "running"
  <2>1. /\ status[j] \in {"new", "queued", "reserved", "failed", "retrying"}
        /\ status'[j] = "cancelled"
        /\ attempts'[j] = attempts[j]
        /\ reservation'[j] = None
        /\ audit'[j] = RecordAndRelease(j, "cancelled", "cancelled")
    BY <1>7 DEF CancelJob, Transition, LegalTransitions, TypeOK
  <2>2. Cardinality(Retried(audit'[j])) = r
    BY <1>a, <2>1 DEF EventTypes, JobStatuses
  <2>3. PICK h : Image(j) = View(status[j], attempts[j], h, r)
    BY ImageIs
  <2>4. Image(j)' = View("cancelled", attempts[j], Free, r)
    BY <2>1, <2>2, NextImageIs
  <2> QED BY <2>1, <2>3, <2>4, ViewSteps
<1> QED BY <1>1, <1>2, <1>3, <1>4, <1>5, <1>6, <1>7

(* So does creation, which makes one job new, and the expiry of reservations,*)
(* which moves every job it touches and no other.                            *)
LEMMA CreateMoves ==
    ASSUME TypeOK, NEW d \in Documents, CreateJob(d), NEW j \in Jobs
    PROVE  JobMoves(j)
<1> DEFINE r == RetriesUsed(j)
<1>1. PICK k \in Jobs :
        /\ status[k] = "absent"
        /\ status' = [status EXCEPT ![k] = "new"]
        /\ audit' = [audit EXCEPT ![k] = Append(audit[k], Event("created", "absent", "new"))]
  BY DEF CreateJob
<1>2. attempts' = attempts /\ reservation' = reservation
  BY DEF CreateJob
<1>3. CASE k # j
  BY <1>1, <1>2, <1>3, Untouched DEF TypeOK
<1>4. CASE k = j
  <2>1. /\ status[j] = "absent"
        /\ status'[j] = "new"
        /\ attempts'[j] = attempts[j]
        /\ reservation'[j] = reservation[j]
        /\ audit'[j] = Record(j, "created", "new")
    BY <1>1, <1>2, <1>4 DEF TypeOK, Record
  <2>2. Cardinality(Retried(audit'[j])) = r
    BY <2>1, RetriesAfterRecord DEF EventTypes, JobStatuses
  <2>3. PICK h : /\ Image(j) = View("absent", attempts[j], h, r)
                 /\ Image(j)' = View("new", attempts[j], h, r)
    BY <2>1, <2>2, ImageIs, NextImageIs
  <2> QED BY <2>3, ViewSteps DEF JobMoves
<1> QED BY <1>3, <1>4

LEMMA CleanupMoves ==
    ASSUME TypeOK, ReservationFollowsWork, AttemptMatchesStatus, CleanupExpiredReservations,
           NEW j \in Jobs
    PROVE  JobMoves(j)
<1> DEFINE r == RetriesUsed(j)
<1>1. CASE ~Expired(j)
  <2>1. /\ status'[j] = status[j]
        /\ attempts'[j] = attempts[j]
        /\ reservation'[j] = reservation[j]
        /\ audit'[j] = audit[j]
    BY <1>1 DEF CleanupExpiredReservations
  <2> QED BY <2>1, Untouched
<1>2. CASE Expired(j) /\ status[j] # "running"
  <2>1. status[j] \in {"queued", "reserved"} /\ StatusAfterExpiry(status[j]) = "queued"
    BY <1>2 DEF Expired, ReservationFollowsWork, StatusAfterExpiry
  <2>2. /\ status'[j] = "queued"
        /\ attempts'[j] = attempts[j]
        /\ reservation[j] # None
        /\ reservation'[j] = None
        /\ audit'[j] = Record(j, "released", "queued")
    BY <1>2, <2>1 DEF CleanupExpiredReservations, AuditAfterExpiry, Expired
  <2>3. Cardinality(Retried(audit'[j])) = r
    BY <2>2, RetriesAfterRecord DEF EventTypes, JobStatuses
  <2>4. /\ Image(j) = View(status[j], attempts[j], Held, r)
        /\ Image(j)' = View("queued", attempts[j], Free, r)
    BY <2>2, <2>3, ImageIs, NextImageIs
  <2> QED BY <2>1, <2>4, ViewSteps DEF JobMoves
<1>3. CASE Expired(j) /\ status[j] = "running"
  <2>1. /\ status'[j] = "failed"
        /\ attempts'[j] = FinishAttempt(j, "failed")
        /\ reservation[j] # None
        /\ reservation'[j] = None
        /\ audit'[j] = RecordAndRelease(j, "failed", "failed")
    BY <1>3 DEF CleanupExpiredReservations, AuditAfterExpiry, Expired, StatusAfterExpiry
  <2>2. attempts'[j] = [attempts[j] EXCEPT ![Len(attempts[j])] = "failed"]
    BY <1>3, <2>1, FinishIsLast
  <2>3. Cardinality(Retried(audit'[j])) = r
    BY <2>1, RetriesAfterRecord DEF EventTypes, JobStatuses
  <2>4. /\ Image(j) = View("running", attempts[j], Held, r)
        /\ Image(j)' = View("failed", attempts'[j], Free, r)
    BY <1>3, <2>1, <2>3, ImageIs, NextImageIs
  <2>5. Lifecycle!Step(View("running", attempts[j], Held, r),
                       View("failed", [attempts[j] EXCEPT ![Len(attempts[j])] = "failed"], Free, r))
    BY FinishStep
  <2> QED BY <2>2, <2>4, <2>5 DEF JobMoves
<1> QED BY <1>1, <1>2, <1>3

(* Whatever step is taken, every job moves so.                               *)
LEMMA EveryJobMoves ==
    ASSUME TypeOK, ReservationFollowsWork, AttemptMatchesStatus, [Next]_vars, NEW j \in Jobs
    PROVE  JobMoves(j)
<1> USE DEF jobVars, envVars
<1>1. ASSUME NEW d \in Documents, CreateJob(d) PROVE JobMoves(j)
  BY <1>1, CreateMoves
<1>2. ASSUME NEW k \in Jobs,
             \/ QueueJob(k)
             \/ \E n \in Nodes, ttl \in TTLs : ReserveJob(k, n, ttl)
             \/ ReleaseJob(k) \/ StartJob(k) \/ CompleteJob(k) \/ FailJob(k)
             \/ \E limit \in RetryLimits : RetryJob(k, limit)
             \/ CancelJob(k)
      PROVE  JobMoves(j)
  <2>1. CASE k = j
    BY <1>2, <2>1, OperationMoves
  <2>2. CASE k # j
    <3>1. /\ status'[j] = status[j] /\ attempts'[j] = attempts[j]
          /\ reservation'[j] = reservation[j] /\ audit'[j] = audit[j]
      BY <1>2, <2>2 DEF QueueJob, ReserveJob, ReleaseJob, StartJob, CompleteJob, FailJob, RetryJob,
                        CancelJob, Transition, TypeOK
    <3> QED BY <3>1, Untouched
  <2> QED BY <2>1, <2>2
<1>3. CASE CleanupExpiredReservations
  BY <1>3, CleanupMoves
<1>4. ASSUME UNCHANGED jobVars PROVE JobMoves(j)
  BY <1>4, Untouched
<1> QED
  BY <1>1, <1>2, <1>3, <1>4
     DEF Next, vars, RegistryChange, HeartbeatNode, RegisterProcessingNode, Tick

(* Whatever operations are called, in whatever order and on whatever jobs,   *)
(* each job goes through the lifecycle: its attempts, its reservation and    *)
(* the retries spent on it move with its status, in the same transaction.    *)
THEOREM OrchestrationImplementsLifecycle == Spec => ImplementsLifecycle
<1>1. Init => Lifecycle!Init
  <2>1. ASSUME Init, NEW j \in Jobs PROVE RetriesUsed(j) = 0
    <3>1. {i \in 1..Len(audit[j]) : audit[j][i].event = "retried"} = {}
      BY <2>1 DEF Init
    <3> QED BY <3>1, FS_EmptySet DEF RetriesUsed
  <2> QED BY <2>1 DEF Init, Lifecycle!Init
<1>2. TypeOK /\ ReservationFollowsWork /\ AttemptMatchesStatus /\ [Next]_vars => Lifecycle!Next
  BY EveryJobMoves DEF JobMoves, Image, View, Lifecycle!Next
<1> QED
  BY <1>1, <1>2, ReservationsCorrect, AttemptsCorrect, PTL
     DEF Spec, ImplementsLifecycle, Lifecycle!Spec

-----------------------------------------------------------------------------
(* How many attempts a job has, counted from the retries spent on it.        *)
Counted(v) ==
    /\ v.status \in {"absent", "new", "queued", "reserved", "retrying"} => Len(v.attempts) = v.retries
    /\ v.status \in {"running", "succeeded", "failed"} => Len(v.attempts) = v.retries + 1
    /\ v.status = "cancelled" => Len(v.attempts) \in {v.retries, v.retries + 1}

Views == [status : JobStatuses \cup {"absent"}, attempts : Seq(AttemptStatuses),
          held : BOOLEAN, retries : Nat]

(* Every step of the lifecycle keeps count, and only a retry spends one.     *)
LEMMA CountedStep ==
    ASSUME NEW v \in Views, NEW w, Lifecycle!Step(v, w), Counted(v)
    PROVE  /\ Counted(w)
           /\ \/ w.retries = v.retries
              \/ v.status = "failed" /\ w.status = "retrying" /\ w.retries = v.retries + 1
<1> USE DEF Views, Counted, JobStatuses
<1>1. CASE v.status = "absent" /\ w = [v EXCEPT !.status = "new"]
  BY <1>1
<1>2. CASE Lifecycle!Queue(v, w)
  BY <1>2 DEF Lifecycle!Queue
<1>3. CASE Lifecycle!Reserve(v, w)
  BY <1>3 DEF Lifecycle!Reserve
<1>4. CASE Lifecycle!GiveBack(v, w)
  BY <1>4 DEF Lifecycle!GiveBack
<1>5. CASE Lifecycle!Start(v, w)
  <2>1. Len(Append(v.attempts, "running")) = Len(v.attempts) + 1
    OBVIOUS
  <2> QED BY <1>5, <2>1 DEF Lifecycle!Start
<1>6. CASE Lifecycle!Finish(v, w)
  <2>1. ASSUME NEW x PROVE Len([v.attempts EXCEPT ![Len(v.attempts)] = x]) = Len(v.attempts)
    OBVIOUS
  <2> QED BY <1>6, <2>1 DEF Lifecycle!Finish, Lifecycle!EndOfWork
<1>7. CASE Lifecycle!Retry(v, w)
  BY <1>7 DEF Lifecycle!Retry
<1>8. CASE Lifecycle!Cancel(v, w)
  BY <1>8 DEF Lifecycle!Cancel, Lifecycle!Unstarted
<1> QED BY <1>1, <1>2, <1>3, <1>4, <1>5, <1>6, <1>7, <1>8 DEF Lifecycle!Step

(* Only retry_job takes a failed job to retrying, and it looks at the        *)
(* retries used first.                                                       *)
LEMMA OnlyRetryRetries ==
    ASSUME TypeOK, [Next]_vars, NEW j \in Jobs, status[j] = "failed", status'[j] = "retrying"
    PROVE  \E limit \in RetryLimits : RetriesUsed(j) < limit
<1> USE DEF jobVars, envVars
<1>1. ASSUME NEW d \in Documents, CreateJob(d) PROVE FALSE
  BY <1>1 DEF CreateJob, TypeOK
<1>2. ASSUME NEW k \in Jobs,
             \/ QueueJob(k)
             \/ \E n \in Nodes, ttl \in TTLs : ReserveJob(k, n, ttl)
             \/ ReleaseJob(k) \/ StartJob(k) \/ CompleteJob(k) \/ FailJob(k) \/ CancelJob(k)
      PROVE  FALSE
  BY <1>2 DEF QueueJob, ReserveJob, ReleaseJob, StartJob, CompleteJob, FailJob, CancelJob,
              Transition, TypeOK
<1>3. ASSUME NEW k \in Jobs, NEW limit \in RetryLimits, RetryJob(k, limit)
      PROVE  RetriesUsed(j) < limit
  <2>1. k = j
    BY <1>3 DEF RetryJob, Transition, TypeOK
  <2> QED BY <1>3, <2>1 DEF RetryJob
<1>4. ASSUME CleanupExpiredReservations PROVE FALSE
  BY <1>4 DEF CleanupExpiredReservations, StatusAfterExpiry
<1>5. ASSUME UNCHANGED status PROVE FALSE
  BY <1>5
<1> QED
  BY <1>1, <1>2, <1>3, <1>4, <1>5
     DEF Next, vars, RegistryChange, HeartbeatNode, RegisterProcessingNode, Tick

(* The count, and what pays for it.                                          *)
Paid ==
    \A j \in Jobs :
        /\ Counted(Image(j))
        /\ RetriesUsed(j) > 0 => \E limit \in RetryLimits : RetriesUsed(j) <= limit

LEMMA ImageFields ==
    ASSUME NEW j \in Jobs
    PROVE  /\ Image(j).status = status[j] /\ Image(j).attempts = attempts[j]
           /\ Image(j).retries = RetriesUsed(j)
           /\ Image(j)'.status = status'[j] /\ Image(j)'.attempts = attempts'[j]
           /\ Image(j)'.retries = RetriesUsed(j)'
BY DEF Image, View

LEMMA PaidStep ==
    TypeOK /\ TypeOK' /\ ReservationFollowsWork /\ AttemptMatchesStatus /\ Paid /\ [Next]_vars => Paid'
<1> SUFFICES ASSUME TypeOK, TypeOK', ReservationFollowsWork, AttemptMatchesStatus, Paid, [Next]_vars,
                    NEW j \in Jobs
             PROVE  /\ Counted(Image(j)')
                    /\ RetriesUsed(j)' > 0 => \E limit \in RetryLimits : RetriesUsed(j)' <= limit
  BY DEF Paid
<1>1. RetriesUsed(j) \in Nat
  BY RetriesAfterRecord DEF EventTypes, JobStatuses
<1>2. Image(j) \in Views
  BY <1>1 DEF TypeOK, Views, Image, View
<1>3. CASE Image(j)' = Image(j)
  <2>1. RetriesUsed(j)' = RetriesUsed(j)
    BY <1>3, ImageFields
  <2> QED BY <1>3, <2>1 DEF Paid
<1>4. CASE Lifecycle!Step(Image(j), Image(j)')
  <2>1. /\ Counted(Image(j)')
        /\ \/ RetriesUsed(j)' = RetriesUsed(j)
           \/ status[j] = "failed" /\ status'[j] = "retrying" /\ RetriesUsed(j)' = RetriesUsed(j) + 1
    BY <1>2, <1>4, CountedStep, ImageFields DEF Paid
  <2>2. CASE RetriesUsed(j)' = RetriesUsed(j)
    BY <2>1, <2>2 DEF Paid
  <2>3. CASE RetriesUsed(j)' # RetriesUsed(j)
    <3>1. PICK limit \in RetryLimits : RetriesUsed(j) < limit
      BY <2>1, <2>3, OnlyRetryRetries
    <3>2. RetriesUsed(j)' <= limit
      BY <1>1, <2>1, <2>3, <3>1, RetryLimitsAssumption
    <3> QED BY <2>1, <3>2
  <2> QED BY <2>2, <2>3
<1> QED BY <1>3, <1>4, EveryJobMoves DEF JobMoves

(* Every attempt after the first was paid by a retry, and no sequence of     *)
(* calls makes more attempts than one plus the largest limit retry_job was   *)
(* given.                                                                    *)
THEOREM AttemptsArePaid == Spec => []AttemptsPaidByRetries
<1>1. Init => Paid
  <2> SUFFICES ASSUME Init, NEW j \in Jobs PROVE Counted(Image(j)) /\ RetriesUsed(j) = 0
    BY DEF Paid
  <2>1. {i \in 1..Len(audit[j]) : audit[j][i].event = "retried"} = {}
    BY DEF Init
  <2>2. RetriesUsed(j) = 0
    BY <2>1, FS_EmptySet DEF RetriesUsed
  <2>3. status[j] = "absent" /\ Len(attempts[j]) = 0
    BY DEF Init
  <2> QED BY <2>2, <2>3, ImageFields DEF Counted
<1>2. TypeOK /\ Paid => AttemptsPaidByRetries
  <2> SUFFICES ASSUME TypeOK, Paid, NEW j \in Jobs
               PROVE  /\ Counted(Image(j))
                      /\ Len(attempts[j]) > 1 =>
                           \E limit \in RetryLimits : Len(attempts[j]) <= limit + 1
    BY ImageFields DEF AttemptsPaidByRetries, Counted
  <2>1. RetriesUsed(j) \in Nat /\ Len(attempts[j]) \in {RetriesUsed(j), RetriesUsed(j) + 1}
    <3>1. status[j] \in JobStatuses \cup {"absent"}
      BY DEF TypeOK
    <3>2. RetriesUsed(j) \in Nat
      BY RetriesAfterRecord DEF EventTypes, JobStatuses
    <3> QED BY <3>1, <3>2, ImageFields DEF Paid, Counted, JobStatuses
  <2> QED BY <2>1, RetryLimitsAssumption DEF Paid
<1> QED
  BY <1>1, <1>2, PaidStep, ReservationsCorrect, AttemptsCorrect, PTL DEF Spec
=============================================================================
