----------------------- MODULE IngestionOrchestration -----------------------
(* The lifecycle of ingestion jobs as services/ingestion_service.py offers   *)
(* it: one action per service operation, taken as one transaction.  A job    *)
(* carries its status, the attempts made at it, the reservation a processing *)
(* node may hold on it and its audit trail; the operations must keep these   *)
(* four in step.  IngestionSessions splits the operations into the database  *)
(* accesses they make and shows when they implement this module.             *)
EXTENDS Naturals, Sequences, FiniteSets

CONSTANTS
    Jobs,         \* identities of ingestion_jobs rows, handed out on creation
    Documents,    \* the registry's documents
    Nodes,        \* processing nodes
    RetryLimits,  \* the limits retry_job may be called with
    TTLs,         \* the reservation times-to-live reserve_job may be called with
    MaxTime,      \* bound on the clock
    MaxEvents,    \* bound on the events any two jobs have between them when one is reserved
    None          \* no reservation, no document

ASSUME RetryLimitsAssumption == RetryLimits \subseteq Nat
ASSUME TTLsAssumption == TTLs \subseteq Nat \ {0}
ASSUME BoundsAssumption == MaxTime \in Nat /\ MaxEvents \in Nat
ASSUME NoneAssumption ==
    /\ None \notin Documents
    /\ None \notin [node : Nodes, expiresAt : Nat]

VARIABLES
    status,       \* IngestionJob.status, "absent" before the row exists
    document,     \* IngestionJob.document_id
    completedAt,  \* is IngestionJob.completed_at set?
    lastError,    \* is IngestionJob.last_error set?
    attempts,     \* IngestionAttempt.status by attempt_number
    reservation,  \* the active JobReservation, or None
    audit,        \* the IngestionAuditEvent rows in order of id
    nodeState,    \* ProcessingNode: absent, active or inactive
    eligible,     \* would validate_ingestion_eligibility accept the document?
    now           \* utc_now()

jobVars == <<status, document, completedAt, lastError, attempts, reservation, audit>>
envVars == <<nodeState, eligible, now>>
vars == <<jobVars, envVars>>

-----------------------------------------------------------------------------
JobStatuses == {"new", "queued", "reserved", "running", "succeeded", "failed",
                "retrying", "cancelled"}
FailedJobsForgotten == {"new", "queued", "reserved", "running", "retrying"}  \* bug: misses failed
ActiveJobStatuses == {"new", "queued", "reserved", "running", "failed", "retrying"}
AttemptStatuses == {"running", "success", "failed"}
EventTypes == {"created", "queued", "reserved", "released", "started",
               "succeeded", "failed", "retried", "cancelled"}

LegalTransitions(s) ==
    CASE s = "new"      -> {"queued", "cancelled"}
      [] s = "queued"   -> {"reserved", "cancelled"}
      [] s = "reserved" -> {"queued", "running", "cancelled"}
      [] s = "running"  -> {"succeeded", "failed", "cancelled"}
      [] s = "failed"   -> {"retrying", "cancelled"}
      [] s = "retrying" -> {"reserved", "cancelled"}
      [] OTHER          -> {}

Reservations == [node : Nodes, expiresAt : Nat]

Event(kind, previous, new) == [event |-> kind, previous |-> previous, new |-> new]

(* The audit trail of j after one more event, and after the release event    *)
(* that follows it when j still holds a reservation.                         *)
Record(j, kind, new) == Append(audit[j], Event(kind, status[j], new))
ReleaseRecordedFirst(j, kind, new) ==  \* bug: the two events in the wrong order
    Append(Append(audit[j], Event("released", new, new)), Event(kind, status[j], new))
RecordAndRelease(j, kind, new) ==
    IF reservation[j] = None
    THEN Record(j, kind, new)
    ELSE Append(Record(j, kind, new), Event("released", new, new))

TransitionOfEnded(j, new) ==  \* bug: a status without legal transitions may go anywhere
    /\ new \in LegalTransitions(status[j]) \/ status[j] \in {"succeeded", "cancelled"}
    /\ status' = [status EXCEPT ![j] = new]
    /\ completedAt' = [completedAt EXCEPT ![j] = new \in {"succeeded", "failed", "cancelled"}]

Transition(j, new) ==
    /\ new \in LegalTransitions(status[j])
    /\ status' = [status EXCEPT ![j] = new]
    /\ completedAt' = [completedAt EXCEPT ![j] = new \in {"succeeded", "failed", "cancelled"}]

(* The attempt a finishing operation picks: the latest one still running.    *)
RunningAttempts(j) == {n \in DOMAIN attempts[j] : attempts[j][n] = "running"}
IsRunningAttempt(j, n) == n \in RunningAttempts(j) /\ \A m \in RunningAttempts(j) : m <= n
FinishFirstAttempt(j, outcome) ==  \* bug: ordered by attempt_number, ascending
    [n \in 1..Len(attempts[j]) |-> IF n = 1 THEN outcome ELSE attempts[j][n]]
FinishAttempt(j, outcome) ==
    [n \in 1..Len(attempts[j]) |-> IF IsRunningAttempt(j, n) THEN outcome ELSE attempts[j][n]]

RetriesUsed(j) == Cardinality({i \in 1..Len(audit[j]) : audit[j][i].event = "retried"})

-----------------------------------------------------------------------------
Init ==
    /\ status = [j \in Jobs |-> "absent"]
    /\ document = [j \in Jobs |-> None]
    /\ completedAt = [j \in Jobs |-> FALSE]
    /\ lastError = [j \in Jobs |-> FALSE]
    /\ attempts = [j \in Jobs |-> <<>>]
    /\ reservation = [j \in Jobs |-> None]
    /\ audit = [j \in Jobs |-> <<>>]
    /\ nodeState = [n \in Nodes |-> "absent"]
    /\ eligible \in [Documents -> BOOLEAN]
    /\ now = 0

(* create_job: when the document already has an active job that job is       *)
(* returned and nothing changes, so only the inserting case is a step.       *)
CreateJob(d) ==
    /\ \A k \in Jobs : document[k] = d => status[k] \notin ActiveJobStatuses
    /\ \E j \in Jobs :
        /\ status[j] = "absent"
        /\ status' = [status EXCEPT ![j] = "new"]
        /\ document' = [document EXCEPT ![j] = d]
        /\ audit' = [audit EXCEPT ![j] = Append(audit[j], Event("created", "absent", "new"))]
    /\ UNCHANGED <<completedAt, lastError, attempts, reservation, envVars>>

(* queue_job tests the transition only, and reserved -> queued is a legal    *)
(* one: called on a reserved job it takes the job back to the queue and      *)
(* leaves the reservation in place.  The API calls it after it saw the job   *)
(* new, in a transaction of its own, so a second request and a worker can    *)
(* have come in between.                                                     *)
QueueJob(j) ==
    /\ status[j] # "absent"
    /\ eligible[document[j]]
    /\ Transition(j, "queued")
    /\ audit' = [audit EXCEPT ![j] = Record(j, "queued", "queued")]
    /\ UNCHANGED <<document, lastError, attempts, reservation, envVars>>

RegisterProcessingNode(n, active) ==
    /\ nodeState' = [nodeState EXCEPT ![n] = IF active THEN "active" ELSE "inactive"]
    /\ UNCHANGED <<jobVars, eligible, now>>

HeartbeatNode(n) ==
    /\ nodeState[n] # "absent"
    /\ nodeState' = [nodeState EXCEPT ![n] = "active"]
    /\ UNCHANGED <<jobVars, eligible, now>>

(* The bounds MaxTime and MaxEvents bite here and in Tick only: every cycle  *)
(* of the lifecycle passes through a reservation.                            *)
ReserveJob(j, n, ttl) ==
    /\ nodeState[n] = "active"
    /\ reservation[j] = None
    /\ status[j] \in {"queued", "retrying"}
    /\ now + ttl <= MaxTime
    /\ \A k \in Jobs \ {j} : Len(audit[j]) + Len(audit[k]) < MaxEvents
    /\ reservation' = [reservation EXCEPT ![j] = [node |-> n, expiresAt |-> now + ttl]]
    /\ Transition(j, "reserved")
    /\ audit' = [audit EXCEPT ![j] = Record(j, "reserved", "reserved")]
    /\ UNCHANGED <<document, lastError, attempts, envVars>>

ReleaseJob(j) ==
    /\ reservation[j] # None
    /\ status[j] = "reserved"
    /\ reservation' = [reservation EXCEPT ![j] = None]
    /\ Transition(j, "queued")
    /\ audit' = [audit EXCEPT ![j] = Record(j, "released", "queued")]
    /\ UNCHANGED <<document, lastError, attempts, envVars>>

StartJob(j) ==
    /\ status[j] = "reserved"
    /\ reservation[j] # None
    /\ reservation[j].expiresAt > now
    /\ Transition(j, "running")
    /\ attempts' = [attempts EXCEPT ![j] = Append(attempts[j], "running")]
    /\ lastError' = [lastError EXCEPT ![j] = FALSE]
    /\ audit' = [audit EXCEPT ![j] = Record(j, "started", "running")]
    /\ UNCHANGED <<document, reservation, envVars>>

CompleteJob(j) ==
    /\ status[j] = "running"
    /\ RunningAttempts(j) # {}
    /\ attempts' = [attempts EXCEPT ![j] = FinishAttempt(j, "success")]
    /\ Transition(j, "succeeded")
    /\ lastError' = [lastError EXCEPT ![j] = FALSE]
    /\ reservation' = [reservation EXCEPT ![j] = None]
    /\ audit' = [audit EXCEPT ![j] = RecordAndRelease(j, "succeeded", "succeeded")]
    /\ UNCHANGED <<document, envVars>>

FailJob(j) ==
    /\ status[j] = "running"
    /\ RunningAttempts(j) # {}
    /\ attempts' = [attempts EXCEPT ![j] = FinishAttempt(j, "failed")]
    /\ lastError' = [lastError EXCEPT ![j] = TRUE]
    /\ Transition(j, "failed")
    /\ reservation' = [reservation EXCEPT ![j] = None]
    /\ audit' = [audit EXCEPT ![j] = RecordAndRelease(j, "failed", "failed")]
    /\ UNCHANGED <<document, envVars>>

RetryJob(j, limit) ==
    /\ status[j] = "failed"
    /\ RetriesUsed(j) < limit
    /\ Transition(j, "retrying")
    /\ audit' = [audit EXCEPT ![j] = Record(j, "retried", "retrying")]
    /\ UNCHANGED <<document, lastError, attempts, reservation, envVars>>

CancelJob(j) ==
    /\ status[j] = "running" => RunningAttempts(j) # {}
    /\ attempts' = [attempts EXCEPT ![j] =
                      IF status[j] = "running" THEN FinishAttempt(j, "failed") ELSE attempts[j]]
    /\ Transition(j, "cancelled")
    /\ reservation' = [reservation EXCEPT ![j] = None]
    /\ audit' = [audit EXCEPT ![j] = RecordAndRelease(j, "cancelled", "cancelled")]
    /\ UNCHANGED <<document, lastError, envVars>>

-----------------------------------------------------------------------------
(* cleanup_expired_reservations releases every expired reservation in one    *)
(* transaction; a running job without a running attempt makes all of it      *)
(* fail.                                                                     *)
Expired(j) == reservation[j] # None /\ reservation[j].expiresAt <= now

StatusAfterExpiryKeepsRunning(s) == IF s = "reserved" THEN "queued" ELSE s  \* bug: running is missed
StatusAfterExpiryRequeues(s) == IF s = "running" THEN "queued" ELSE s  \* bug: a retry nobody counts
StatusAfterExpiry(s) ==
    CASE s = "reserved" -> "queued"
      [] s = "running"  -> "failed"
      [] OTHER          -> s

ExpiryRecordedAsExpired(j) ==  \* bug: an event type that does not exist
    Record(j, "expired", StatusAfterExpiry(status[j]))
AuditAfterExpiry(j) ==
    LET new == StatusAfterExpiry(status[j]) IN
    IF status[j] = "running"
    THEN RecordAndRelease(j, "failed", new)
    ELSE Record(j, "released", new)

CleanupExpiredReservations ==
    LET expired == {j \in Jobs : Expired(j)}
        cut == {j \in expired : status[j] = "running"} IN
    /\ expired # {}
    /\ \A j \in cut : RunningAttempts(j) # {}
    /\ reservation' = [j \in Jobs |-> IF j \in expired THEN None ELSE reservation[j]]
    /\ status' = [j \in Jobs |-> IF j \in expired THEN StatusAfterExpiry(status[j]) ELSE status[j]]
    /\ attempts' = [j \in Jobs |-> IF j \in cut THEN FinishAttempt(j, "failed") ELSE attempts[j]]
    /\ lastError' = [j \in Jobs |-> j \in cut \/ lastError[j]]
    /\ completedAt' = [j \in Jobs |->
                         \/ j \in cut
                         \/ completedAt[j] /\ ~(j \in expired /\ status[j] = "reserved")]
    /\ audit' = [j \in Jobs |-> IF j \in expired THEN AuditAfterExpiry(j) ELSE audit[j]]
    /\ UNCHANGED <<document, envVars>>

(* Edits of the document registry turn the eligibility of a document on and  *)
(* off at any time.                                                          *)
RegistryChange(d) ==
    /\ eligible' = [eligible EXCEPT ![d] = ~eligible[d]]
    /\ UNCHANGED <<jobVars, nodeState, now>>

Tick ==
    /\ now < MaxTime
    /\ now' = now + 1
    /\ UNCHANGED <<jobVars, nodeState, eligible>>

Next ==
    \/ \E d \in Documents : CreateJob(d) \/ RegistryChange(d)
    \/ \E n \in Nodes : HeartbeatNode(n) \/ \E active \in BOOLEAN : RegisterProcessingNode(n, active)
    \/ \E j \in Jobs :
        \/ QueueJob(j)
        \/ \E n \in Nodes, ttl \in TTLs : ReserveJob(j, n, ttl)
        \/ ReleaseJob(j)
        \/ StartJob(j)
        \/ CompleteJob(j)
        \/ FailJob(j)
        \/ \E limit \in RetryLimits : RetryJob(j, limit)
        \/ CancelJob(j)
    \/ CleanupExpiredReservations
    \/ Tick

Spec == Init /\ [][Next]_vars

-----------------------------------------------------------------------------
TypeOK ==
    /\ status \in [Jobs -> JobStatuses \cup {"absent"}]
    /\ document \in [Jobs -> Documents \cup {None}]
    /\ completedAt \in [Jobs -> BOOLEAN]
    /\ lastError \in [Jobs -> BOOLEAN]
    /\ attempts \in [Jobs -> Seq(AttemptStatuses)]
    /\ reservation \in [Jobs -> Reservations \cup {None}]
    /\ audit \in [Jobs -> Seq([event : EventTypes,
                               previous : JobStatuses \cup {"absent"},
                               new : JobStatuses])]
    /\ nodeState \in [Nodes -> {"absent", "active", "inactive"}]
    /\ eligible \in [Documents -> BOOLEAN]
    /\ now \in Nat

(* A reservation is active all through the work it was taken for             *)
(* ("Reservations remain active while an attempt runs"), and no operation    *)
(* that ends a job leaves one behind: not complete, fail, cancel, nor the    *)
(* expiry of another job's reservation in the same transaction.              *)
ReservationFollowsWork ==
    \A j \in Jobs :
        /\ status[j] \in {"reserved", "running"} => reservation[j] # None
        /\ reservation[j] # None => status[j] \in {"queued", "reserved", "running"}

(* Exactly one attempt runs while the job runs, none otherwise, and it is    *)
(* the last one made: complete, fail, cancel and the expiry of a reservation *)
(* each finish the attempt that start_job opened.                            *)
AttemptMatchesStatus ==
    \A j \in Jobs :
        RunningAttempts(j) = IF status[j] = "running" THEN {Len(attempts[j])} ELSE {}

(* Every attempt after the first was scheduled by a retry, however often the *)
(* reservation was released, expired or taken again in between, and no       *)
(* sequence of calls makes more attempts than one plus the largest limit     *)
(* retry_job was given.                                                      *)
AttemptsPaidByRetries ==
    \A j \in Jobs :
        /\ status[j] \in {"absent", "new", "queued", "reserved", "retrying"}
             => Len(attempts[j]) = RetriesUsed(j)
        /\ status[j] \in {"running", "succeeded", "failed"}
             => Len(attempts[j]) = RetriesUsed(j) + 1
        /\ status[j] = "cancelled"
             => Len(attempts[j]) \in {RetriesUsed(j), RetriesUsed(j) + 1}
        /\ Len(attempts[j]) > 1 => \E limit \in RetryLimits : Len(attempts[j]) <= limit + 1

(* The audit trail can be replayed: it starts from the row's creation, each  *)
(* event takes up the status the one before it left, and the last one leaves *)
(* the status the job has now.                                               *)
AuditReplaysStatus ==
    \A j \in Jobs :
        /\ status[j] = IF audit[j] = <<>> THEN "absent" ELSE audit[j][Len(audit[j])].new
        /\ \A i \in 1..Len(audit[j]) :
             audit[j][i].previous = IF i = 1 THEN "absent" ELSE audit[j][i - 1].new

(* create_job never gives a document a second job while one is active.       *)
OneActiveJobPerDocument ==
    \A j, k \in Jobs :
        /\ status[j] \in ActiveJobStatuses
        /\ status[k] \in ActiveJobStatuses
        /\ document[j] = document[k]
        => j = k

(* last_error describes the latest attempt: it is set on a failed job, and   *)
(* only while the latest attempt is one that failed.                         *)
LastErrorDescribesLastAttempt ==
    \A j \in Jobs :
        /\ status[j] = "failed" => lastError[j]
        /\ lastError[j] => /\ attempts[j] # <<>>
                           /\ attempts[j][Len(attempts[j])] = "failed"

(* The rows kept beside a job tell its story: the audit trail replays to its *)
(* status, and last_error to the outcome of its latest attempt.              *)
RecordsFollowStatus == AuditReplaysStatus /\ LastErrorDescribesLastAttempt

(* "Terminal succeeded and cancelled jobs cannot transition", and nothing    *)
(* else about them changes either: no late completion, expiry or cancel      *)
(* touches the attempts, the reservation or the audit trail.                 *)
Terminal(j) == status[j] \in {"succeeded", "cancelled"}
TerminalIsFinal ==
    [][\A j \in Jobs : Terminal(j) =>
         /\ status'[j] = status[j]
         /\ attempts'[j] = attempts[j]
         /\ reservation'[j] = reservation[j]
         /\ audit'[j] = audit[j]
         /\ lastError'[j] = lastError[j]]_vars

(* Every operation moves each job it touches as JobLifecycle says: status,   *)
(* attempts, reservation and retries in one step.                            *)
Lifecycle == INSTANCE JobLifecycle WITH
    job <- [j \in Jobs |-> [status |-> status[j], attempts |-> attempts[j],
                            held |-> reservation[j] # None, retries |-> RetriesUsed(j)]]
ImplementsLifecycle == Lifecycle!Spec
=============================================================================
