-------------------------- MODULE IngestionSessions --------------------------
(* The same job operations as the database sees them.  A request opens a     *)
(* session, reads the job row (SELECT ... FOR UPDATE), reads the rows the    *)
(* operation decides on, and writes and commits; other sessions run in       *)
(* between.  rowLocks says whether FOR UPDATE locks: it does on MySQL, and   *)
(* the clause does not exist on SQLite, the default database.  Writes are    *)
(* UPDATEs by primary key of what the session changed: they never re-check   *)
(* the status that was read.                                                 *)
(*                                                                           *)
(* Left to IngestionOrchestration: nodes, eligibility, last_error,           *)
(* completed_at and all audit events but the count of RETRIED.  A request    *)
(* those guards refuse ends like any that fails: Abort.                      *)
EXTENDS Naturals, Sequences, FiniteSets

CONSTANTS
    Jobs, Documents, Sessions,
    Settings,        \* databases, job statuses and clocks to begin with
    CreatedFor(_),   \* bound: documents jobs are created for, by rowLocks
    RetryLimit, TTL,
    MaxTime,         \* bound on the clock
    MaxReservations, \* bound on the reservations made for one job
    None

ASSUME NoneAssumption == None \notin Sessions
ASSUME ParametersAssumption ==
    /\ {RetryLimit, MaxTime, MaxReservations} \subseteq Nat
    /\ TTL \in Nat \ {0}
    /\ Settings \subseteq [rowLocks : BOOLEAN, now : 0..MaxTime, status : [Jobs -> {"absent", "queued", "cancelled"}]]

VARIABLES
    status, document,  \* ingestion_jobs
    attempts,          \* ingestion_attempts by number
    reservations,      \* job_reservations in order of id
    retries,           \* RETRIED events in ingestion_audit_events
    now,
    rowLocks,          \* does FOR UPDATE lock the row?
    jobLock, reservationLock, documentLock,  \* who holds the row lock
    session            \* what each session is doing

rows == <<status, document, attempts, reservations, retries>>
locks == <<rowLocks, jobLock, reservationLock, documentLock>>
vars == <<rows, locks, now, session>>

-----------------------------------------------------------------------------
Operations == {"reserve", "release", "start", "complete", "fail", "retry", "cancel"}
ActiveJobStatuses == {"new", "queued", "reserved", "running", "failed", "retrying"}

(* A session between requests; "status" is its copy of the job's status, the *)
(* identity map's entry; "found" is the index of the row an operation picked *)
(* (an attempt or a reservation) or the expiry of the one it will insert.    *)
Idle == [op |-> "none", pc |-> "idle", document |-> None, job |-> None,
         status |-> "absent", found |-> 0, batch |-> {}]

Active(j) == {r \in DOMAIN reservations[j] : reservations[j][r].active}
Running(j) == {n \in DOMAIN attempts[j] : attempts[j][n] = "running"}
IsLatest(n, S) == n \in S /\ \A m \in S : m <= n
ActiveJobsOf(d) == {j \in Jobs : document[j] = d /\ status[j] \in ActiveJobStatuses}

Free(lock, s) == lock \in {None, s}
ForUpdateOmitted(lock, held, s) == lock  \* bug: a plain SELECT
Locked(lock, held, s) ==
    IF rowLocks THEN [x \in DOMAIN lock |-> IF x \in held THEN s ELSE lock[x]] ELSE lock
Unlocked(lock, s) == [x \in DOMAIN lock |-> IF lock[x] = s THEN None ELSE lock[x]]

Goto(s, next) == session' = [session EXCEPT ![s] = next]
ReleaseLocks(s) ==
    /\ jobLock' = Unlocked(jobLock, s)
    /\ reservationLock' = Unlocked(reservationLock, s)
    /\ documentLock' = Unlocked(documentLock, s)
    /\ UNCHANGED rowLocks
Commit(s, next) == Goto(s, next) /\ ReleaseLocks(s) /\ UNCHANGED now

Init ==
    /\ \E setting \in Settings :
         rowLocks = setting.rowLocks /\ status = setting.status /\ now = setting.now
    /\ document \in [Jobs -> Documents \cup {None}]
    /\ \A j \in Jobs : status[j] = "absent" <=> document[j] = None
    /\ \A j, k \in Jobs : document[j] = document[k] /\ document[j] # None => j = k
    /\ attempts = [j \in Jobs |-> <<>>]
    /\ reservations = [j \in Jobs |-> <<>>]
    /\ retries = [j \in Jobs |-> 0]
    /\ jobLock = [j \in Jobs |-> None]
    /\ reservationLock = [j \in Jobs |-> None]
    /\ documentLock = [d \in Documents |-> None]
    /\ session = [s \in Sessions |-> Idle]

(* A request gives up: a guard refuses it, the process dies, the database    *)
(* makes it the victim of a deadlock or times its lock wait out.             *)
Abort(s) ==
    /\ session[s].pc # "idle"
    /\ Commit(s, Idle)
    /\ UNCHANGED rows

-----------------------------------------------------------------------------
(* POST /ingestion/jobs: create_job and then, when the job it returned is    *)
(* new, queue_job in the same session.  Bound: none begins once every job    *)
(* exists.                                                                   *)
BeginCreate(s, d) ==
    /\ d \in CreatedFor(rowLocks)
    /\ \E j \in Jobs : status[j] = "absent"
    /\ session[s].pc = "idle"
    /\ Free(documentLock[d], s)
    /\ Goto(s, [Idle EXCEPT !.op = "create", !.pc = "read", !.document = d])
    /\ documentLock' = Locked(documentLock, {d}, s)
    /\ UNCHANGED <<rows, rowLocks, jobLock, reservationLock, now>>

FindActiveJob(s) ==
    /\ session[s].op = "create"
    /\ session[s].pc = "read"
    /\ IF ActiveJobsOf(session[s].document) = {}
       THEN /\ Goto(s, [session[s] EXCEPT !.pc = "inspected"])
            /\ UNCHANGED <<locks, now>>
       ELSE \E j \in ActiveJobsOf(session[s].document) :
              Commit(s, [session[s] EXCEPT !.pc = "created", !.job = j])
    /\ UNCHANGED rows

InsertJob(s) ==
    /\ session[s].op = "create"
    /\ session[s].pc = "inspected"
    /\ \E j \in Jobs :
        /\ status[j] = "absent"
        /\ status' = [status EXCEPT ![j] = "new"]
        /\ document' = [document EXCEPT ![j] = session[s].document]
        /\ Commit(s, [session[s] EXCEPT !.pc = "created", !.job = j])
    /\ UNCHANGED <<attempts, reservations, retries>>

(* get_job reloads the row; from here on the session holds this copy of it.  *)
ReloadJob(s) ==
    /\ session[s].pc = "created"
    /\ LET seen == status[session[s].job] IN
       Goto(s, IF seen = "new"
               THEN [Idle EXCEPT !.op = "queue", !.pc = "cached",
                                 !.job = session[s].job, !.status = seen]
               ELSE Idle)
    /\ UNCHANGED <<rows, locks, now>>

(* _locked_job: the row is read under its lock, but a copy the session       *)
(* already holds is not refreshed.                                           *)
LockCachedJob(s) ==
    /\ session[s].pc = "cached"
    /\ Free(jobLock[session[s].job], s)
    /\ jobLock' = Locked(jobLock, {session[s].job}, s)
    /\ Goto(s, [session[s] EXCEPT !.pc = "read"])
    /\ UNCHANGED <<rows, rowLocks, reservationLock, documentLock, now>>

(* A request about a job it finds ended is refused, and left out.            *)
LockJob(s, op, j) ==
    /\ op \in Operations
    /\ session[s].pc = "idle"
    /\ status[j] \notin {"absent", "succeeded", "cancelled"}
    /\ Free(jobLock[j], s)
    /\ jobLock' = Locked(jobLock, {j}, s)
    /\ Goto(s, [Idle EXCEPT !.op = op, !.pc = "read", !.job = j, !.status = status[j]])
    /\ UNCHANGED <<rows, rowLocks, reservationLock, documentLock, now>>

-----------------------------------------------------------------------------
(* The reads an operation makes before its first flush, with the guards on   *)
(* them; a guard that fails leaves only Abort.                               *)
At(s, pc, op) == session[s].pc = pc /\ session[s].op = op

FindReservation(s, j) ==
    /\ Free(reservationLock[j], s)
    /\ reservationLock' = Locked(reservationLock, IF Active(j) = {} THEN {} ELSE {j}, s)

Inspected(s, i) ==
    /\ Goto(s, [session[s] EXCEPT !.pc = "inspected", !.found = i])
    /\ UNCHANGED <<rows, rowLocks, jobLock, documentLock, now>>

InspectQueue(s) ==
    /\ At(s, "read", "queue")
    /\ session[s].status \in {"new", "reserved"}
    /\ Inspected(s, 0)
    /\ UNCHANGED reservationLock

InspectReserve(s) == LET j == session[s].job IN
    /\ At(s, "read", "reserve")
    /\ FindReservation(s, j)
    /\ Active(j) = {}
    /\ session[s].status \in {"queued", "retrying"}
    /\ now + TTL <= MaxTime
    /\ Len(reservations[j]) < MaxReservations
    /\ Inspected(s, now + TTL)

InspectRelease(s) == LET j == session[s].job IN
    /\ At(s, "read", "release")
    /\ FindReservation(s, j)
    /\ session[s].status = "reserved"
    /\ \E r \in Active(j) : Inspected(s, r)

InspectStart(s) == LET j == session[s].job IN
    /\ At(s, "read", "start")
    /\ session[s].status = "reserved"
    /\ FindReservation(s, j)
    /\ \E r \in Active(j) : reservations[j][r].expiresAt > now
    /\ Inspected(s, 0)

InspectFinish(s) == LET j == session[s].job IN
    /\ At(s, "read", "complete") \/ At(s, "read", "fail")
    /\ session[s].status = "running"
    /\ \E n \in Running(j) : IsLatest(n, Running(j)) /\ Inspected(s, n)
    /\ UNCHANGED reservationLock

InspectRetry(s) ==
    /\ At(s, "read", "retry")
    /\ session[s].status = "failed"
    /\ retries[session[s].job] < RetryLimit
    /\ Inspected(s, 0)
    /\ UNCHANGED reservationLock

InspectCancel(s) == LET j == session[s].job IN
    /\ At(s, "read", "cancel")
    /\ session[s].status \in ActiveJobStatuses
    /\ IF session[s].status = "running"
       THEN \E n \in Running(j) : IsLatest(n, Running(j)) /\ Inspected(s, n)
       ELSE Inspected(s, 0)
    /\ UNCHANGED reservationLock

-----------------------------------------------------------------------------
(* The first flush opens the write transaction, so what follows it, later    *)
(* reads included, is one step up to the commit.                             *)
SetStatus(j, new) == status' = [status EXCEPT ![j] = new]
SetAttempt(j, n, outcome) ==
    attempts' = IF n = 0 THEN attempts ELSE [attempts EXCEPT ![j][n] = outcome]

(* _release_active_reservation reads after the flush.                        *)
ReleaseActive(s, j) ==
    /\ Active(j) # {} => Free(reservationLock[j], s)
    /\ reservations' = [reservations EXCEPT ![j] =
         [r \in DOMAIN reservations[j] |-> [reservations[j][r] EXCEPT !.active = FALSE]]]

WriteQueue(s) ==
    /\ At(s, "inspected", "queue")
    /\ SetStatus(session[s].job, "queued")
    /\ Commit(s, Idle)
    /\ UNCHANGED <<document, attempts, reservations, retries>>

(* The unique constraint on (job_id, active_slot) refuses a second active    *)
(* reservation.                                                              *)
NoUniqueSlot(j) == FALSE  \* bug: uq_job_active_reservation is missing
ViolatesUniqueSlot(j) == Active(j) # {}
WriteReserve(s) == LET j == session[s].job IN
    /\ At(s, "inspected", "reserve")
    /\ ~ViolatesUniqueSlot(j)
    /\ reservations' = [reservations EXCEPT ![j] =
                          Append(reservations[j], [expiresAt |-> session[s].found, active |-> TRUE])]
    /\ SetStatus(j, "reserved")
    /\ Commit(s, Idle)
    /\ UNCHANGED <<document, attempts, retries>>

WriteRelease(s) == LET j == session[s].job IN
    /\ At(s, "inspected", "release")
    /\ reservations' = [reservations EXCEPT ![j][session[s].found].active = FALSE]
    /\ SetStatus(j, "queued")
    /\ Commit(s, Idle)
    /\ UNCHANGED <<document, attempts, retries>>

WriteStart(s) == LET j == session[s].job IN
    /\ At(s, "inspected", "start")
    /\ SetStatus(j, "running")
    /\ attempts' = [attempts EXCEPT ![j] = Append(attempts[j], "running")]
    /\ Commit(s, Idle)
    /\ UNCHANGED <<document, reservations, retries>>

WriteFinish(s) == LET j == session[s].job IN
    /\ \/ At(s, "inspected", "complete") /\ SetAttempt(j, session[s].found, "success")
                                         /\ SetStatus(j, "succeeded")
       \/ At(s, "inspected", "fail") /\ SetAttempt(j, session[s].found, "failed")
                                     /\ SetStatus(j, "failed")
       \/ At(s, "inspected", "cancel") /\ SetAttempt(j, session[s].found, "failed")
                                       /\ SetStatus(j, "cancelled")
    /\ ReleaseActive(s, j)
    /\ Commit(s, Idle)
    /\ UNCHANGED <<document, retries>>

WriteRetry(s) == LET j == session[s].job IN
    /\ At(s, "inspected", "retry")
    /\ SetStatus(j, "retrying")
    /\ retries' = [retries EXCEPT ![j] = @ + 1]
    /\ Commit(s, Idle)
    /\ UNCHANGED <<document, attempts, reservations>>

-----------------------------------------------------------------------------
(* cleanup_expired_reservations locks the reservations first and then job    *)
(* after job, the opposite order of every other operation.  The first job is *)
(* read before the first flush; the others are read in the write             *)
(* transaction.                                                              *)
ExpiredRows == {row \in Jobs \X (1..MaxReservations) :
                  /\ row[2] \in Active(row[1])
                  /\ reservations[row[1]][row[2]].expiresAt <= now}

BeginCleanup(s) ==
    /\ session[s].pc = "idle"
    /\ ExpiredRows # {}
    /\ \A row \in ExpiredRows : Free(reservationLock[row[1]], s)
    /\ reservationLock' = Locked(reservationLock, {row[1] : row \in ExpiredRows}, s)
    /\ Goto(s, [Idle EXCEPT !.op = "cleanup", !.pc = "read", !.batch = ExpiredRows])
    /\ UNCHANGED <<rows, rowLocks, jobLock, documentLock, now>>

InspectCleanup(s) ==
    /\ At(s, "read", "cleanup")
    /\ \E row \in session[s].batch : LET j == row[1] IN
        /\ Free(jobLock[j], s)
        /\ jobLock' = Locked(jobLock, {j}, s)
        /\ IF status[j] = "running"
           THEN \E n \in Running(j) : /\ IsLatest(n, Running(j))
                                      /\ Goto(s, [session[s] EXCEPT !.pc = "inspected", !.job = j,
                                                                    !.status = status[j], !.found = n])
           ELSE Goto(s, [session[s] EXCEPT !.pc = "inspected", !.job = j, !.status = status[j]])
    /\ UNCHANGED <<rows, rowLocks, reservationLock, documentLock, now>>

(* The status cleanup sees of a job, and the attempt it then finishes.       *)
SeenStatus(s, j) == IF j = session[s].job THEN session[s].status ELSE status[j]
SeenAttempt(s, j, n) ==
    IF j = session[s].job THEN n = session[s].found ELSE IsLatest(n, Running(j))

WriteCleanup(s) ==
    LET batch == {row[1] : row \in session[s].batch}
        cut == {j \in batch : SeenStatus(s, j) = "running"}
        back == {j \in batch : SeenStatus(s, j) = "reserved"} IN
    /\ At(s, "inspected", "cleanup")
    /\ \A j \in batch : Free(jobLock[j], s)
    /\ \A j \in cut : \E n \in DOMAIN attempts[j] : SeenAttempt(s, j, n)
    /\ reservations' = [j \in Jobs |-> [r \in DOMAIN reservations[j] |->
                          IF <<j, r>> \in session[s].batch
                          THEN [reservations[j][r] EXCEPT !.active = FALSE]
                          ELSE reservations[j][r]]]
    /\ status' = [j \in Jobs |-> IF j \in cut THEN "failed"
                                 ELSE IF j \in back THEN "queued" ELSE status[j]]
    /\ attempts' = [j \in Jobs |-> [n \in DOMAIN attempts[j] |->
                      IF j \in cut /\ SeenAttempt(s, j, n) THEN "failed" ELSE attempts[j][n]]]
    /\ Commit(s, Idle)
    /\ UNCHANGED <<document, retries>>

Tick ==
    /\ now < MaxTime
    /\ now' = now + 1
    /\ UNCHANGED <<rows, locks, session>>

Next ==
    \/ \E s \in Sessions :
        \/ \E d \in Documents : BeginCreate(s, d)
        \/ FindActiveJob(s) \/ InsertJob(s) \/ ReloadJob(s) \/ LockCachedJob(s)
        \/ \E op \in Operations, j \in Jobs : LockJob(s, op, j)
        \/ InspectQueue(s) \/ InspectReserve(s) \/ InspectRelease(s) \/ InspectStart(s)
        \/ InspectFinish(s) \/ InspectRetry(s) \/ InspectCancel(s)
        \/ WriteQueue(s) \/ WriteReserve(s) \/ WriteRelease(s) \/ WriteStart(s)
        \/ WriteFinish(s) \/ WriteRetry(s)
        \/ BeginCleanup(s) \/ InspectCleanup(s) \/ WriteCleanup(s)
        \/ Abort(s)
    \/ Tick

Spec == Init /\ [][Next]_vars

-----------------------------------------------------------------------------
TypeOK ==
    /\ status \in [Jobs -> ActiveJobStatuses \cup {"absent", "succeeded", "cancelled"}]
    /\ document \in [Jobs -> Documents \cup {None}]
    /\ attempts \in [Jobs -> Seq({"running", "success", "failed"})]
    /\ reservations \in [Jobs -> Seq([expiresAt : 0..MaxTime, active : BOOLEAN])]
    /\ retries \in [Jobs -> Nat]
    /\ now \in 0..MaxTime
    /\ rowLocks \in BOOLEAN
    /\ {jobLock[j] : j \in Jobs} \cup {reservationLock[j] : j \in Jobs}
         \cup {documentLock[d] : d \in Documents} \subseteq Sessions \cup {None}
    /\ \A s \in Sessions : session[s].job \in Jobs \cup {None}

(* What the job row locks buy: while every request makes one call per        *)
(* session, each call, split into its database accesses and interleaved with *)
(* the others and with cleanup's opposite lock order, still moves a job as   *)
(* JobLifecycle says and in one step.  Nothing is promised without them.     *)
Shown(j) ==
    IF rowLocks
    THEN [status |-> status[j], attempts |-> attempts[j], held |-> Active(j) # {}, retries |-> retries[j]]
    ELSE [status |-> "queued", attempts |-> <<>>, held |-> FALSE, retries |-> 0]
Lifecycle == INSTANCE JobLifecycle WITH job <- [j \in Jobs |-> Shown(j)]
ImplementsLifecycle == Lifecycle!Spec

(* "permit at most one active reservation per job": without row locks two    *)
(* nodes can both find a job unreserved; the unique constraint on            *)
(* (job_id, active_slot) lets one of them through.                           *)
OneActiveReservation == \A j \in Jobs : Cardinality(Active(j)) <= 1

(* The rows have their types whatever sessions are cut off, and no job ever  *)
(* shows two active reservations.                                            *)
ReservationsConsistent == TypeOK /\ OneActiveReservation
=============================================================================
