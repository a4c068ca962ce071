----------------------- MODULE IngestionSessionsProofs -----------------------
(* Proofs about IngestionSessions, for any jobs, documents, sessions and     *)
(* bounds.                                                                   *)
EXTENDS IngestionSessions, FiniteSetTheorems, TLAPS

JobStatuses == ActiveJobStatuses \cup {"absent", "succeeded", "cancelled"}

SessionRecords ==
    [op : Operations \cup {"none", "create", "queue", "cleanup"},
     pc : {"idle", "read", "inspected", "created", "cached"},
     document : Documents \cup {None}, job : Jobs \cup {None}, status : JobStatuses,
     found : Nat, batch : SUBSET (Jobs \X Nat)]

(* A session has chosen its job as soon as it does anything to one.          *)
SessionOK(x) ==
    /\ x \in SessionRecords
    /\ x.pc \in {"created", "cached"} => x.job \in Jobs
    /\ x.pc \in {"read", "inspected"} /\ x.op \in Operations \cup {"queue"} => x.job \in Jobs
    /\ x.pc = "inspected" /\ x.op = "reserve" => x.found \in 0..MaxTime

RowsOK ==
    /\ status \in [Jobs -> JobStatuses]
    /\ document \in [Jobs -> Documents \cup {None}]
    /\ attempts \in [Jobs -> Seq({"running", "success", "failed"})]
    /\ reservations \in [Jobs -> Seq([expiresAt : 0..MaxTime, active : BOOLEAN])]
    /\ retries \in [Jobs -> Nat]
    /\ now \in 0..MaxTime
    /\ rowLocks \in BOOLEAN

LocksOK ==
    /\ jobLock \in [Jobs -> Sessions \cup {None}]
    /\ reservationLock \in [Jobs -> Sessions \cup {None}]
    /\ documentLock \in [Documents -> Sessions \cup {None}]

SessionsOK ==
    /\ session \in [Sessions -> SessionRecords]
    /\ \A s \in Sessions : SessionOK(session[s])

Types == RowsOK /\ LocksOK /\ SessionsOK

OneActive == \A j \in Jobs : \A r, q \in Active(j) : r = q

-----------------------------------------------------------------------------
LEMMA IdleIsOK == SessionOK(Idle)
  BY DEF SessionOK, SessionRecords, Idle, Operations, JobStatuses

(* What taking and releasing locks does to them: a session's own locks, and  *)
(* the others'.                                                              *)
LEMMA LockTypes ==
    ASSUME NEW S, NEW lock \in [S -> Sessions \cup {None}], NEW held, NEW s \in Sessions
    PROVE  /\ Locked(lock, held, s) \in [S -> Sessions \cup {None}]
           /\ Unlocked(lock, s) \in [S -> Sessions \cup {None}]
  BY DEF Locked, Unlocked

LEMMA LockedKeeps ==
    ASSUME NEW S, NEW lock \in [S -> Sessions \cup {None}], NEW held, NEW s \in Sessions,
           NEW x \in S, x \in held => Free(lock[x], s)
    PROVE  /\ \A t \in Sessions : lock[x] = t => Locked(lock, held, s)[x] = t
           /\ rowLocks /\ x \in held => Locked(lock, held, s)[x] = s
  BY NoneAssumption DEF Locked, Free

LEMMA UnlockedKeeps ==
    ASSUME NEW S, NEW lock \in [S -> Sessions \cup {None}], NEW s \in Sessions,
           NEW x \in S, NEW t \in Sessions \ {s}, lock[x] = t
    PROVE  Unlocked(lock, s)[x] = t
  BY DEF Unlocked

LEMMA GotoFacts ==
    ASSUME SessionsOK, NEW s \in Sessions, NEW next, SessionOK(next), Goto(s, next)
    PROVE  /\ SessionsOK'
           /\ session'[s] = next
           /\ \A t \in Sessions \ {s} : session'[t] = session[t]
<1>1. next \in SessionRecords
  BY DEF SessionOK
<1>2. \A t \in Sessions : session'[t] = IF t = s THEN next ELSE session[t]
  BY DEF Goto, SessionsOK
<1>3. session' \in [Sessions -> SessionRecords]
  BY <1>1 DEF Goto, SessionsOK
<1> QED BY <1>2, <1>3 DEF SessionsOK

LEMMA CommitFacts ==
    ASSUME Types, NEW s \in Sessions, NEW next, SessionOK(next), Commit(s, next)
    PROVE  /\ LocksOK' /\ SessionsOK'
           /\ now' = now /\ rowLocks' = rowLocks
           /\ session'[s] = next
           /\ \A t \in Sessions \ {s} :
                /\ session'[t] = session[t]
                /\ \A j \in Jobs : jobLock[j] = t => jobLock'[j] = t
                /\ \A j \in Jobs : reservationLock[j] = t => reservationLock'[j] = t
<1>1. Goto(s, next) /\ now' = now
  BY DEF Commit
<1>2. /\ jobLock' = Unlocked(jobLock, s) /\ reservationLock' = Unlocked(reservationLock, s)
      /\ documentLock' = Unlocked(documentLock, s) /\ rowLocks' = rowLocks
  BY DEF Commit, ReleaseLocks
<1>3. LocksOK'
  BY <1>2, LockTypes DEF Types, LocksOK
<1>4. SessionsOK' /\ session'[s] = next /\ \A t \in Sessions \ {s} : session'[t] = session[t]
  BY <1>1, GotoFacts DEF Types
<1>5. \A t \in Sessions \ {s} : \A j \in Jobs :
        (jobLock[j] = t => jobLock'[j] = t) /\ (reservationLock[j] = t => reservationLock'[j] = t)
  <2>1. jobLock \in [Jobs -> Sessions \cup {None}] /\ reservationLock \in [Jobs -> Sessions \cup {None}]
    BY DEF Types, LocksOK
  <2>2. \A t \in Sessions \ {s} : \A j \in Jobs : jobLock[j] = t => jobLock'[j] = t
    BY <1>2, <2>1, UnlockedKeeps
  <2>3. \A t \in Sessions \ {s} : \A j \in Jobs : reservationLock[j] = t => reservationLock'[j] = t
    BY <1>2, <2>1, UnlockedKeeps
  <2> QED BY <2>2, <2>3
<1> QED BY <1>1, <1>2, <1>3, <1>4, <1>5

(* What a write leaves of a job's attempts and reservations.                 *)
LEMMA AttemptTypes ==
    ASSUME Types, NEW j \in Jobs
    PROVE  /\ attempts[j] \in Seq({"running", "success", "failed"})
           /\ Len(attempts[j]) \in Nat /\ DOMAIN attempts[j] = 1..Len(attempts[j])
           /\ reservations[j] \in Seq([expiresAt : 0..MaxTime, active : BOOLEAN])
           /\ Len(reservations[j]) \in Nat /\ DOMAIN reservations[j] = 1..Len(reservations[j])
           /\ \A r \in DOMAIN reservations[j] : reservations[j][r] \in [expiresAt : 0..MaxTime, active : BOOLEAN]
           /\ \A n \in DOMAIN attempts[j] : attempts[j][n] \in {"running", "success", "failed"}
           /\ Active(j) \subseteq Nat /\ Running(j) \subseteq Nat
<1>1. /\ attempts[j] \in Seq({"running", "success", "failed"})
      /\ reservations[j] \in Seq([expiresAt : 0..MaxTime, active : BOOLEAN])
  BY DEF Types, RowsOK
<1>a. \A S : \A q \in Seq(S) : Len(q) \in Nat /\ DOMAIN q = 1..Len(q) /\ \A i \in DOMAIN q : q[i] \in S
  OBVIOUS
<1>2. \A r \in DOMAIN reservations[j] : reservations[j][r] \in [expiresAt : 0..MaxTime, active : BOOLEAN]
  BY <1>1, <1>a
<1>3. \A n \in DOMAIN attempts[j] : attempts[j][n] \in {"running", "success", "failed"}
  BY <1>1, <1>a
<1>4. Active(j) \subseteq Nat /\ Running(j) \subseteq Nat
  BY <1>1, <1>a DEF Active, Running
<1> QED BY <1>1, <1>2, <1>3, <1>4

LEMMA SeqFromFunction ==
    ASSUME NEW S, NEW n \in Nat, NEW f \in [1..n -> S]
    PROVE  f \in Seq(S) /\ Len(f) = n /\ DOMAIN f = 1..n
  OBVIOUS

-----------------------------------------------------------------------------
(* Every step of a session moves that session alone, and leaves the others   *)
(* their locks.                                                              *)
Kept(old, new) ==
    /\ new \in [DOMAIN old -> Sessions \cup {None}]
    /\ \A x \in DOMAIN old : \A t \in Sessions : old[x] = t => new[x] = t

Moves(s) ==
    /\ LocksOK' /\ SessionsOK'
    /\ rowLocks' = rowLocks /\ now' = now
    /\ \A t \in Sessions \ {s} :
         /\ session'[t] = session[t]
         /\ \A j \in Jobs : jobLock[j] = t => jobLock'[j] = t
         /\ \A j \in Jobs : reservationLock[j] = t => reservationLock'[j] = t

LEMMA LockedKept ==
    ASSUME NEW S, NEW lock \in [S -> Sessions \cup {None}], NEW held, NEW s \in Sessions,
           \A x \in S : x \in held => Free(lock[x], s)
    PROVE  Kept(lock, Locked(lock, held, s)) /\ Kept(lock, lock)
<1>1. \A x \in S : \A t \in Sessions : lock[x] = t => Locked(lock, held, s)[x] = t
  BY LockedKeeps
<1> QED BY <1>1, LockTypes DEF Kept

LEMMA QuietMoves ==
    ASSUME Types, NEW s \in Sessions, NEW next, SessionOK(next), Goto(s, next),
           UNCHANGED <<rowLocks, now>>,
           Kept(jobLock, jobLock'), Kept(reservationLock, reservationLock'), Kept(documentLock, documentLock')
    PROVE  Moves(s) /\ session'[s] = next
<1>1. SessionsOK' /\ session'[s] = next /\ \A t \in Sessions \ {s} : session'[t] = session[t]
  BY GotoFacts DEF Types
<1>2. DOMAIN jobLock = Jobs /\ DOMAIN reservationLock = Jobs /\ DOMAIN documentLock = Documents
  BY DEF Types, LocksOK
<1>3. LocksOK'
  BY <1>2 DEF LocksOK, Kept
<1>4. \A t \in Sessions \ {s} : \A j \in Jobs :
        (jobLock[j] = t => jobLock'[j] = t) /\ (reservationLock[j] = t => reservationLock'[j] = t)
  BY <1>2 DEF Kept
<1> QED BY <1>1, <1>3, <1>4 DEF Moves

LEMMA CommitMoves ==
    ASSUME Types, NEW s \in Sessions, NEW next, SessionOK(next), Commit(s, next)
    PROVE  Moves(s) /\ session'[s] = next
  BY CommitFacts DEF Moves

(* The locks that steps take are free.                                       *)
LEMMA KeptFacts ==
    ASSUME Types, NEW s \in Sessions
    PROVE  /\ Kept(jobLock, jobLock) /\ Kept(reservationLock, reservationLock) /\ Kept(documentLock, documentLock)
           /\ \A j : Free(jobLock[j], s) => Kept(jobLock, Locked(jobLock, {j}, s))
           /\ \A held : (\A j \in held : Free(reservationLock[j], s)) =>
                Kept(reservationLock, Locked(reservationLock, held, s))
           /\ \A d : Free(documentLock[d], s) => Kept(documentLock, Locked(documentLock, {d}, s))
<1>1. Kept(jobLock, jobLock) /\ Kept(reservationLock, reservationLock) /\ Kept(documentLock, documentLock)
  BY DEF Types, LocksOK, Kept
<1>2. ASSUME NEW j, Free(jobLock[j], s) PROVE Kept(jobLock, Locked(jobLock, {j}, s))
  BY <1>2, LockedKept DEF Types, LocksOK
<1>3. ASSUME NEW held, \A j \in held : Free(reservationLock[j], s)
      PROVE  Kept(reservationLock, Locked(reservationLock, held, s))
  BY <1>3, LockedKept DEF Types, LocksOK
<1>4. ASSUME NEW d, Free(documentLock[d], s) PROVE Kept(documentLock, Locked(documentLock, {d}, s))
  BY <1>4, LockedKept DEF Types, LocksOK
<1> QED BY <1>1, <1>2, <1>3, <1>4

-----------------------------------------------------------------------------
(* Where each step leaves its session.                                       *)
LEMMA SessionTypes ==
    ASSUME Types, NEW s \in Sessions
    PROVE  /\ session[s] \in SessionRecords /\ SessionOK(session[s])
           /\ session[s].document \in Documents \cup {None} /\ session[s].status \in JobStatuses
           /\ session[s].batch \in SUBSET (Jobs \X Nat) /\ session[s].found \in Nat
<1>1. session[s] \in SessionRecords /\ SessionOK(session[s])
  BY DEF Types, SessionsOK
<1> QED BY <1>1 DEF SessionRecords

LEMMA CreateMoves ==
    ASSUME Types, NEW s \in Sessions,
           (\E d \in Documents : BeginCreate(s, d)) \/ FindActiveJob(s) \/ InsertJob(s)
    PROVE  Moves(s)
<1>1. ASSUME NEW d \in Documents, BeginCreate(s, d) PROVE Moves(s)
  <2> DEFINE next == [Idle EXCEPT !.op = "create", !.pc = "read", !.document = d]
  <2>1. SessionOK(next)
    BY IdleIsOK DEF SessionOK, SessionRecords, Idle, Operations
  <2>2. Goto(s, next) /\ UNCHANGED <<rowLocks, now>>
    BY <1>1 DEF BeginCreate
  <2>3. Kept(jobLock, jobLock') /\ Kept(reservationLock, reservationLock') /\ Kept(documentLock, documentLock')
    BY <1>1, KeptFacts DEF BeginCreate
  <2> HIDE DEF next
  <2> QED BY <2>1, <2>2, <2>3, QuietMoves
<1>2. ASSUME FindActiveJob(s) PROVE Moves(s)
  <2>1. CASE Goto(s, [session[s] EXCEPT !.pc = "inspected"]) /\ UNCHANGED <<locks, now>>
    <3> DEFINE next == [session[s] EXCEPT !.pc = "inspected"]
    <3>1. session[s].op = "create"
      BY <1>2 DEF FindActiveJob
    <3>2. SessionOK(next)
      BY <3>1, SessionTypes DEF SessionOK, SessionRecords, Operations
    <3> HIDE DEF next
    <3>3. Goto(s, next)
      BY <2>1 DEF next
    <3>4. Kept(jobLock, jobLock') /\ Kept(reservationLock, reservationLock') /\ Kept(documentLock, documentLock')
      BY <2>1, KeptFacts DEF locks
    <3> QED BY <2>1, <3>2, <3>3, <3>4, QuietMoves DEF locks
  <2>2. ASSUME NEW j \in Jobs, Commit(s, [session[s] EXCEPT !.pc = "created", !.job = j])
        PROVE  Moves(s)
    <3> DEFINE next == [session[s] EXCEPT !.pc = "created", !.job = j]
    <3>1. SessionOK(next)
      BY SessionTypes DEF SessionOK, SessionRecords
    <3> HIDE DEF next
    <3> QED BY <2>2, <3>1, CommitMoves DEF next
  <2> QED BY <1>2, <2>1, <2>2 DEF FindActiveJob, ActiveJobsOf
<1>3. ASSUME InsertJob(s) PROVE Moves(s)
  <2>1. PICK j \in Jobs : Commit(s, [session[s] EXCEPT !.pc = "created", !.job = j])
    BY <1>3 DEF InsertJob
  <2> DEFINE next == [session[s] EXCEPT !.pc = "created", !.job = j]
  <2>2. SessionOK(next)
    BY SessionTypes DEF SessionOK, SessionRecords
  <2> HIDE DEF next
  <2> QED BY <2>1, <2>2, CommitMoves DEF next
<1> QED BY <1>1, <1>2, <1>3

LEMMA LockMoves ==
    ASSUME Types, NEW s \in Sessions,
           \/ ReloadJob(s) \/ LockCachedJob(s)
           \/ \E op \in Operations, j \in Jobs : LockJob(s, op, j)
    PROVE  Moves(s)
<1>1. ASSUME ReloadJob(s) PROVE Moves(s)
  <2> DEFINE seen == status[session[s].job]
             next == IF seen = "new"
                     THEN [Idle EXCEPT !.op = "queue", !.pc = "cached", !.job = session[s].job, !.status = seen]
                     ELSE Idle
  <2>1. session[s].job \in Jobs
    BY <1>1, SessionTypes DEF ReloadJob, SessionOK
  <2>2. seen \in JobStatuses
    BY <2>1 DEF Types, RowsOK
  <2> HIDE DEF seen
  <2>3. SessionOK(next)
    BY <2>1, <2>2, IdleIsOK DEF SessionOK, SessionRecords, Idle, Operations
  <2> HIDE DEF next
  <2>4. Goto(s, next) /\ UNCHANGED <<locks, now>>
    BY <1>1 DEF ReloadJob, next, seen
  <2>5. Kept(jobLock, jobLock') /\ Kept(reservationLock, reservationLock') /\ Kept(documentLock, documentLock')
    BY <2>4, KeptFacts DEF locks
  <2> QED BY <2>3, <2>4, <2>5, QuietMoves DEF locks
<1>2. ASSUME LockCachedJob(s) PROVE Moves(s)
  <2> DEFINE next == [session[s] EXCEPT !.pc = "read"]
  <2>1. session[s].job \in Jobs /\ Goto(s, next) /\ UNCHANGED <<rowLocks, now>>
    BY <1>2, SessionTypes DEF LockCachedJob, SessionOK
  <2>2. SessionOK(next)
    BY <2>1, SessionTypes DEF SessionOK, SessionRecords
  <2>3. Kept(jobLock, jobLock') /\ Kept(reservationLock, reservationLock') /\ Kept(documentLock, documentLock')
    BY <1>2, KeptFacts DEF LockCachedJob
  <2> HIDE DEF next
  <2> QED BY <2>1, <2>2, <2>3, QuietMoves
<1>3. ASSUME NEW op \in Operations, NEW j \in Jobs, LockJob(s, op, j) PROVE Moves(s)
  <2> DEFINE next == [Idle EXCEPT !.op = op, !.pc = "read", !.job = j, !.status = status[j]]
  <2>1. Goto(s, next) /\ UNCHANGED <<rowLocks, now>>
    BY <1>3 DEF LockJob
  <2>2. SessionOK(next)
    <3>1. status[j] \in JobStatuses
      BY DEF Types, RowsOK
    <3> QED BY <3>1, IdleIsOK DEF SessionOK, SessionRecords, Idle
  <2>3. Kept(jobLock, jobLock') /\ Kept(reservationLock, reservationLock') /\ Kept(documentLock, documentLock')
    BY <1>3, KeptFacts DEF LockJob
  <2> HIDE DEF next
  <2> QED BY <2>1, <2>2, <2>3, QuietMoves
<1> QED BY <1>1, <1>2, <1>3

Inspects(s) ==
    \/ InspectQueue(s) \/ InspectReserve(s) \/ InspectRelease(s) \/ InspectStart(s)
    \/ InspectFinish(s) \/ InspectRetry(s) \/ InspectCancel(s)

LEMMA InspectedMoves ==
    ASSUME Types, NEW s \in Sessions, NEW op \in Operations \cup {"queue"}, At(s, "read", op),
           NEW i \in Nat, op = "reserve" => i \in 0..MaxTime,
           Inspected(s, i), Kept(reservationLock, reservationLock')
    PROVE  Moves(s) /\ session'[s] = [session[s] EXCEPT !.pc = "inspected", !.found = i]
<1> DEFINE next == [session[s] EXCEPT !.pc = "inspected", !.found = i]
<1>1. SessionOK(next)
  BY SessionTypes DEF SessionOK, SessionRecords, At
<1>2. Goto(s, next) /\ UNCHANGED <<rowLocks, now>>
  BY DEF Inspected
<1>3. Kept(jobLock, jobLock') /\ Kept(documentLock, documentLock')
  BY KeptFacts DEF Inspected
<1> HIDE DEF next
<1>4. Moves(s) /\ session'[s] = next
  BY <1>1, <1>2, <1>3, QuietMoves
<1> QED BY <1>4 DEF next

(* What an operation has found when it has inspected its job.                *)
Inspection(s, op, i) == LET j == session[s].job IN
    /\ At(s, "read", op) /\ j \in Jobs
    /\ Inspected(s, i) /\ i \in Nat
    /\ op = "reserve" => i \in 0..MaxTime /\ session[s].status \in {"queued", "retrying"}
    /\ op \in {"release", "start"} => session[s].status = "reserved"
    /\ op = "release" => /\ i \in Active(j)
                         /\ Free(reservationLock[j], s)
                         /\ reservationLock' = Locked(reservationLock, {j}, s)
    /\ op \in {"complete", "fail"} => session[s].status = "running"
    /\ op = "cancel" => session[s].status \in ActiveJobStatuses
    /\ op = "retry" => session[s].status = "failed"
    /\ op \in {"complete", "fail"} \/ (op = "cancel" /\ session[s].status = "running")
         => IsLatest(i, Running(j))
    /\ op = "cancel" /\ session[s].status # "running" => i = 0

LEMMA InspectionFacts ==
    ASSUME Types, NEW s \in Sessions, Inspects(s)
    PROVE  /\ Kept(reservationLock, reservationLock')
           /\ \E op \in Operations \cup {"queue"}, i \in Nat : Inspection(s, op, i)
<1> DEFINE j == session[s].job
           op == session[s].op
<1>1. j \in Jobs /\ session[s].pc = "read" /\ op \in Operations \cup {"queue"}
  <2>1. session[s].pc = "read" /\ op \in Operations \cup {"queue"}
    BY DEF Inspects, At, InspectQueue, InspectReserve, InspectRelease, InspectStart, InspectFinish,
           InspectRetry, InspectCancel, Operations
  <2> QED BY <2>1, SessionTypes DEF SessionOK
<1>2. Active(j) \subseteq Nat /\ Running(j) \subseteq Nat /\ now \in 0..MaxTime /\ TTL \in Nat /\ MaxTime \in Nat
  BY <1>1, AttemptTypes, ParametersAssumption DEF Types, RowsOK
<1>3. ASSUME FindReservation(s, j) PROVE Kept(reservationLock, reservationLock')
  BY <1>3, KeptFacts DEF FindReservation
<1>4. CASE InspectQueue(s)
  BY <1>1, <1>4, KeptFacts DEF InspectQueue, Inspection, At, Operations
<1>5. CASE InspectReserve(s)
  BY <1>1, <1>2, <1>3, <1>5 DEF InspectReserve, Inspection, At, Operations
<1>6. CASE InspectRelease(s)
  <2>1. PICK i \in Active(j) : Inspected(s, i)
    BY <1>6 DEF InspectRelease
  <2>2. FindReservation(s, j) /\ At(s, "read", "release") /\ session[s].status = "reserved"
    BY <1>6 DEF InspectRelease
  <2>3. Free(reservationLock[j], s) /\ reservationLock' = Locked(reservationLock, {j}, s)
    BY <2>1, <2>2 DEF FindReservation
  <2>4. Inspection(s, "release", i)
    BY <1>1, <1>2, <2>1, <2>2, <2>3 DEF Inspection
  <2> QED BY <1>2, <1>3, <2>1, <2>2, <2>4 DEF Operations
<1>7. CASE InspectStart(s)
  BY <1>1, <1>3, <1>7 DEF InspectStart, Inspection, At, Operations
<1>8. CASE InspectFinish(s)
  <2>1. PICK n \in Running(j) : IsLatest(n, Running(j)) /\ Inspected(s, n)
    BY <1>8 DEF InspectFinish
  <2>2. Inspection(s, op, n)
    BY <1>1, <1>2, <1>8, <2>1 DEF InspectFinish, Inspection, At
  <2>3. Kept(reservationLock, reservationLock')
    BY <1>8, KeptFacts DEF InspectFinish
  <2> QED BY <1>1, <1>2, <2>2, <2>3
<1>9. CASE InspectRetry(s)
  BY <1>1, <1>9, KeptFacts DEF InspectRetry, Inspection, At, Operations
<1>10. CASE InspectCancel(s)
  <2>1. Kept(reservationLock, reservationLock')
    BY <1>10, KeptFacts DEF InspectCancel
  <2>2. CASE session[s].status = "running"
    <3>1. PICK n \in Running(j) : IsLatest(n, Running(j)) /\ Inspected(s, n)
      BY <1>10, <2>2 DEF InspectCancel
    <3>2. Inspection(s, op, n)
      BY <1>1, <1>2, <1>10, <2>2, <3>1 DEF InspectCancel, Inspection, At
    <3> QED BY <1>1, <1>2, <2>1, <3>2
  <2>3. CASE session[s].status # "running"
    BY <1>1, <1>10, <2>1, <2>3 DEF InspectCancel, Inspection, At, Operations
  <2> QED BY <2>2, <2>3
<1> QED BY <1>4, <1>5, <1>6, <1>7, <1>8, <1>9, <1>10 DEF Inspects

LEMMA InspectMoves ==
    ASSUME Types, NEW s \in Sessions, Inspects(s)
    PROVE  Moves(s)
<1>1. PICK op \in Operations \cup {"queue"}, i \in Nat : Inspection(s, op, i)
  BY InspectionFacts
<1>2. At(s, "read", op) /\ Inspected(s, i) /\ (op = "reserve" => i \in 0..MaxTime)
  BY <1>1 DEF Inspection
<1> QED BY <1>2, InspectionFacts, InspectedMoves

LEMMA BeginCleanupMoves ==
    ASSUME Types, NEW s \in Sessions, BeginCleanup(s)
    PROVE  /\ Moves(s)
           /\ session'[s] = [Idle EXCEPT !.op = "cleanup", !.pc = "read", !.batch = ExpiredRows]
<1> DEFINE next == [Idle EXCEPT !.op = "cleanup", !.pc = "read", !.batch = ExpiredRows]
           held == {row[1] : row \in ExpiredRows}
<1>1. Goto(s, next) /\ UNCHANGED <<rowLocks, now>>
  BY DEF BeginCleanup
<1>2. ExpiredRows \in SUBSET (Jobs \X Nat)
  BY ParametersAssumption DEF ExpiredRows
<1>3. SessionOK(next)
  BY <1>2, IdleIsOK DEF SessionOK, SessionRecords, Idle, Operations
<1>4. \A j \in held : Free(reservationLock[j], s)
  BY DEF BeginCleanup
<1>5. Kept(jobLock, jobLock') /\ Kept(documentLock, documentLock')
  BY KeptFacts DEF BeginCleanup
<1>6. reservationLock' = Locked(reservationLock, held, s)
  BY DEF BeginCleanup
<1> HIDE DEF next, held
<1>7. Kept(reservationLock, reservationLock')
  BY <1>4, <1>6, KeptFacts
<1>8. Moves(s) /\ session'[s] = next
  BY <1>1, <1>3, <1>5, <1>7, QuietMoves
<1> QED BY <1>8 DEF next

(* A cleanup has picked a row of its batch, and the attempt it will finish.  *)
CleanupPick(s, j, n) ==
    /\ \E row \in session[s].batch : row[1] = j
    /\ j \in Jobs /\ n \in Nat
    /\ Free(jobLock[j], s)
    /\ jobLock' = Locked(jobLock, {j}, s)
    /\ status[j] = "running" => IsLatest(n, Running(j))
    /\ session'[s] = [session[s] EXCEPT !.pc = "inspected", !.job = j, !.status = status[j], !.found = n]

LEMMA InspectCleanupMoves ==
    ASSUME Types, NEW s \in Sessions, InspectCleanup(s)
    PROVE  Moves(s) /\ \E j \in Jobs, n \in Nat : CleanupPick(s, j, n)
<1>1. PICK row \in session[s].batch : LET j == row[1] IN
        /\ Free(jobLock[j], s)
        /\ jobLock' = Locked(jobLock, {j}, s)
        /\ IF status[j] = "running"
           THEN \E n \in Running(j) : /\ IsLatest(n, Running(j))
                                      /\ Goto(s, [session[s] EXCEPT !.pc = "inspected", !.job = j,
                                                                    !.status = status[j], !.found = n])
           ELSE Goto(s, [session[s] EXCEPT !.pc = "inspected", !.job = j, !.status = status[j]])
  BY DEF InspectCleanup
<1> DEFINE j == row[1]
<1>2. j \in Jobs /\ status[j] \in JobStatuses /\ Running(j) \subseteq Nat
  <2>1. row \in Jobs \X Nat
    BY SessionTypes
  <2>2. j \in Jobs
    BY <2>1
  <2>3. status[j] \in JobStatuses
    BY <2>2 DEF Types, RowsOK
  <2> HIDE DEF j
  <2> QED BY <2>2, <2>3, AttemptTypes
<1>3. PICK n \in Nat :
        /\ status[j] = "running" => IsLatest(n, Running(j))
        /\ Goto(s, [session[s] EXCEPT !.pc = "inspected", !.job = j, !.status = status[j], !.found = n])
  <2>1. CASE status[j] = "running"
    BY <1>1, <1>2, <2>1
  <2>2. CASE status[j] # "running"
    <3>1. session[s].found \in Nat /\ session[s] \in SessionRecords
      BY SessionTypes
    <3>2. [session[s] EXCEPT !.pc = "inspected", !.job = j, !.status = status[j]] =
            [session[s] EXCEPT !.pc = "inspected", !.job = j, !.status = status[j], !.found = session[s].found]
      BY <3>1 DEF SessionRecords
    <3> QED BY <1>1, <2>2, <3>1, <3>2
  <2> QED BY <2>1, <2>2
<1> DEFINE next == [session[s] EXCEPT !.pc = "inspected", !.job = j, !.status = status[j], !.found = n]
<1>4. session[s].op = "cleanup" /\ UNCHANGED <<rowLocks, now>>
  BY DEF InspectCleanup, At
<1>5. SessionOK(next)
  BY <1>2, <1>4, SessionTypes DEF SessionOK, SessionRecords, Operations
<1>6. Kept(jobLock, jobLock')
  BY <1>1, KeptFacts
<1>7. Kept(reservationLock, reservationLock') /\ Kept(documentLock, documentLock')
  BY KeptFacts DEF InspectCleanup
<1>8. Goto(s, next)
  BY <1>3
<1>9. next = [session[s] EXCEPT !.pc = "inspected", !.job = j, !.status = status[j], !.found = n]
  OBVIOUS
<1> HIDE DEF next
<1>10. Moves(s) /\ session'[s] = next
  BY <1>4, <1>5, <1>6, <1>7, <1>8, QuietMoves
<1>11. CleanupPick(s, j, n)
  BY <1>1, <1>2, <1>3, <1>9, <1>10 DEF CleanupPick
<1> QED BY <1>2, <1>10, <1>11

Writes(s) ==
    \/ WriteQueue(s) \/ WriteReserve(s) \/ WriteRelease(s) \/ WriteStart(s)
    \/ WriteFinish(s) \/ WriteRetry(s) \/ WriteCleanup(s)

LEMMA WriteMoves ==
    ASSUME Types, NEW s \in Sessions, Writes(s) \/ Abort(s)
    PROVE  Moves(s) /\ session'[s] = Idle
<1>1. Commit(s, Idle)
  BY DEF Writes, Abort, WriteQueue, WriteReserve, WriteRelease, WriteStart, WriteFinish, WriteRetry, WriteCleanup
<1> QED BY <1>1, IdleIsOK, CommitMoves

-----------------------------------------------------------------------------
(* The reservations of a job after each kind of write, and which of them are *)
(* active.                                                                   *)
ReservationRows == [expiresAt : 0..MaxTime, active : BOOLEAN]

ActiveIn(q) == {r \in DOMAIN q : q[r].active}

LEMMA ReservedRows ==
    ASSUME NEW q \in Seq(ReservationRows), NEW e \in 0..MaxTime
    PROVE  LET p == Append(q, [expiresAt |-> e, active |-> TRUE]) IN
           p \in Seq(ReservationRows) /\ ActiveIn(p) = ActiveIn(q) \cup {Len(q) + 1}
<1> DEFINE x == [expiresAt |-> e, active |-> TRUE]
           p == Append(q, x)
<1>1. x \in ReservationRows /\ x.active
  BY DEF ReservationRows
<1> HIDE DEF x
<1>2. /\ p \in Seq(ReservationRows) /\ DOMAIN p = 1..(Len(q) + 1) /\ p[Len(q) + 1] = x
      /\ DOMAIN q = 1..Len(q) /\ Len(q) \in Nat
      /\ \A i \in 1..Len(q) : p[i] = q[i]
  BY <1>1
<1> HIDE DEF p
<1>3. ActiveIn(p) = ActiveIn(q) \cup {Len(q) + 1}
  BY <1>1, <1>2 DEF ActiveIn
<1> QED BY <1>2, <1>3 DEF p, x

LEMMA DeactivatedRows ==
    ASSUME NEW q \in Seq(ReservationRows), NEW off,
           NEW p, p = [r \in DOMAIN q |-> IF r \in off THEN [q[r] EXCEPT !.active = FALSE] ELSE q[r]]
    PROVE  p \in Seq(ReservationRows) /\ ActiveIn(p) = ActiveIn(q) \ off
<1>1. DOMAIN q = 1..Len(q) /\ Len(q) \in Nat /\ \A r \in DOMAIN q : q[r] \in ReservationRows
  OBVIOUS
<1>2. \A x \in ReservationRows :
        [x EXCEPT !.active = FALSE] \in ReservationRows /\ ~[x EXCEPT !.active = FALSE].active
  BY DEF ReservationRows
<1>3. \A r \in DOMAIN q : p[r] \in ReservationRows /\ (p[r].active <=> r \notin off /\ q[r].active)
  BY <1>1, <1>2
<1>4. p \in [1..Len(q) -> ReservationRows]
  BY <1>1, <1>3
<1>5. p \in Seq(ReservationRows) /\ DOMAIN p = DOMAIN q
  BY <1>1, <1>4, SeqFromFunction
<1> QED BY <1>3, <1>5 DEF ActiveIn

(* And its attempts.                                                         *)
Outcomes == {"running", "success", "failed"}

RunningIn(q) == {n \in DOMAIN q : q[n] = "running"}

LEMMA StartedAttempts ==
    ASSUME NEW q \in Seq(Outcomes)
    PROVE  LET p == Append(q, "running") IN
           p \in Seq(Outcomes) /\ Len(p) = Len(q) + 1 /\ RunningIn(p) = RunningIn(q) \cup {Len(q) + 1}
<1> DEFINE p == Append(q, "running")
<1>1. /\ p \in Seq(Outcomes) /\ DOMAIN p = 1..(Len(q) + 1) /\ p[Len(q) + 1] = "running"
      /\ Len(p) = Len(q) + 1 /\ DOMAIN q = 1..Len(q) /\ Len(q) \in Nat
      /\ \A i \in 1..Len(q) : p[i] = q[i]
  BY DEF Outcomes
<1> HIDE DEF p
<1>2. RunningIn(p) = RunningIn(q) \cup {Len(q) + 1}
  BY <1>1 DEF RunningIn
<1> QED BY <1>1, <1>2 DEF p

LEMMA FinishedAttempts ==
    ASSUME NEW q \in Seq(Outcomes), NEW off, NEW outcome \in {"success", "failed"},
           NEW p \in [DOMAIN q -> Outcomes], \A n \in DOMAIN q : p[n] = IF n \in off THEN outcome ELSE q[n]
    PROVE  p \in Seq(Outcomes) /\ Len(p) = Len(q) /\ RunningIn(p) = RunningIn(q) \ off
<1>1. DOMAIN q = 1..Len(q) /\ Len(q) \in Nat /\ \A n \in DOMAIN q : q[n] \in Outcomes
  OBVIOUS
<1>2. p \in [1..Len(q) -> Outcomes]
  BY <1>1 DEF Outcomes
<1>3. p \in Seq(Outcomes) /\ Len(p) = Len(q) /\ DOMAIN p = DOMAIN q
  BY <1>1, <1>2, SeqFromFunction
<1> QED BY <1>3 DEF RunningIn

(* What each write of an operation does to its job, st, a, q and n being the *)
(* new status, attempts, reservations and retries; cleanup is another kind.  *)
EndOf == [complete |-> "succeeded", fail |-> "failed", cancel |-> "cancelled"]
OutcomeOf == [complete |-> "success", fail |-> "failed", cancel |-> "failed"]

Effect(s, st, a, q, n) ==
    LET j == session[s].job
        op == session[s].op
        found == session[s].found IN
    \/ /\ op = "queue" /\ st = "queued"
       /\ a = attempts[j] /\ q = reservations[j] /\ n = retries[j]
    \/ /\ op = "reserve" /\ st = "reserved"
       /\ a = attempts[j] /\ n = retries[j]
       /\ Active(j) = {} /\ ActiveIn(q) = {Len(reservations[j]) + 1}
    \/ /\ op = "release" /\ st = "queued"
       /\ a = attempts[j] /\ n = retries[j]
       /\ ActiveIn(q) = Active(j) \ {found}
    \/ /\ op = "start" /\ st = "running"
       /\ a = Append(attempts[j], "running") /\ q = reservations[j] /\ n = retries[j]
    \/ /\ op \in DOMAIN EndOf /\ st = EndOf[op]
       /\ a = IF found = 0 THEN attempts[j] ELSE [attempts[j] EXCEPT ![found] = OutcomeOf[op]]
       /\ n = retries[j]
       /\ ActiveIn(q) = {}
       /\ Active(j) # {} => Free(reservationLock[j], s)
    \/ /\ op = "retry" /\ st = "retrying"
       /\ a = attempts[j] /\ q = reservations[j] /\ n = retries[j] + 1

Wrote(s, st, a, q, n) ==
    LET j == session[s].job IN
    /\ status' = [status EXCEPT ![j] = st]
    /\ attempts' = [attempts EXCEPT ![j] = a]
    /\ reservations' = [reservations EXCEPT ![j] = q]
    /\ retries' = [retries EXCEPT ![j] = n]
    /\ document' = document

LEMMA WriteEffects ==
    ASSUME Types, NEW s \in Sessions, Writes(s), ~WriteCleanup(s)
    PROVE  /\ session[s].job \in Jobs /\ session[s].pc = "inspected"
           /\ session[s].op \in Operations \cup {"queue"}
           /\ \E st \in JobStatuses, a \in Seq(Outcomes), q \in Seq(ReservationRows), n \in Nat :
                Wrote(s, st, a, q, n) /\ Effect(s, st, a, q, n)
<1> DEFINE j == session[s].job
           found == session[s].found
<1>1. session[s].pc = "inspected" /\ session[s].op \in Operations \cup {"queue"}
  BY DEF Writes, At, WriteQueue, WriteReserve, WriteRelease, WriteStart, WriteFinish, WriteRetry, Operations
<1>2. j \in Jobs
  BY <1>1, SessionTypes DEF SessionOK
<1>3. /\ attempts[j] \in Seq(Outcomes) /\ reservations[j] \in Seq(ReservationRows) /\ retries[j] \in Nat
      /\ status \in [Jobs -> JobStatuses] /\ attempts \in [Jobs -> Seq(Outcomes)]
      /\ reservations \in [Jobs -> Seq(ReservationRows)] /\ retries \in [Jobs -> Nat]
  BY <1>2 DEF Types, RowsOK, Outcomes, ReservationRows
<1>4. /\ attempts = [attempts EXCEPT ![j] = attempts[j]]
      /\ reservations = [reservations EXCEPT ![j] = reservations[j]]
      /\ retries = [retries EXCEPT ![j] = retries[j]]
  BY <1>2, <1>3
<1>5. Active(j) = ActiveIn(reservations[j])
  BY DEF Active, ActiveIn
<1>6. {"queued", "reserved", "running", "retrying", "succeeded", "failed", "cancelled"} \subseteq JobStatuses
  BY DEF JobStatuses, ActiveJobStatuses
<1>a. SUFFICES \E st \in JobStatuses, a \in Seq(Outcomes), q \in Seq(ReservationRows), n \in Nat :
                 Wrote(s, st, a, q, n) /\ Effect(s, st, a, q, n)
  BY <1>1, <1>2
<1> HIDE DEF j, found
<1>7. CASE WriteQueue(s)
  <2>1. Wrote(s, "queued", attempts[j], reservations[j], retries[j])
    BY <1>4, <1>7 DEF WriteQueue, SetStatus, Wrote, j
  <2>2. Effect(s, "queued", attempts[j], reservations[j], retries[j])
    BY <1>7 DEF WriteQueue, At, Effect, j
  <2> QED BY <1>3, <1>6, <2>1, <2>2
<1>8. CASE WriteReserve(s)
  <2> DEFINE q == Append(reservations[j], [expiresAt |-> found, active |-> TRUE])
  <2>1. found \in 0..MaxTime
    BY <1>8, SessionTypes DEF WriteReserve, At, SessionOK, found
  <2>2. Active(j) = {}
    BY <1>8 DEF WriteReserve, ViolatesUniqueSlot, j
  <2>3. q \in Seq(ReservationRows) /\ ActiveIn(q) = {Len(reservations[j]) + 1}
    <3> DEFINE old == reservations[j]
    <3>1. old \in Seq(ReservationRows)
      BY <1>3
    <3> HIDE DEF old
    <3>2. LET p == Append(old, [expiresAt |-> found, active |-> TRUE]) IN
          p \in Seq(ReservationRows) /\ ActiveIn(p) = ActiveIn(old) \cup {Len(old) + 1}
      BY <2>1, <3>1, ReservedRows
    <3>3. ActiveIn(old) = {}
      BY <1>5, <2>2 DEF old
    <3> QED BY <3>2, <3>3 DEF old
  <2>4. reservations' = [reservations EXCEPT ![j] = q]
    BY <1>8 DEF WriteReserve, j, found
  <2> HIDE DEF q
  <2>5. Wrote(s, "reserved", attempts[j], q, retries[j])
    BY <1>4, <1>8, <2>4 DEF WriteReserve, SetStatus, Wrote, j
  <2>6. Effect(s, "reserved", attempts[j], q, retries[j])
    BY <1>8, <2>2, <2>3 DEF WriteReserve, At, Effect, j
  <2> QED BY <1>3, <1>6, <2>3, <2>5, <2>6
<1>9. CASE WriteRelease(s)
  <2> DEFINE old == reservations[j]
             q == [r \in DOMAIN old |-> IF r \in {found} THEN [old[r] EXCEPT !.active = FALSE] ELSE old[r]]
  <2>1. q \in Seq(ReservationRows) /\ ActiveIn(q) = Active(j) \ {found}
    BY <1>3, <1>5, DeactivatedRows
  <2>2. reservations' = [reservations EXCEPT ![j][found].active = FALSE]
    BY <1>9 DEF WriteRelease, j, found
  <2>3. [old EXCEPT ![found].active = FALSE] = q
    OBVIOUS
  <2>4. reservations' = [reservations EXCEPT ![j] = q]
    BY <1>2, <1>3, <2>2, <2>3
  <2> HIDE DEF q, old
  <2>5. Wrote(s, "queued", attempts[j], q, retries[j])
    BY <1>4, <1>9, <2>4 DEF WriteRelease, SetStatus, Wrote, j
  <2>6. Effect(s, "queued", attempts[j], q, retries[j])
    BY <1>9, <2>1 DEF WriteRelease, At, Effect, j, found
  <2> QED BY <1>3, <1>6, <2>1, <2>5, <2>6
<1>10. CASE WriteStart(s)
  <2> DEFINE a == Append(attempts[j], "running")
  <2>1. a \in Seq(Outcomes)
    BY <1>3, StartedAttempts
  <2>2. Wrote(s, "running", a, reservations[j], retries[j])
    BY <1>4, <1>10 DEF WriteStart, SetStatus, Wrote, j
  <2>3. Effect(s, "running", a, reservations[j], retries[j])
    BY <1>10 DEF WriteStart, At, Effect, j
  <2> HIDE DEF a
  <2> QED BY <1>3, <1>6, <2>1, <2>2, <2>3
<1>11. CASE WriteFinish(s)
  <2> DEFINE op == session[s].op
             a == IF found = 0 THEN attempts[j] ELSE [attempts[j] EXCEPT ![found] = OutcomeOf[op]]
             old == reservations[j]
             q == [r \in DOMAIN old |-> [old[r] EXCEPT !.active = FALSE]]
  <2>1. /\ op \in DOMAIN EndOf /\ OutcomeOf[op] \in {"success", "failed"} /\ EndOf[op] \in JobStatuses
        /\ status' = [status EXCEPT ![j] = EndOf[op]]
        /\ SetAttempt(j, found, OutcomeOf[op])
    BY <1>6, <1>11 DEF WriteFinish, At, SetStatus, EndOf, OutcomeOf, j, found
  <2>2. ReleaseActive(s, j) /\ document' = document /\ retries' = retries
    BY <1>11 DEF WriteFinish, j
  <2>3. reservations' = [reservations EXCEPT ![j] = q] /\ (Active(j) # {} => Free(reservationLock[j], s))
    BY <2>2 DEF ReleaseActive
  <2>4. q = [r \in DOMAIN old |-> IF r \in DOMAIN old THEN [old[r] EXCEPT !.active = FALSE] ELSE old[r]]
    OBVIOUS
  <2>5. q \in Seq(ReservationRows) /\ ActiveIn(q) = ActiveIn(old) \ DOMAIN old
    <3> HIDE DEF q
    <3> QED BY <1>3, <2>4, DeactivatedRows
  <2>6. ActiveIn(q) = {}
    BY <2>5 DEF ActiveIn
  <2>7. a \in Seq(Outcomes)
    <3> DEFINE outcome == OutcomeOf[op]
               from == attempts[j]
               off == {found}
               p == [n \in DOMAIN from |-> IF n \in off THEN outcome ELSE from[n]]
    <3>1. outcome \in {"success", "failed"} /\ from \in Seq(Outcomes)
      BY <1>3, <2>1
    <3> HIDE DEF outcome, from, off
    <3>2. p \in Seq(Outcomes)
      <4>1. \A n \in DOMAIN from : p[n] = IF n \in off THEN outcome ELSE from[n]
        OBVIOUS
      <4>2. p \in [DOMAIN from -> Outcomes]
        BY <3>1 DEF Outcomes
      <4> HIDE DEF p
      <4> QED BY <3>1, <4>1, <4>2, FinishedAttempts
    <3>3. [from EXCEPT ![found] = outcome] = p
      BY DEF off
    <3> QED BY <3>1, <3>2, <3>3 DEF outcome, from
  <2>8. attempts' = [attempts EXCEPT ![j] = a]
    BY <1>2, <1>3, <1>4, <2>1 DEF SetAttempt
  <2> HIDE DEF a, q
  <2>9. Wrote(s, EndOf[op], a, q, retries[j])
    BY <1>4, <2>1, <2>2, <2>3, <2>8 DEF Wrote, j
  <2>10. Effect(s, EndOf[op], a, q, retries[j])
    BY <2>1, <2>3, <2>6 DEF Effect, j, found, a
  <2> QED BY <1>3, <2>1, <2>5, <2>7, <2>9, <2>10
<1>12. CASE WriteRetry(s)
  <2>1. Wrote(s, "retrying", attempts[j], reservations[j], retries[j] + 1)
    BY <1>4, <1>12 DEF WriteRetry, SetStatus, Wrote, j
  <2>2. Effect(s, "retrying", attempts[j], reservations[j], retries[j] + 1)
    BY <1>12 DEF WriteRetry, At, Effect, j
  <2>3. retries[j] + 1 \in Nat
    BY <1>3
  <2> QED BY <1>3, <1>6, <2>1, <2>2, <2>3
<1> QED BY <1>7, <1>8, <1>9, <1>10, <1>11, <1>12 DEF Writes

(* What a cleanup does to every job.                                         *)
Batch(s) == {row[1] : row \in session[s].batch}

LEMMA CleanupReservations ==
    ASSUME Types, NEW s \in Sessions, WriteCleanup(s), NEW j \in Jobs
    PROVE  /\ reservations'[j] \in Seq(ReservationRows)
           /\ Active(j)' = {r \in Active(j) : <<j, r>> \notin session[s].batch}
           /\ j \notin Batch(s) => reservations'[j] = reservations[j]
<1> DEFINE old == reservations[j]
           off == {r \in DOMAIN old : <<j, r>> \in session[s].batch}
           p == [r \in DOMAIN old |-> IF r \in off THEN [old[r] EXCEPT !.active = FALSE] ELSE old[r]]
<1>1. old \in Seq(ReservationRows)
  BY DEF Types, RowsOK, ReservationRows
<1>2. reservations'[j] = p
  BY DEF WriteCleanup
<1>3. p \in Seq(ReservationRows) /\ ActiveIn(p) = ActiveIn(old) \ off
  <2> HIDE DEF old, off
  <2> QED BY <1>1, DeactivatedRows
<1>4. Active(j)' = ActiveIn(reservations'[j]) /\ Active(j) = ActiveIn(old)
  BY DEF Active, ActiveIn
<1>5. ActiveIn(old) \ off = {r \in ActiveIn(old) : <<j, r>> \notin session[s].batch}
  BY DEF ActiveIn
<1>6. ASSUME j \notin Batch(s) PROVE p = old
  <2>1. off = {}
    <3>1. ASSUME NEW r \in off PROVE FALSE
      <4>1. <<j, r>> \in session[s].batch /\ <<j, r>>[1] = j
        OBVIOUS
      <4> QED BY <4>1, <1>6 DEF Batch
    <3> QED BY <3>1
  <2> HIDE DEF off
  <2>2. p = [r \in DOMAIN old |-> old[r]]
    BY <2>1
  <2> HIDE DEF p
  <2> QED BY <1>1, <2>2
<1> HIDE DEF p
<1> QED BY <1>2, <1>3, <1>4, <1>5, <1>6

LEMMA CleanupAttempts ==
    ASSUME Types, NEW s \in Sessions, WriteCleanup(s), NEW j \in Jobs
    PROVE  LET cut == j \in Batch(s) /\ SeenStatus(s, j) = "running" IN
           /\ attempts'[j] \in Seq(Outcomes)
           /\ cut => attempts'[j] = [n \in DOMAIN attempts[j] |->
                                       IF SeenAttempt(s, j, n) THEN "failed" ELSE attempts[j][n]]
           /\ ~cut => attempts'[j] = attempts[j]
<1> DEFINE cut == j \in Batch(s) /\ SeenStatus(s, j) = "running"
           old == attempts[j]
           p == attempts'[j]
<1>1. old \in Seq(Outcomes)
  BY DEF Types, RowsOK, Outcomes
<1>2. p = [n \in DOMAIN old |-> IF cut /\ SeenAttempt(s, j, n) THEN "failed" ELSE old[n]]
  <2>1. j \in {k \in Batch(s) : SeenStatus(s, k) = "running"} <=> cut
    OBVIOUS
  <2>2. attempts' = [k \in Jobs |-> [n \in DOMAIN attempts[k] |->
                       IF k \in {i \in Batch(s) : SeenStatus(s, i) = "running"} /\ SeenAttempt(s, k, n)
                       THEN "failed" ELSE attempts[k][n]]]
    BY DEF WriteCleanup, Batch
  <2> QED BY <2>1, <2>2
<1> HIDE DEF cut, old, p
<1>3. p \in Seq(Outcomes)
  <2>1. /\ DOMAIN old = 1..Len(old) /\ Len(old) \in Nat /\ \A n \in DOMAIN old : old[n] \in Outcomes
    BY <1>1
  <2>2. p \in [1..Len(old) -> Outcomes]
    BY <1>2, <2>1 DEF Outcomes
  <2> QED BY <2>1, <2>2, SeqFromFunction
<1>4. ~cut => p = old
  BY <1>1, <1>2
<1>5. cut => p = [n \in DOMAIN old |-> IF SeenAttempt(s, j, n) THEN "failed" ELSE old[n]]
  BY <1>2
<1> QED BY <1>3, <1>4, <1>5 DEF cut, old, p

LEMMA CleanupStatus ==
    ASSUME Types, NEW s \in Sessions, WriteCleanup(s)
    PROVE  /\ \A j \in Jobs : status'[j] =
                IF j \in Batch(s) /\ SeenStatus(s, j) = "running" THEN "failed"
                ELSE IF j \in Batch(s) /\ SeenStatus(s, j) = "reserved" THEN "queued" ELSE status[j]
           /\ status' \in [Jobs -> JobStatuses]
           /\ document' = document /\ retries' = retries
<1>1. status' = [j \in Jobs |-> IF j \in Batch(s) /\ SeenStatus(s, j) = "running" THEN "failed"
                                ELSE IF j \in Batch(s) /\ SeenStatus(s, j) = "reserved" THEN "queued" ELSE status[j]]
  BY DEF WriteCleanup, Batch
<1>2. {"failed", "queued"} \subseteq JobStatuses /\ status \in [Jobs -> JobStatuses]
  BY DEF Types, RowsOK, JobStatuses, ActiveJobStatuses
<1>3. \A j \in Jobs : status'[j] \in JobStatuses
  BY <1>1, <1>2
<1>4. document' = document /\ retries' = retries
  BY DEF WriteCleanup
<1> QED BY <1>1, <1>3, <1>4

-----------------------------------------------------------------------------
(* The types, and at most one active reservation for a job.                  *)
LEMMA RowsStep ==
    ASSUME Types, OneActive, NEW s \in Sessions, Writes(s), Moves(s)
    PROVE  RowsOK' /\ OneActive'
<1>1. rowLocks' \in BOOLEAN /\ now' \in 0..MaxTime
  BY DEF Moves, Types, RowsOK
<1>2. CASE WriteCleanup(s)
  <2>1. /\ \A j \in Jobs : /\ reservations'[j] \in Seq(ReservationRows) /\ attempts'[j] \in Seq(Outcomes)
                           /\ Active(j)' \subseteq Active(j)
    BY <1>2, CleanupReservations, CleanupAttempts
  <2>2. reservations' \in [Jobs -> Seq(ReservationRows)]
    BY <1>2, <2>1 DEF WriteCleanup
  <2>3. attempts' \in [Jobs -> Seq(Outcomes)]
    BY <1>2, <2>1 DEF WriteCleanup
  <2>4. RowsOK'
    BY <1>1, <1>2, <2>2, <2>3, CleanupStatus DEF Types, RowsOK, Outcomes, ReservationRows
  <2>5. OneActive'
    BY <2>1 DEF OneActive
  <2> QED BY <2>4, <2>5
<1>3. CASE ~WriteCleanup(s)
  <2> DEFINE j == session[s].job
  <2>1. PICK st \in JobStatuses, a \in Seq(Outcomes), q \in Seq(ReservationRows), n \in Nat :
          Wrote(s, st, a, q, n) /\ Effect(s, st, a, q, n)
    BY <1>3, WriteEffects
  <2>2. j \in Jobs
    BY <1>3, WriteEffects
  <2>3. /\ status' = [status EXCEPT ![j] = st] /\ attempts' = [attempts EXCEPT ![j] = a]
        /\ reservations' = [reservations EXCEPT ![j] = q] /\ retries' = [retries EXCEPT ![j] = n]
        /\ document' = document
    BY <2>1 DEF Wrote
  <2>4. \A r, r2 \in ActiveIn(q) : r = r2
    <3>1. Active(j) = ActiveIn(reservations[j])
      BY DEF Active, ActiveIn
    <3>2. \A r, r2 \in Active(j) : r = r2
      BY <2>2 DEF OneActive
    <3> QED BY <2>1, <3>1, <3>2 DEF Effect
  <2>5. RowsOK'
    BY <1>1, <2>2, <2>3 DEF Types, RowsOK, Outcomes, ReservationRows
  <2>6. ASSUME NEW k \in Jobs PROVE Active(k)' = IF k = j THEN ActiveIn(q) ELSE Active(k)
    BY <2>2, <2>3 DEF Active, ActiveIn, Types, RowsOK
  <2>7. OneActive'
    BY <2>4, <2>6 DEF OneActive
  <2> QED BY <2>5, <2>7
<1> QED BY <1>2, <1>3

Quiet(s) ==
    \/ \E d \in Documents : BeginCreate(s, d)
    \/ FindActiveJob(s) \/ ReloadJob(s) \/ LockCachedJob(s)
    \/ \E op \in Operations, j \in Jobs : LockJob(s, op, j)
    \/ Inspects(s) \/ BeginCleanup(s) \/ InspectCleanup(s) \/ Abort(s)

LEMMA StepMoves ==
    ASSUME Types, NEW s \in Sessions, Quiet(s) \/ InsertJob(s) \/ Writes(s)
    PROVE  Moves(s)
  BY CreateMoves, LockMoves, InspectMoves, BeginCleanupMoves, InspectCleanupMoves, WriteMoves DEF Quiet

LEMMA QuietRows == ASSUME NEW s \in Sessions, Quiet(s) PROVE UNCHANGED rows
<1>1. Inspects(s) => UNCHANGED rows
  BY DEF Inspects, InspectQueue, InspectReserve, InspectRelease, InspectStart, InspectFinish, InspectRetry,
         InspectCancel, Inspected
<1> QED BY <1>1 DEF Quiet, BeginCreate, FindActiveJob, ReloadJob, LockCachedJob, LockJob, BeginCleanup,
                    InspectCleanup, Abort

LEMMA NextActions ==
    ASSUME Next
    PROVE  Tick \/ \E s \in Sessions : Quiet(s) \/ InsertJob(s) \/ Writes(s)
  BY DEF Next, Quiet, Writes, Inspects

LEMMA TypesStep == Types /\ OneActive /\ [Next]_vars => Types' /\ OneActive'
<1> SUFFICES ASSUME Types, OneActive, [Next]_vars PROVE Types' /\ OneActive'
  OBVIOUS
<1>1. ASSUME NEW s \in Sessions, Quiet(s) PROVE Types' /\ OneActive'
  <2>1. Moves(s) /\ UNCHANGED rows
    BY <1>1, StepMoves, QuietRows
  <2>2. RowsOK'
    BY <2>1 DEF Moves, Types, RowsOK, rows
  <2>3. OneActive'
    BY <2>1 DEF OneActive, Active, rows
  <2> QED BY <2>1, <2>2, <2>3 DEF Moves, Types
<1>2. ASSUME NEW s \in Sessions, InsertJob(s) PROVE Types' /\ OneActive'
  <2>1. Moves(s)
    BY <1>2, StepMoves
  <2>2. PICK j \in Jobs : /\ status' = [status EXCEPT ![j] = "new"]
                          /\ document' = [document EXCEPT ![j] = session[s].document]
    BY <1>2 DEF InsertJob
  <2>3. UNCHANGED <<attempts, reservations, retries>>
    BY <1>2 DEF InsertJob
  <2>4. session[s].document \in Documents \cup {None} /\ "new" \in JobStatuses
    BY SessionTypes DEF JobStatuses, ActiveJobStatuses
  <2>5. RowsOK'
    BY <2>1, <2>2, <2>3, <2>4 DEF Moves, Types, RowsOK
  <2>6. OneActive'
    BY <2>3 DEF OneActive, Active
  <2> QED BY <2>1, <2>5, <2>6 DEF Moves, Types
<1>3. ASSUME NEW s \in Sessions, Writes(s) PROVE Types' /\ OneActive'
  <2>1. Moves(s)
    BY <1>3, StepMoves
  <2> QED BY <1>3, <2>1, RowsStep DEF Moves, Types
<1>4. CASE Tick \/ UNCHANGED vars
  <2>1. now' \in 0..MaxTime /\ UNCHANGED <<rows, locks, session>>
    BY <1>4, ParametersAssumption DEF Tick, vars, Types, RowsOK
  <2> QED BY <2>1 DEF Types, RowsOK, LocksOK, SessionsOK, OneActive, Active, rows, locks
<1> QED BY <1>1, <1>2, <1>3, <1>4, NextActions

LEMMA InitTypes == Init => Types /\ OneActive
<1> SUFFICES ASSUME Init PROVE Types /\ OneActive
  OBVIOUS
<1>1. PICK setting \in Settings : rowLocks = setting.rowLocks /\ status = setting.status /\ now = setting.now
  BY DEF Init
<1>2. setting.rowLocks \in BOOLEAN /\ setting.now \in 0..MaxTime /\ setting.status \in [Jobs -> {"absent", "queued", "cancelled"}]
  BY ParametersAssumption
<1>3. status \in [Jobs -> JobStatuses]
  BY <1>1, <1>2 DEF JobStatuses, ActiveJobStatuses
<1>4. RowsOK
  BY <1>1, <1>2, <1>3 DEF Init, RowsOK
<1>5. LocksOK
  BY DEF Init, LocksOK
<1>6. SessionsOK
  BY IdleIsOK DEF Init, SessionsOK, SessionOK
<1>7. OneActive
  BY DEF Init, OneActive, Active
<1> QED BY <1>4, <1>5, <1>6, <1>7 DEF Types

LEMMA TypesHold == Spec => [](Types /\ OneActive)
  BY InitTypes, TypesStep, PTL DEF Spec

(* "permit at most one active reservation per job", with and without row     *)
(* locks, whatever sessions interleave, are cut off or hold stale copies.    *)
THEOREM ReservationsStayConsistent == Spec => []ReservationsConsistent
<1>1. Types /\ OneActive => ReservationsConsistent
  <2> SUFFICES ASSUME Types, OneActive PROVE ReservationsConsistent
    OBVIOUS
  <2>1. TypeOK
    <3>1. \A s \in Sessions : session[s].job \in Jobs \cup {None}
      BY SessionTypes DEF SessionRecords
    <3>2. {jobLock[j] : j \in Jobs} \cup {reservationLock[j] : j \in Jobs}
            \cup {documentLock[d] : d \in Documents} \subseteq Sessions \cup {None}
      BY DEF Types, LocksOK
    <3> QED BY <3>1, <3>2 DEF Types, RowsOK, TypeOK, JobStatuses
  <2>2. ASSUME NEW j \in Jobs PROVE Cardinality(Active(j)) <= 1
    <3>1. CASE Active(j) = {}
      BY <3>1, FS_EmptySet
    <3>2. ASSUME NEW r \in Active(j) PROVE Cardinality(Active(j)) <= 1
      <4>1. Active(j) = {r}
        BY <3>2 DEF OneActive
      <4>2. Cardinality({r}) = 1
        BY FS_Singleton
      <4> QED BY <4>1, <4>2
    <3> QED BY <3>1, <3>2
  <2> QED BY <2>1, <2>2 DEF ReservationsConsistent, OneActiveReservation
<1> QED BY <1>1, TypesHold, PTL

-----------------------------------------------------------------------------
(* What the row locks are for.                                               *)
(* A job is reserved or running as long as it has an active reservation, and *)
(* its last attempt runs while it does.                                      *)
JobSound(j) ==
    /\ Active(j) # {} <=> status[j] \in {"reserved", "running"}
    /\ Running(j) = IF status[j] = "running" THEN {Len(attempts[j])} ELSE {}

(* An operation holds its job's row and its copy of the status is true.      *)
OperationSound(s) == LET j == session[s].job IN
    /\ session[s].pc \in {"read", "inspected"}
    /\ j \in Jobs
    /\ jobLock[j] = s
    /\ session[s].status = status[j]
    /\ session[s].pc = "inspected" =>
         /\ session[s].op = "reserve" => status[j] \in {"queued", "retrying"}
         /\ session[s].op \in {"release", "start"} => status[j] = "reserved"
         /\ session[s].op \in {"complete", "fail"} => status[j] = "running"
         /\ session[s].op = "retry" => status[j] = "failed"
         /\ session[s].op = "cancel" => status[j] \in ActiveJobStatuses
         /\ session[s].op = "release" => session[s].found \in Active(j) /\ reservationLock[j] = s
         /\ session[s].op \in {"complete", "fail", "cancel"} =>
              session[s].found = IF status[j] = "running" THEN Len(attempts[j]) ELSE 0

(* A cleanup holds its reservations, which are still active, and the row of  *)
(* its first job once it has read it.                                        *)
CleanupSound(s) ==
    /\ \A row \in session[s].batch : row[2] \in Active(row[1]) /\ reservationLock[row[1]] = s
    /\ session[s].pc \in {"read", "inspected"}
    /\ session[s].pc = "inspected" => LET j == session[s].job IN
         /\ \E row \in session[s].batch : row[1] = j
         /\ jobLock[j] = s
         /\ session[s].status = status[j]
         /\ status[j] = "running" => session[s].found = Len(attempts[j])

SessionSound(s) ==
    /\ session[s].op \in Operations \cup {"none", "cleanup"}
    /\ session[s].op = "none" <=> session[s].pc = "idle"
    /\ session[s].op \in Operations => OperationSound(s)
    /\ session[s].op = "cleanup" => CleanupSound(s)

LocksInv == (\A j \in Jobs : JobSound(j)) /\ (\A s \in Sessions : SessionSound(s))

(* A session is not disturbed by another's step that changes no job it has   *)
(* locked, and none of the reservations it is about to clean up.             *)
LEMMA OthersSound ==
    ASSUME Types, NEW s \in Sessions, Moves(s), NEW t \in Sessions \ {s}, SessionSound(t),
           NEW changed \in SUBSET Jobs,
           \A j \in Jobs \ changed : /\ status'[j] = status[j] /\ attempts'[j] = attempts[j]
                                     /\ reservations'[j] = reservations[j],
           \A j \in changed : jobLock[j] # t,
           session[t].op = "cleanup" =>
             \A row \in session[t].batch : row[1] \in changed => row[2] \in Active(row[1])'
    PROVE  SessionSound(t)'
<1>1. session'[t] = session[t] /\ session[t].batch \in SUBSET (Jobs \X Nat)
  BY SessionTypes DEF Moves
<1>2. \A j \in Jobs : jobLock[j] = t =>
        /\ j \notin changed /\ jobLock'[j] = t /\ status'[j] = status[j] /\ attempts'[j] = attempts[j]
        /\ Active(j)' = Active(j)
  BY DEF Moves, Active
<1>3. \A j \in Jobs : reservationLock[j] = t => reservationLock'[j] = t
  BY DEF Moves
<1>4. ASSUME session[t].op \in Operations PROVE OperationSound(t)'
  <2>1. OperationSound(t)
    BY <1>4 DEF SessionSound
  <2> QED BY <2>1, <1>1, <1>2, <1>3 DEF OperationSound
<1>5. ASSUME session[t].op = "cleanup" PROVE CleanupSound(t)'
  <2>1. CleanupSound(t)
    BY <1>5 DEF SessionSound
  <2>2. ASSUME NEW row \in session[t].batch
        PROVE  row[2] \in Active(row[1])' /\ reservationLock'[row[1]] = t
    <3>1. row[1] \in Jobs /\ row[2] \in Active(row[1]) /\ reservationLock[row[1]] = t
      BY <1>1, <2>1 DEF CleanupSound
    <3>2. row[1] \notin changed => Active(row[1])' = Active(row[1])
      BY <3>1 DEF Active
    <3> QED BY <1>3, <1>5, <3>1, <3>2
  <2>3. ASSUME NEW row \in session[t].batch PROVE row[1] \in Jobs
    BY <1>1
  <2> QED BY <2>1, <2>2, <2>3, <1>1, <1>2 DEF CleanupSound
<1> QED BY <1>1, <1>4, <1>5 DEF SessionSound

LEMMA QuietSound ==
    ASSUME Types, rowLocks, CreatedFor(TRUE) = {}, LocksInv, NEW s \in Sessions, Quiet(s)
    PROVE  LocksInv' /\ UNCHANGED rows
<1>1. UNCHANGED rows /\ Moves(s)
  BY QuietRows, StepMoves
<1>2. \A j \in Jobs : JobSound(j)'
  BY <1>1 DEF LocksInv, JobSound, Active, Running, rows
<1>3. \A t \in Sessions \ {s} : SessionSound(t)'
  <2>1. \A j \in Jobs : status'[j] = status[j] /\ attempts'[j] = attempts[j] /\ reservations'[j] = reservations[j]
    BY <1>1 DEF rows
  <2>2. {} \in SUBSET Jobs
    OBVIOUS
  <2> QED BY <1>1, <2>1, <2>2, OthersSound DEF LocksInv
<1>4. SessionSound(s) /\ \A j \in Jobs : JobSound(j)
  BY DEF LocksInv
<1>5. ASSUME NEW d \in Documents, BeginCreate(s, d) PROVE FALSE
  BY <1>5 DEF BeginCreate, Types, RowsOK
<1>6. ASSUME FindActiveJob(s) \/ ReloadJob(s) \/ LockCachedJob(s) PROVE FALSE
  BY <1>4, <1>6 DEF FindActiveJob, ReloadJob, LockCachedJob, SessionSound, OperationSound, CleanupSound, Operations
<1>7. ASSUME NEW op \in Operations, NEW j \in Jobs, LockJob(s, op, j) PROVE SessionSound(s)'
  <2> DEFINE next == [Idle EXCEPT !.op = op, !.pc = "read", !.job = j, !.status = status[j]]
  <2>1. session'[s] = next
    BY <1>7 DEF LockJob, Goto, Types, SessionsOK
  <2>2. next.op = op /\ next.pc = "read" /\ next.job = j /\ next.status = status[j]
    BY DEF Idle
  <2>3. jobLock'[j] = s
    BY <1>7, LockedKeeps DEF LockJob, Types, LocksOK
  <2>4. status' = status
    BY <1>1 DEF rows
  <2> HIDE DEF next
  <2>5. OperationSound(s)'
    BY <2>1, <2>2, <2>3, <2>4 DEF OperationSound
  <2> QED BY <2>1, <2>2, <2>5 DEF SessionSound, Operations
<1>8. ASSUME BeginCleanup(s) PROVE SessionSound(s)'
  <2>1. session'[s] = [Idle EXCEPT !.op = "cleanup", !.pc = "read", !.batch = ExpiredRows]
    BY <1>8, BeginCleanupMoves
  <2>2. session'[s].op = "cleanup" /\ session'[s].pc = "read" /\ session'[s].batch = ExpiredRows
    BY <2>1 DEF Idle
  <2>3. ASSUME NEW row \in ExpiredRows
        PROVE  row[2] \in Active(row[1])' /\ reservationLock'[row[1]] = s
    <3> DEFINE held == {r[1] : r \in ExpiredRows}
    <3>1. row[1] \in Jobs /\ row[1] \in held /\ row[2] \in Active(row[1])
      BY DEF ExpiredRows
    <3>2. Free(reservationLock[row[1]], s) /\ reservationLock' = Locked(reservationLock, held, s)
      BY <1>8 DEF BeginCleanup
    <3> HIDE DEF held
    <3>3. reservationLock'[row[1]] = s
      BY <3>1, <3>2, LockedKeeps DEF Types, LocksOK
    <3>4. Active(row[1])' = Active(row[1])
      BY <1>1 DEF Active, rows
    <3> QED BY <3>1, <3>3, <3>4
  <2>4. CleanupSound(s)'
    BY <2>2, <2>3 DEF CleanupSound
  <2> QED BY <2>2, <2>4 DEF SessionSound, Operations
<1>9. ASSUME InspectCleanup(s) PROVE SessionSound(s)'
  <2>1. PICK j \in Jobs, n \in Nat : CleanupPick(s, j, n)
    BY <1>9, InspectCleanupMoves
  <2>2. session[s].op = "cleanup" /\ reservationLock' = reservationLock
    BY <1>9 DEF InspectCleanup, At
  <2>3. CleanupSound(s)
    BY <1>4, <2>2 DEF SessionSound
  <2>4. /\ session'[s].op = "cleanup" /\ session'[s].pc = "inspected" /\ session'[s].job = j
        /\ session'[s].status = status[j] /\ session'[s].found = n /\ session'[s].batch = session[s].batch
    BY <2>1, <2>2, SessionTypes DEF CleanupPick, SessionRecords
  <2>5. jobLock'[j] = s
    BY <2>1, LockedKeeps DEF CleanupPick, Types, LocksOK
  <2>6. status[j] = "running" => n = Len(attempts[j])
    <3>1. status[j] = "running" => Running(j) = {Len(attempts[j])} /\ IsLatest(n, Running(j))
      BY <1>4, <2>1 DEF JobSound, CleanupPick
    <3> QED BY <3>1 DEF IsLatest
  <2>7. \E row \in session[s].batch : row[1] = j
    BY <2>1 DEF CleanupPick
  <2>8. status' = status /\ attempts' = attempts /\ \A row \in session[s].batch : Active(row[1])' = Active(row[1])
    BY <1>1 DEF Active, rows
  <2>9. CleanupSound(s)'
    BY <2>2, <2>3, <2>4, <2>5, <2>6, <2>7, <2>8 DEF CleanupSound
  <2> QED BY <2>4, <2>9 DEF SessionSound, Operations
<1>10. ASSUME Abort(s) PROVE SessionSound(s)'
  <2>1. session'[s].op = "none" /\ session'[s].pc = "idle"
    BY <1>10, WriteMoves DEF Idle
  <2> QED BY <2>1 DEF SessionSound, Operations
<1>11. ASSUME Inspects(s) PROVE SessionSound(s)'
  <2>1. PICK op \in Operations \cup {"queue"}, i \in Nat : Inspection(s, op, i)
    BY <1>11, InspectionFacts
  <2>2. At(s, "read", op) /\ Inspected(s, i) /\ (op = "reserve" => i \in 0..MaxTime)
    BY <2>1 DEF Inspection
  <2>3. session'[s] = [session[s] EXCEPT !.pc = "inspected", !.found = i]
    BY <1>11, <2>2, InspectionFacts, InspectedMoves
  <2>j. PICK j \in Jobs : j = session[s].job
    BY <2>1 DEF Inspection
  <2>4. /\ session'[s].op = op /\ session'[s].pc = "inspected" /\ session'[s].job = j
        /\ session'[s].status = session[s].status /\ session'[s].found = i
    BY <2>j, <2>2, <2>3, SessionTypes DEF SessionRecords, At
  <2>5. op \in Operations
    BY <1>4, <2>2 DEF SessionSound, At, Operations
  <2>6. OperationSound(s)
    BY <1>4, <2>2, <2>5 DEF SessionSound, At
  <2>7. j \in Jobs /\ jobLock'[j] = s /\ session[s].status = status[j]
    BY <2>j, <2>2, <2>6 DEF OperationSound, Inspected
  <2>8. op = "release" => i \in Active(j) /\ reservationLock'[j] = s
    <3>1. ASSUME op = "release"
          PROVE  i \in Active(j) /\ Free(reservationLock[j], s) /\ reservationLock' = Locked(reservationLock, {j}, s)
      BY <2>j, <2>1, <3>1 DEF Inspection
    <3> QED BY <3>1, LockedKeeps DEF Types, LocksOK
  <2>9. op \in {"complete", "fail", "cancel"} => i = IF status[j] = "running" THEN Len(attempts[j]) ELSE 0
    <3>1. status[j] = "running" => Running(j) = {Len(attempts[j])}
      BY <1>4, <2>7 DEF JobSound
    <3> QED BY <2>j, <2>1, <2>7, <3>1 DEF Inspection, IsLatest
  <2>10. /\ op = "reserve" => status[j] \in {"queued", "retrying"}
         /\ op \in {"release", "start"} => status[j] = "reserved"
         /\ op \in {"complete", "fail"} => status[j] = "running"
         /\ op = "retry" => status[j] = "failed"
         /\ op = "cancel" => status[j] \in ActiveJobStatuses
    BY <2>j, <2>1, <2>7 DEF Inspection
  <2>11. status' = status /\ attempts' = attempts /\ Active(j)' = Active(j)
    BY <1>1 DEF Active, rows
  <2>12. OperationSound(s)'
    BY <2>4, <2>7, <2>8, <2>9, <2>10, <2>11 DEF OperationSound
  <2> QED BY <2>4, <2>5, <2>12 DEF SessionSound, Operations
<1>12. SessionSound(s)'
  BY <1>5, <1>6, <1>7, <1>8, <1>9, <1>10, <1>11 DEF Quiet
<1> QED BY <1>1, <1>2, <1>3, <1>12 DEF LocksInv

(* What an operation finds when it writes is still what it inspected.        *)
OperationWrites(s, j, st, a, q, n) ==
    /\ session[s].job = j /\ session[s].op \in Operations
    /\ OperationSound(s) /\ session[s].pc = "inspected"
    /\ Wrote(s, st, a, q, n) /\ Effect(s, st, a, q, n)

LEMMA OperationWrite ==
    ASSUME Types, LocksInv, NEW s \in Sessions, Writes(s), ~WriteCleanup(s)
    PROVE  \E j \in Jobs, st \in JobStatuses, a \in Seq(Outcomes), q \in Seq(ReservationRows), n \in Nat :
             OperationWrites(s, j, st, a, q, n)
<1>1. PICK st \in JobStatuses, a \in Seq(Outcomes), q \in Seq(ReservationRows), n \in Nat :
        Wrote(s, st, a, q, n) /\ Effect(s, st, a, q, n)
  BY WriteEffects
<1>2. session[s].job \in Jobs /\ session[s].pc = "inspected" /\ session[s].op \in Operations \cup {"queue"}
  BY WriteEffects
<1>3. session[s].op \in Operations /\ OperationSound(s)
  BY <1>2 DEF LocksInv, SessionSound, Operations
<1>4. OperationWrites(s, session[s].job, st, a, q, n)
  BY <1>1, <1>2, <1>3 DEF OperationWrites
<1> QED BY <1>2, <1>4

(* The attempts of a job that is running when an operation ends it.          *)
LEMMA EndedAttempts ==
    ASSUME Types, LocksInv, NEW j \in Jobs, status[j] = "running", NEW outcome \in {"success", "failed"}
    PROVE  /\ Len(attempts[j]) \in DOMAIN attempts[j] /\ Len(attempts[j]) # 0
           /\ RunningIn([attempts[j] EXCEPT ![Len(attempts[j])] = outcome]) = {}
<1> DEFINE old == attempts[j]
           last == Len(old)
           p == [old EXCEPT ![last] = outcome]
<1>1. Running(j) = {last} /\ Running(j) = RunningIn(old)
  BY DEF LocksInv, JobSound, Running, RunningIn
<1>2. old \in Seq(Outcomes) /\ DOMAIN old = 1..last /\ last \in Nat /\ \A n \in DOMAIN old : old[n] \in Outcomes
  BY AttemptTypes DEF Outcomes
<1>3. last \in DOMAIN old /\ last # 0
  BY <1>1, <1>2 DEF RunningIn
<1> HIDE DEF old
<1>4. DOMAIN p = DOMAIN old /\ \A n \in DOMAIN old : p[n] = IF n = last THEN outcome ELSE old[n]
  OBVIOUS
<1> HIDE DEF p, last
<1>5. \A n \in DOMAIN old : old[n] = "running" => n = last
  BY <1>1 DEF RunningIn
<1>6. RunningIn(p) = {}
  BY <1>4, <1>5 DEF RunningIn
<1> QED BY <1>3, <1>6 DEF p, last, old

LEMMA OperationWriteSound ==
    ASSUME Types, OneActive, LocksInv, NEW s \in Sessions, Moves(s), session'[s] = Idle,
           NEW j \in Jobs, NEW st \in JobStatuses, NEW a \in Seq(Outcomes), NEW q \in Seq(ReservationRows),
           NEW n \in Nat, OperationWrites(s, j, st, a, q, n)
    PROVE  LocksInv'
<1>1. /\ session[s].job = j /\ session[s].op \in Operations /\ session[s].pc = "inspected"
      /\ OperationSound(s) /\ Effect(s, st, a, q, n)
      /\ status' = [status EXCEPT ![j] = st] /\ attempts' = [attempts EXCEPT ![j] = a]
      /\ reservations' = [reservations EXCEPT ![j] = q]
  BY DEF OperationWrites, Wrote
<1>2. /\ status'[j] = st /\ attempts'[j] = a /\ reservations'[j] = q
      /\ \A k \in Jobs \ {j} : /\ status'[k] = status[k] /\ attempts'[k] = attempts[k]
                               /\ reservations'[k] = reservations[k]
  BY <1>1 DEF Types, RowsOK
<1>3. /\ Active(j)' = ActiveIn(q) /\ Running(j)' = RunningIn(a) /\ Running(j) = RunningIn(attempts[j])
  BY <1>2 DEF Active, ActiveIn, Running, RunningIn
<1>4. JobSound(j)
  BY DEF LocksInv
<1>5. JobSound(j)'
  <2>1. CASE session[s].op = "reserve"
    <3>1. status[j] \in {"queued", "retrying"}
      BY <1>1, <2>1 DEF OperationSound
    <3>2. st = "reserved" /\ a = attempts[j] /\ ActiveIn(q) # {}
      BY <1>1, <2>1 DEF Effect, EndOf
    <3> QED BY <1>2, <1>3, <1>4, <3>1, <3>2 DEF JobSound
  <2>2. CASE session[s].op = "release"
    <3>1. status[j] = "reserved" /\ session[s].found \in Active(j)
      BY <1>1, <2>2 DEF OperationSound
    <3>2. st = "queued" /\ a = attempts[j] /\ ActiveIn(q) = Active(j) \ {session[s].found}
      BY <1>1, <2>2 DEF Effect, EndOf
    <3>3. ActiveIn(q) = {}
      BY <3>1, <3>2 DEF OneActive
    <3> QED BY <1>2, <1>3, <1>4, <3>1, <3>2, <3>3 DEF JobSound
  <2>3. CASE session[s].op = "start"
    <3>1. status[j] = "reserved"
      BY <1>1, <2>3 DEF OperationSound
    <3>2. st = "running" /\ a = Append(attempts[j], "running") /\ q = reservations[j]
      BY <1>1, <2>3 DEF Effect, EndOf
    <3>3. ActiveIn(q) = Active(j)
      BY <3>2 DEF Active, ActiveIn
    <3>4. Len(a) = Len(attempts[j]) + 1 /\ RunningIn(a) = RunningIn(attempts[j]) \cup {Len(attempts[j]) + 1}
      BY <3>2, AttemptTypes, StartedAttempts DEF Outcomes
    <3> QED BY <1>2, <1>3, <1>4, <3>1, <3>2, <3>3, <3>4 DEF JobSound
  <2>4. CASE session[s].op \in DOMAIN EndOf
    <3> DEFINE found == session[s].found
               outcome == OutcomeOf[session[s].op]
    <3>1. /\ st \in {"succeeded", "failed", "cancelled"} /\ ActiveIn(q) = {}
          /\ a = IF found = 0 THEN attempts[j] ELSE [attempts[j] EXCEPT ![found] = outcome]
          /\ outcome \in {"success", "failed"}
      BY <1>1, <2>4 DEF Effect, EndOf, OutcomeOf
    <3>2. found = IF status[j] = "running" THEN Len(attempts[j]) ELSE 0
      BY <1>1, <2>4 DEF OperationSound, EndOf
    <3> HIDE DEF found, outcome
    <3>3. RunningIn(a) = {}
      BY <1>3, <1>4, <3>1, <3>2, EndedAttempts DEF JobSound
    <3> QED BY <1>2, <1>3, <3>1, <3>3 DEF JobSound
  <2>5. CASE session[s].op = "retry"
    <3>1. status[j] = "failed"
      BY <1>1, <2>5 DEF OperationSound
    <3>2. st = "retrying" /\ a = attempts[j] /\ q = reservations[j]
      BY <1>1, <2>5 DEF Effect, EndOf
    <3>3. ActiveIn(q) = Active(j)
      BY <3>2 DEF Active, ActiveIn
    <3> QED BY <1>2, <1>3, <1>4, <3>1, <3>2, <3>3 DEF JobSound
  <2> QED BY <1>1, <2>1, <2>2, <2>3, <2>4, <2>5 DEF Operations, EndOf
<1>6. ASSUME NEW k \in Jobs \ {j} PROVE JobSound(k)'
  <2>1. JobSound(k)
    BY DEF LocksInv
  <2> QED BY <2>1, <1>2 DEF JobSound, Active, Running
<1>7. ASSUME NEW t \in Sessions \ {s} PROVE SessionSound(t)'
  <2>1. SessionSound(t)
    BY DEF LocksInv
  <2>2. jobLock[j] = s
    BY <1>1 DEF OperationSound
  <2>3. ASSUME session[t].op = "cleanup", NEW row \in session[t].batch, row[1] \in {j}
        PROVE  row[2] \in Active(row[1])'
    <3>1. row[1] = j /\ row[2] \in Active(j) /\ reservationLock[j] = t
      BY <2>1, <2>3 DEF SessionSound, CleanupSound
    <3>2. session[s].op # "reserve"
      BY <1>1, <3>1 DEF Effect, EndOf
    <3>3. session[s].op # "release"
      BY <1>1, <3>1 DEF OperationSound
    <3>4. session[s].op \notin DOMAIN EndOf
      <4>1. ~Free(reservationLock[j], s)
        BY <3>1, NoneAssumption DEF Free
      <4> QED BY <1>1, <3>1, <4>1 DEF Effect, EndOf
    <3>5. q = reservations[j]
      BY <1>1, <3>2, <3>3, <3>4 DEF Effect, EndOf
    <3>6. Active(j)' = Active(j)
      BY <1>2, <3>5 DEF Active
    <3> QED BY <3>1, <3>6
  <2>4. {j} \in SUBSET Jobs
    OBVIOUS
  <2> QED BY <1>2, <2>1, <2>2, <2>3, <2>4, OthersSound
<1>8. SessionSound(s)'
  BY DEF SessionSound, Idle, Operations
<1> QED BY <1>5, <1>6, <1>7, <1>8 DEF LocksInv

(* Every job of a cleanup's batch is reserved or running as it is seen, and  *)
(* its one reservation is in the batch.                                      *)
LEMMA CleanupJob ==
    ASSUME Types, OneActive, LocksInv, NEW s \in Sessions, WriteCleanup(s), NEW j \in Batch(s)
    PROVE  /\ j \in Jobs /\ status[j] \in {"reserved", "running"} /\ SeenStatus(s, j) = status[j]
           /\ Active(j) # {} /\ Active(j)' = {}
           /\ reservationLock[j] = s /\ Free(jobLock[j], s)
           /\ status[j] = "running" =>
                status'[j] = "failed" /\ attempts'[j] = [attempts[j] EXCEPT ![Len(attempts[j])] = "failed"]
           /\ status[j] = "reserved" => status'[j] = "queued" /\ attempts'[j] = attempts[j]
<1>1. PICK row \in session[s].batch : row[1] = j
  BY DEF Batch
<1>2. session[s].op = "cleanup" /\ session[s].pc = "inspected"
  BY DEF WriteCleanup, At
<1>3. CleanupSound(s)
  BY <1>2 DEF LocksInv, SessionSound
<1>4. /\ j \in Jobs /\ row[2] \in Active(j) /\ reservationLock[j] = s /\ row = <<j, row[2]>>
  BY <1>1, <1>3, SessionTypes DEF CleanupSound
<1>5. Free(jobLock[j], s)
  BY DEF WriteCleanup, Batch
<1>6. JobSound(j)
  BY <1>4 DEF LocksInv
<1>7. status[j] \in {"reserved", "running"}
  BY <1>4, <1>6 DEF JobSound
<1>8. SeenStatus(s, j) = status[j]
  BY <1>2, <1>3 DEF SeenStatus, CleanupSound
<1>9. Active(j)' = {}
  <2>1. Active(j) = {row[2]}
    BY <1>4 DEF OneActive
  <2>2. <<j, row[2]>> \in session[s].batch
    BY <1>4
  <2> QED BY <1>4, <2>1, <2>2, CleanupReservations
<1>10. ASSUME status[j] = "running"
       PROVE  status'[j] = "failed" /\ attempts'[j] = [attempts[j] EXCEPT ![Len(attempts[j])] = "failed"]
  <2>1. Running(j) = {Len(attempts[j])}
    BY <1>6, <1>10 DEF JobSound
  <2>2. \A n : SeenAttempt(s, j, n) <=> n = Len(attempts[j])
    <3>1. CASE j = session[s].job
      BY <1>2, <1>3, <1>10, <3>1 DEF SeenAttempt, CleanupSound
    <3>2. CASE j # session[s].job
      <4>1. Len(attempts[j]) <= Len(attempts[j])
        BY <1>4, AttemptTypes
      <4> QED BY <2>1, <3>2, <4>1 DEF SeenAttempt, IsLatest
    <3> QED BY <3>1, <3>2
  <2>3. attempts'[j] = [n \in DOMAIN attempts[j] |-> IF SeenAttempt(s, j, n) THEN "failed" ELSE attempts[j][n]]
    BY <1>4, <1>8, <1>10, CleanupAttempts
  <2>4. attempts'[j] = [n \in DOMAIN attempts[j] |-> IF n = Len(attempts[j]) THEN "failed" ELSE attempts[j][n]]
    BY <2>2, <2>3
  <2>5. attempts[j] \in Seq(Outcomes)
    BY <1>4, AttemptTypes DEF Outcomes
  <2>6. attempts'[j] = [attempts[j] EXCEPT ![Len(attempts[j])] = "failed"]
    BY <2>4, <2>5
  <2> QED BY <1>4, <1>8, <1>10, <2>6, CleanupStatus
<1>11. ASSUME status[j] = "reserved" PROVE status'[j] = "queued" /\ attempts'[j] = attempts[j]
  BY <1>4, <1>8, <1>11, CleanupAttempts, CleanupStatus
<1> QED BY <1>4, <1>5, <1>7, <1>8, <1>9, <1>10, <1>11

LEMMA CleanupOthers ==
    ASSUME Types, NEW s \in Sessions, WriteCleanup(s), NEW j \in Jobs \ Batch(s)
    PROVE  status'[j] = status[j] /\ attempts'[j] = attempts[j] /\ reservations'[j] = reservations[j]
  BY CleanupReservations, CleanupAttempts, CleanupStatus

LEMMA CleanupWriteSound ==
    ASSUME Types, OneActive, LocksInv, NEW s \in Sessions, Moves(s), session'[s] = Idle, WriteCleanup(s)
    PROVE  LocksInv'
<1>1. ASSUME NEW j \in Batch(s) PROVE JobSound(j)'
  <2>1. /\ j \in Jobs /\ status[j] \in {"reserved", "running"} /\ Active(j)' = {}
        /\ status[j] = "running" =>
             status'[j] = "failed" /\ attempts'[j] = [attempts[j] EXCEPT ![Len(attempts[j])] = "failed"]
        /\ status[j] = "reserved" => status'[j] = "queued" /\ attempts'[j] = attempts[j]
    BY CleanupJob
  <2>2. Running(j)' = RunningIn(attempts'[j]) /\ Running(j) = RunningIn(attempts[j])
    BY DEF Running, RunningIn
  <2>3. RunningIn(attempts'[j]) = {}
    BY <2>1, <2>2, EndedAttempts DEF LocksInv, JobSound
  <2> QED BY <2>1, <2>2, <2>3 DEF JobSound
<1>2. ASSUME NEW j \in Jobs \ Batch(s) PROVE JobSound(j)'
  <2>1. JobSound(j)
    BY DEF LocksInv
  <2> QED BY <2>1, CleanupOthers DEF JobSound, Active, Running
<1>3. ASSUME NEW t \in Sessions \ {s} PROVE SessionSound(t)'
  <2>1. SessionSound(t)
    BY DEF LocksInv
  <2>2. Batch(s) \in SUBSET Jobs
    BY CleanupJob
  <2>3. \A j \in Batch(s) : jobLock[j] # t
    <3>1. \A j \in Batch(s) : jobLock[j] \in {None, s}
      BY CleanupJob DEF Free
    <3> QED BY <3>1, NoneAssumption
  <2>4. ASSUME session[t].op = "cleanup", NEW row \in session[t].batch, row[1] \in Batch(s) PROVE FALSE
    <3>1. reservationLock[row[1]] = t
      BY <2>1, <2>4 DEF SessionSound, CleanupSound
    <3>2. reservationLock[row[1]] = s
      BY <2>4, CleanupJob
    <3> QED BY <3>1, <3>2
  <2>5. \A j \in Jobs \ Batch(s) : status'[j] = status[j] /\ attempts'[j] = attempts[j] /\ reservations'[j] = reservations[j]
    BY CleanupOthers
  <2> QED BY <2>1, <2>2, <2>3, <2>4, <2>5, OthersSound
<1>4. SessionSound(s)'
  BY DEF SessionSound, Idle, Operations
<1> QED BY <1>1, <1>2, <1>3, <1>4 DEF LocksInv

(* InsertJob belongs to a request of two calls.                              *)
LEMMA NoInsert ==
    ASSUME LocksInv, NEW s \in Sessions, InsertJob(s)
    PROVE  FALSE
  BY DEF InsertJob, LocksInv, SessionSound, Operations

LEMMA WriteSound ==
    ASSUME Types, OneActive, LocksInv, NEW s \in Sessions, Writes(s)
    PROVE  LocksInv'
<1>1. Moves(s) /\ session'[s] = Idle
  BY WriteMoves
<1>2. CASE WriteCleanup(s)
  BY <1>1, <1>2, CleanupWriteSound
<1>3. CASE ~WriteCleanup(s)
  BY <1>1, <1>3, OperationWrite, OperationWriteSound
<1> QED BY <1>2, <1>3

LEMMA LocksStep ==
    ASSUME Types, OneActive, rowLocks, CreatedFor(TRUE) = {}, LocksInv, [Next]_vars
    PROVE  LocksInv'
<1>1. ASSUME NEW s \in Sessions, Quiet(s) \/ InsertJob(s) \/ Writes(s) PROVE LocksInv'
  BY <1>1, QuietSound, NoInsert, WriteSound
<1>2. CASE Tick \/ UNCHANGED vars
  <2>1. UNCHANGED <<rows, locks, session>>
    BY <1>2 DEF Tick, vars
  <2> QED BY <2>1 DEF LocksInv, JobSound, SessionSound, OperationSound, CleanupSound, Active, Running, rows, locks
<1> QED BY <1>1, <1>2, NextActions

LEMMA RowLocksStay == ASSUME Types, [Next]_vars PROVE rowLocks' = rowLocks
<1>1. ASSUME NEW s \in Sessions, Quiet(s) \/ InsertJob(s) \/ Writes(s) PROVE rowLocks' = rowLocks
  BY <1>1, StepMoves DEF Moves
<1> QED BY <1>1, NextActions DEF Tick, vars, locks

(* Nothing is running or reserved to begin with.                             *)
LEMMA InitLocks == Init => LocksInv
<1> SUFFICES ASSUME Init PROVE LocksInv
  OBVIOUS
<1>1. PICK setting \in Settings : status = setting.status
  BY DEF Init
<1>2. \A j \in Jobs : status[j] \in {"absent", "queued", "cancelled"}
  BY <1>1, ParametersAssumption
<1>3. ASSUME NEW j \in Jobs PROVE JobSound(j)
  BY <1>2 DEF Init, JobSound, Active, Running
<1>4. ASSUME NEW s \in Sessions PROVE SessionSound(s)
  BY DEF Init, SessionSound, Idle, Operations
<1> QED BY <1>3, <1>4 DEF LocksInv

-----------------------------------------------------------------------------
(* The job as JobLifecycle sees it.                                          *)
View(s, a, h, r) == [status |-> s, attempts |-> a, held |-> h, retries |-> r]
Image(j) == View(status[j], attempts[j], Active(j) # {}, retries[j])

(* The two values of "held", as names the provers take for values.           *)
Held == TRUE
NotHeld == FALSE

(* One field of the view changes at a time.                                  *)
LEMMA NewStatus ==
    ASSUME NEW s, NEW a, NEW h, NEW r, NEW x
    PROVE  View(x, a, h, r) = [View(s, a, h, r) EXCEPT !.status = x]
BY DEF View

LEMMA NewAttempts ==
    ASSUME NEW s, NEW a, NEW h, NEW r, NEW x
    PROVE  View(s, x, h, r) = [View(s, a, h, r) EXCEPT !.attempts = x]
BY DEF View

LEMMA NewHeld ==
    ASSUME NEW s, NEW a, NEW h, NEW r, NEW x
    PROVE  View(s, a, x, r) = [View(s, a, h, r) EXCEPT !.held = x]
BY DEF View

LEMMA NewRetries ==
    ASSUME NEW s, NEW a, NEW h, NEW r, NEW x
    PROVE  View(s, a, h, x) = [View(s, a, h, r) EXCEPT !.retries = x]
BY DEF View

(* The steps of JobLifecycle between two views, but for the end of work.     *)
LEMMA ViewSteps ==
    ASSUME NEW a, NEW h, NEW r
    PROVE  /\ \A s \in {"queued", "retrying"} :
                Lifecycle!Step(View(s, a, NotHeld, r), View("reserved", a, Held, r))
           /\ \A s \in {"queued", "reserved"} :
                Lifecycle!Step(View(s, a, Held, r), View("queued", a, NotHeld, r))
           /\ Lifecycle!Step(View("reserved", a, Held, r),
                             View("running", Append(a, "running"), Held, r))
           /\ Lifecycle!Step(View("failed", a, h, r), View("retrying", a, h, r + 1))
           /\ \A s \in {"new", "queued", "reserved", "failed", "retrying"} :
                Lifecycle!Step(View(s, a, h, r), View("cancelled", a, NotHeld, r))
<1>1. ASSUME NEW s \in {"queued", "retrying"}
      PROVE  Lifecycle!Reserve(View(s, a, NotHeld, r), View("reserved", a, Held, r))
  <2> DEFINE v == View(s, a, NotHeld, r)
             w1 == View("reserved", a, NotHeld, r)
             w2 == View("reserved", a, Held, r)
  <2>1. v.status = s /\ v.held = NotHeld
    BY DEF View
  <2>2. /\ w1 = [v EXCEPT !.status = "reserved"]
        /\ w2 = [w1 EXCEPT !.held = Held]
    BY NewHeld, NewStatus
  <2> HIDE DEF v, w1, w2
  <2>3. w2 = [v EXCEPT !.status = "reserved", !.held = Held]
    BY <2>2
  <2>4. Lifecycle!Reserve(v, w2)
    BY <2>1, <2>3 DEF Lifecycle!Reserve, Held, NotHeld
  <2> QED BY <2>4 DEF v, w2
<1>2. ASSUME NEW s \in {"queued", "reserved"}
      PROVE  Lifecycle!GiveBack(View(s, a, Held, r), View("queued", a, NotHeld, r))
  <2> DEFINE v == View(s, a, Held, r)
             w1 == View("queued", a, Held, r)
             w2 == View("queued", a, NotHeld, r)
  <2>1. v.status = s /\ v.held = Held
    BY DEF View
  <2>2. /\ w1 = [v EXCEPT !.status = "queued"]
        /\ w2 = [w1 EXCEPT !.held = NotHeld]
    BY NewHeld, NewStatus
  <2> HIDE DEF v, w1, w2
  <2>3. w2 = [v EXCEPT !.status = "queued", !.held = NotHeld]
    BY <2>2
  <2>4. Lifecycle!GiveBack(v, w2)
    BY <2>1, <2>3 DEF Lifecycle!GiveBack, Held, NotHeld
  <2> QED BY <2>4 DEF v, w2
<1>3. ASSUME NEW b, b = Append(a, "running")
      PROVE  Lifecycle!Start(View("reserved", a, Held, r), View("running", b, Held, r))
  <2> DEFINE v == View("reserved", a, Held, r)
             w1 == View("running", a, Held, r)
             w2 == View("running", b, Held, r)
  <2>1. v.status = "reserved" /\ v.held = Held /\ v.attempts = a
    BY DEF View
  <2>2. /\ w1 = [v EXCEPT !.status = "running"]
        /\ w2 = [w1 EXCEPT !.attempts = b]
    BY NewAttempts, NewStatus
  <2> HIDE DEF v, w1, w2
  <2>3. w2 = [v EXCEPT !.status = "running", !.attempts = b]
    BY <2>2
  <2>4. Lifecycle!Start(v, w2)
    BY <1>3, <2>1, <2>3 DEF Lifecycle!Start, Held, NotHeld
  <2> QED BY <2>4 DEF v, w2
<1>4. Lifecycle!Retry(View("failed", a, h, r), View("retrying", a, h, r + 1))
  <2> DEFINE v == View("failed", a, h, r)
             w1 == View("retrying", a, h, r)
             w2 == View("retrying", a, h, r + 1)
  <2>1. v.status = "failed" /\ v.retries = r
    BY DEF View
  <2>2. /\ w1 = [v EXCEPT !.status = "retrying"]
        /\ w2 = [w1 EXCEPT !.retries = r + 1]
    BY NewRetries, NewStatus
  <2> HIDE DEF v, w1, w2
  <2>3. w2 = [v EXCEPT !.status = "retrying", !.retries = r + 1]
    BY <2>2
  <2>4. Lifecycle!Retry(v, w2)
    BY <2>1, <2>3 DEF Lifecycle!Retry
  <2> QED BY <2>4 DEF v, w2
<1>5. ASSUME NEW s \in {"new", "queued", "reserved", "failed", "retrying"}
      PROVE  Lifecycle!Cancel(View(s, a, h, r), View("cancelled", a, NotHeld, r))
  <2> DEFINE v == View(s, a, h, r)
             w1 == View("cancelled", a, h, r)
             w2 == View("cancelled", a, NotHeld, r)
  <2>1. v.status = s
    BY DEF View
  <2>2. /\ w1 = [v EXCEPT !.status = "cancelled"]
        /\ w2 = [w1 EXCEPT !.held = NotHeld]
    BY NewHeld, NewStatus
  <2> HIDE DEF v, w1, w2
  <2>3. w2 = [v EXCEPT !.status = "cancelled", !.held = NotHeld]
    BY <2>2
  <2>4. Lifecycle!Cancel(v, w2)
    BY <2>1, <2>3 DEF Lifecycle!Cancel, Lifecycle!Unstarted, Held, NotHeld
  <2> QED BY <2>4 DEF v, w2
<1> QED BY <1>1, <1>2, <1>3, <1>4, <1>5 DEF Lifecycle!Step

(* The end of work is one too.                                               *)
LEMMA FinishStep ==
    ASSUME NEW end \in {"succeeded", "failed", "cancelled"}, NEW outcome,
           outcome = (IF end = "succeeded" THEN "success" ELSE "failed"), NEW a, NEW r
    PROVE  Lifecycle!Step(View("running", a, Held, r),
                          View(end, [a EXCEPT ![Len(a)] = outcome], NotHeld, r))
<1>1. end \in DOMAIN Lifecycle!EndOfWork /\ Lifecycle!EndOfWork[end] = outcome
  BY DEF Lifecycle!EndOfWork
<1> DEFINE c == [a EXCEPT ![Len(a)] = outcome]
<1>2. Lifecycle!Finish(View("running", a, Held, r), View(end, c, NotHeld, r))
  <2> DEFINE v == View("running", a, Held, r)
             w1 == View(end, a, Held, r)
             w2 == View(end, a, NotHeld, r)
             w3 == View(end, c, NotHeld, r)
  <2>1. v.status = "running" /\ v.held = Held /\ v.attempts = a
    BY DEF View
  <2>2. /\ w1 = [v EXCEPT !.status = end]
        /\ w2 = [w1 EXCEPT !.held = NotHeld]
        /\ w3 = [w2 EXCEPT !.attempts = c]
    BY NewAttempts, NewHeld, NewStatus
  <2> HIDE DEF v, w1, w2, w3
  <2>3. w3 = [v EXCEPT !.status = end, !.held = NotHeld, !.attempts = c]
    BY <2>2
  <2>4. Lifecycle!Finish(v, w3)
    BY <1>1, <2>1, <2>3 DEF Lifecycle!Finish, Held, NotHeld
  <2> QED BY <2>4 DEF v, w3
<1> QED BY <1>2 DEF Lifecycle!Step

-----------------------------------------------------------------------------
(* A job stays as it is or takes a step of its lifecycle.                    *)
JobMoves(j) == Shown(j)' = Shown(j) \/ Lifecycle!Step(Shown(j), Shown(j)')

LEMMA ShownIs ==
    ASSUME rowLocks, NEW j \in Jobs
    PROVE  /\ Active(j) = {} => Shown(j) = View(status[j], attempts[j], NotHeld, retries[j])
           /\ Active(j) # {} => Shown(j) = View(status[j], attempts[j], Held, retries[j])
<1>1. Active(j) = {} => (Active(j) # {}) = NotHeld
  BY DEF NotHeld
<1>2. Active(j) # {} => (Active(j) # {}) = Held
  BY DEF Held
<1> QED BY <1>1, <1>2 DEF Shown, View

LEMMA NextShownIs ==
    ASSUME rowLocks', NEW j \in Jobs, NEW q, q = reservations'[j]
    PROVE  /\ ActiveIn(q) = {} => Shown(j)' = View(status'[j], attempts'[j], NotHeld, retries'[j])
           /\ ActiveIn(q) # {} => Shown(j)' = View(status'[j], attempts'[j], Held, retries'[j])
<1>1. Active(j)' = ActiveIn(q)
  BY DEF Active, ActiveIn
<1>2. ActiveIn(q) = {} => (Active(j)' # {}) = NotHeld
  BY <1>1 DEF NotHeld
<1>3. ActiveIn(q) # {} => (Active(j)' # {}) = Held
  BY <1>1 DEF Held
<1> QED BY <1>2, <1>3 DEF Shown, View

LEMMA Untouched ==
    ASSUME rowLocks' = rowLocks, NEW j \in Jobs, status'[j] = status[j], attempts'[j] = attempts[j],
           reservations'[j] = reservations[j], retries'[j] = retries[j]
    PROVE  JobMoves(j)
<1>1. Active(j)' = Active(j)
  BY DEF Active
<1> QED BY <1>1 DEF Shown, JobMoves

(* An operation moves its job as JobLifecycle says.                          *)
LEMMA OperationMoves ==
    ASSUME Types, OneActive, LocksInv, rowLocks, rowLocks', NEW s \in Sessions,
           NEW j \in Jobs, NEW st \in JobStatuses, NEW a \in Seq(Outcomes), NEW q \in Seq(ReservationRows),
           NEW n \in Nat, OperationWrites(s, j, st, a, q, n)
    PROVE  JobMoves(j)
<1> USE DEF JobMoves
<1>1. /\ session[s].job = j /\ session[s].op \in Operations /\ session[s].pc = "inspected"
      /\ OperationSound(s) /\ Effect(s, st, a, q, n)
      /\ status'[j] = st /\ attempts'[j] = a /\ reservations'[j] = q /\ retries'[j] = n
  BY DEF OperationWrites, Wrote, Types, RowsOK
<1>2. Active(j) # {} <=> status[j] \in {"reserved", "running"}
  BY DEF LocksInv, JobSound
<1>3. q = reservations[j] => ActiveIn(q) = Active(j)
  BY DEF Active, ActiveIn
<1>4. CASE session[s].op = "reserve"
  <2>1. status[j] \in {"queued", "retrying"}
    BY <1>1, <1>4 DEF OperationSound
  <2>2. st = "reserved" /\ a = attempts[j] /\ n = retries[j] /\ Active(j) = {} /\ ActiveIn(q) # {}
    BY <1>1, <1>4 DEF Effect, EndOf
  <2>3. /\ Shown(j) = View(status[j], attempts[j], NotHeld, n)
        /\ Shown(j)' = View("reserved", attempts[j], Held, n)
    BY <1>1, <2>2, ShownIs, NextShownIs
  <2> QED BY <2>1, <2>3, ViewSteps
<1>5. CASE session[s].op = "release"
  <2>1. status[j] = "reserved" /\ session[s].found \in Active(j)
    BY <1>1, <1>5 DEF OperationSound
  <2>2. st = "queued" /\ a = attempts[j] /\ n = retries[j] /\ ActiveIn(q) = Active(j) \ {session[s].found}
    BY <1>1, <1>5 DEF Effect, EndOf
  <2>3. ActiveIn(q) = {} /\ Active(j) # {}
    BY <2>1, <2>2 DEF OneActive
  <2>4. /\ Shown(j) = View(status[j], attempts[j], Held, n)
        /\ Shown(j)' = View("queued", attempts[j], NotHeld, n)
    BY <1>1, <2>2, <2>3, ShownIs, NextShownIs
  <2> QED BY <2>1, <2>4, ViewSteps
<1>6. CASE session[s].op = "start"
  <2>1. status[j] = "reserved" /\ Active(j) # {}
    BY <1>1, <1>2, <1>6 DEF OperationSound
  <2>2. st = "running" /\ a = Append(attempts[j], "running") /\ q = reservations[j] /\ n = retries[j]
    BY <1>1, <1>6 DEF Effect, EndOf
  <2>3. /\ Shown(j) = View("reserved", attempts[j], Held, n)
        /\ Shown(j)' = View("running", Append(attempts[j], "running"), Held, n)
    BY <1>1, <1>3, <2>1, <2>2, ShownIs, NextShownIs
  <2> QED BY <2>3, ViewSteps
<1>7. CASE session[s].op \in DOMAIN EndOf
  <2>1. PICK end \in {"succeeded", "failed", "cancelled"}, outcome \in {"success", "failed"} :
          /\ end = EndOf[session[s].op] /\ outcome = OutcomeOf[session[s].op]
          /\ outcome = IF end = "succeeded" THEN "success" ELSE "failed"
    BY <1>7 DEF EndOf, OutcomeOf
  <2>2. /\ st = end /\ n = retries[j] /\ ActiveIn(q) = {}
        /\ a = IF session[s].found = 0 THEN attempts[j] ELSE [attempts[j] EXCEPT ![session[s].found] = outcome]
    BY <1>1, <1>7, <2>1 DEF Effect, EndOf
  <2>3. /\ session[s].found = IF status[j] = "running" THEN Len(attempts[j]) ELSE 0
        /\ session[s].op \in {"complete", "fail"} => status[j] = "running"
        /\ session[s].op = "cancel" => status[j] \in ActiveJobStatuses
    BY <1>1, <1>7 DEF OperationSound, EndOf
  <2>4. CASE status[j] = "running"
    <3>1. a = [attempts[j] EXCEPT ![Len(attempts[j])] = outcome]
      BY <2>2, <2>3, <2>4, EndedAttempts
    <3>2. /\ Shown(j) = View("running", attempts[j], Held, n)
          /\ Shown(j)' = View(end, a, NotHeld, n)
      BY <1>1, <1>2, <2>2, <2>4, ShownIs, NextShownIs
    <3>3. Lifecycle!Step(View("running", attempts[j], Held, n),
                         View(end, [attempts[j] EXCEPT ![Len(attempts[j])] = outcome], NotHeld, n))
      BY <2>1, FinishStep
    <3> QED BY <3>1, <3>2, <3>3
  <2>5. CASE status[j] # "running"
    <3>1. status[j] \in {"new", "queued", "reserved", "failed", "retrying"} /\ end = "cancelled"
      BY <1>7, <2>1, <2>3, <2>5 DEF EndOf, ActiveJobStatuses
    <3>2. a = attempts[j]
      BY <2>2, <2>3, <2>5
    <3>3. PICK h : Shown(j) = View(status[j], attempts[j], h, n)
      BY <2>2, ShownIs
    <3>4. Shown(j)' = View("cancelled", attempts[j], NotHeld, n)
      BY <1>1, <2>2, <3>1, <3>2, NextShownIs
    <3> QED BY <3>1, <3>3, <3>4, ViewSteps
  <2> QED BY <2>4, <2>5
<1>8. CASE session[s].op = "retry"
  <2>1. status[j] = "failed" /\ Active(j) = {}
    BY <1>1, <1>2, <1>8 DEF OperationSound
  <2>2. st = "retrying" /\ a = attempts[j] /\ q = reservations[j] /\ n = retries[j] + 1
    BY <1>1, <1>8 DEF Effect, EndOf
  <2>3. /\ Shown(j) = View("failed", attempts[j], NotHeld, retries[j])
        /\ Shown(j)' = View("retrying", attempts[j], NotHeld, retries[j] + 1)
    BY <1>1, <1>3, <2>1, <2>2, ShownIs, NextShownIs
  <2> QED BY <2>3, ViewSteps
<1> QED BY <1>1, <1>4, <1>5, <1>6, <1>7, <1>8 DEF Operations, EndOf

(* So does a cleanup every job of its batch.                                 *)
LEMMA CleanupMoves ==
    ASSUME Types, OneActive, LocksInv, rowLocks, rowLocks', NEW s \in Sessions, WriteCleanup(s),
           NEW j \in Batch(s)
    PROVE  JobMoves(j)
<1>1. /\ j \in Jobs /\ status[j] \in {"reserved", "running"} /\ Active(j) # {} /\ Active(j)' = {}
      /\ status[j] = "running" =>
           status'[j] = "failed" /\ attempts'[j] = [attempts[j] EXCEPT ![Len(attempts[j])] = "failed"]
      /\ status[j] = "reserved" => status'[j] = "queued" /\ attempts'[j] = attempts[j]
  BY CleanupJob
<1>2. retries' = retries
  BY CleanupStatus
<1>3. PICK q : q = reservations'[j]
  OBVIOUS
<1>4. ActiveIn(q) = {}
  BY <1>1, <1>3 DEF Active, ActiveIn
<1>5. /\ Shown(j) = View(status[j], attempts[j], Held, retries[j])
      /\ Shown(j)' = View(status'[j], attempts'[j], NotHeld, retries[j])
  BY <1>1, <1>2, <1>3, <1>4, ShownIs, NextShownIs
<1>6. CASE status[j] = "running"
  <2>1. Lifecycle!Step(View("running", attempts[j], Held, retries[j]),
                       View("failed", [attempts[j] EXCEPT ![Len(attempts[j])] = "failed"], NotHeld, retries[j]))
    BY FinishStep
  <2> QED BY <1>1, <1>5, <1>6, <2>1 DEF JobMoves
<1>7. CASE status[j] = "reserved"
  <2>1. Lifecycle!Step(View("reserved", attempts[j], Held, retries[j]),
                       View("queued", attempts[j], NotHeld, retries[j]))
    BY ViewSteps
  <2> QED BY <1>1, <1>5, <1>7, <2>1 DEF JobMoves
<1> QED BY <1>1, <1>6, <1>7

LEMMA WriteMovesJobs ==
    ASSUME Types, OneActive, LocksInv, rowLocks, NEW s \in Sessions, Writes(s), NEW j \in Jobs
    PROVE  JobMoves(j)
<1>1. rowLocks' = rowLocks
  BY StepMoves DEF Moves
<1>2. CASE WriteCleanup(s)
  <2>1. j \notin Batch(s) => JobMoves(j)
    BY <1>1, <1>2, CleanupOthers, CleanupStatus, Untouched
  <2> QED BY <1>1, <1>2, <2>1, CleanupMoves
<1>3. CASE ~WriteCleanup(s)
  <2>1. PICK k \in Jobs, st \in JobStatuses, a \in Seq(Outcomes), q \in Seq(ReservationRows), n \in Nat :
          OperationWrites(s, k, st, a, q, n)
    BY <1>3, OperationWrite
  <2>2. CASE k = j
    BY <1>1, <2>1, <2>2, OperationMoves
  <2>3. CASE k # j
    <3>1. /\ status'[j] = status[j] /\ attempts'[j] = attempts[j]
          /\ reservations'[j] = reservations[j] /\ retries'[j] = retries[j]
      BY <2>1, <2>3 DEF OperationWrites, Wrote, Types, RowsOK
    <3> QED BY <1>1, <3>1, Untouched
  <2> QED BY <2>2, <2>3
<1> QED BY <1>2, <1>3

(* Whatever step is taken, every job moves so.  Without row locks nothing is *)
(* shown of it.                                                              *)
LEMMA EveryJobMoves ==
    ASSUME Types, OneActive, CreatedFor(TRUE) = {}, rowLocks => LocksInv, [Next]_vars, NEW j \in Jobs
    PROVE  JobMoves(j)
<1>1. rowLocks' = rowLocks
  BY RowLocksStay
<1>2. CASE ~rowLocks
  BY <1>1, <1>2 DEF JobMoves, Shown
<1>3. CASE rowLocks
  <2>1. ASSUME UNCHANGED rows PROVE JobMoves(j)
    BY <1>1, <2>1, Untouched DEF rows
  <2>2. ASSUME NEW s \in Sessions, Quiet(s) PROVE JobMoves(j)
    BY <2>1, <2>2, QuietRows
  <2>3. ASSUME NEW s \in Sessions, InsertJob(s) PROVE JobMoves(j)
    BY <1>3, <2>3, NoInsert
  <2>4. ASSUME NEW s \in Sessions, Writes(s) PROVE JobMoves(j)
    BY <1>3, <2>4, WriteMovesJobs
  <2>5. CASE Tick \/ UNCHANGED vars
    BY <2>1, <2>5 DEF Tick, vars
  <2> QED BY <2>2, <2>3, <2>4, <2>5, NextActions
<1> QED BY <1>2, <1>3

(* With row locks, and while each request makes one call per session, the    *)
(* operations keep to the lifecycle however their database accesses          *)
(* interleave: each call moves its job as if it ran alone, and cleanup, with *)
(* its opposite lock order, every job of its batch.                          *)
THEOREM SessionsImplementLifecycle ==
    ASSUME CreatedFor(TRUE) = {}
    PROVE  Spec => ImplementsLifecycle
<1>1. Init => Lifecycle!Init
  <2> SUFFICES ASSUME Init PROVE Lifecycle!Init
    OBVIOUS
  <2>1. PICK setting \in Settings : status = setting.status
    BY DEF Init
  <2>2. \A j \in Jobs : status[j] \in {"absent", "queued", "cancelled"}
    BY <2>1, ParametersAssumption
  <2>3. \A j \in Jobs : attempts[j] = <<>> /\ retries[j] = 0 /\ Active(j) = {}
    BY DEF Init, Active
  <2> QED BY <2>2, <2>3 DEF Shown, Lifecycle!Init
<1>2. Init => (rowLocks => LocksInv)
  BY InitLocks
<1>3. Types /\ OneActive /\ (rowLocks => LocksInv) /\ [Next]_vars => (rowLocks => LocksInv)'
  BY LocksStep, RowLocksStay
<1>4. Types /\ OneActive /\ (rowLocks => LocksInv) /\ [Next]_vars => Lifecycle!Next
  BY EveryJobMoves DEF JobMoves, Lifecycle!Next
<1> QED BY <1>1, <1>2, <1>3, <1>4, TypesHold, PTL DEF Spec, ImplementsLifecycle, Lifecycle!Spec

==============================================================================
