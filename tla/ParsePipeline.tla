---------------------------- MODULE ParsePipeline ----------------------------
(* Parsing a stored file (services/parser_pipeline_service.py) into its      *)
(* ParseResult (services/parse_result_service.py) on behalf of an ingestion  *)
(* job.  A parse request is a sequence of transactions in one session; it is *)
(* split between them, and rows it has loaded keep the values it loaded them *)
(* with.  Around the requests, nodes and operators take the steps            *)
(* JobLifecycle allows and administrators invalidate results.                *)
EXTENDS Naturals, Sequences

CONSTANTS
    Files,          \* stored files; with one parser each has one result identity
    Jobs,           \* ingestion jobs of the files' document
    Requests,       \* POST /files/{id}/parse and /reparse, one call each
    Contents,       \* canonical documents a parser may produce, told apart by their hash
    MaxAttempts,    \* bound on the attempts at a job
    None

ASSUME MaxAttemptsAssumption == MaxAttempts \in Nat
ASSUME NoneAssumption == None \notin Contents \cup Files \cup Jobs

VARIABLES
    job,         \* per job: status, attempts, held, retries, as in JobLifecycle
    result,      \* ParseResult.status and content_hash, "absent" before the row exists
    executions,  \* ParseExecution.status by attempt_number
    manifests,   \* content hashes of the canonical_manifest artifacts, in order of id
    request      \* what each request is doing, and its copies of the rows

rows == <<result, executions, manifests>>
vars == <<job, rows, request>>

Lifecycle == INSTANCE JobLifecycle

-----------------------------------------------------------------------------
ResultStatuses == {"pending", "parsing", "succeeded", "failed", "invalidated"}
ExecutionStatuses == {"running", "succeeded", "failed"}

Row(status, content) == [status |-> status, content |-> content]

(* copy is the request's ParseResult, copied whether that had artifacts when *)
(* it was loaded, execution the number of the attempt it has begun, or 0.    *)
Idle == [pc |-> "idle", file |-> None, job |-> None, force |-> FALSE,
         copy |-> Row("absent", None), copied |-> FALSE, execution |-> 0, document |-> None]

At(r, pc) == request[r].pc = pc
Goto(r, pc) == request' = [request EXCEPT ![r].pc = pc]
End(r) == request' = [request EXCEPT ![r] = [Idle EXCEPT !.pc = "done"]]
FileOf(r) == request[r].file
JobOf(r) == request[r].job

RunningExecutions(f) == {n \in DOMAIN executions[f] : executions[f][n] = "running"}
RunningAttempts(j) == {n \in DOMAIN job[j].attempts : job[j].attempts[n] = "running"}

Init ==
    /\ job = [j \in Jobs |-> [status |-> "reserved", attempts |-> <<>>, held |-> TRUE, retries |-> 0]]
    /\ result = [f \in Files |-> Row("absent", None)]
    /\ executions = [f \in Files |-> <<>>]
    /\ manifests = [f \in Files |-> <<>>]
    /\ request = [r \in Requests |-> Idle]

(* Everything else that happens to a job: its reservation is given back,     *)
(* taken or expires, it is cancelled, retried, or started and finished by    *)
(* hand.                                                                     *)
Attempts(j) ==
    LET a == job[j].attempts IN
    {a, Append(a, "running")} \cup {[a EXCEPT ![Len(a)] = end] : end \in {"success", "failed"}}

JobMoves(j) ==
    /\ \E b \in [status : {"queued", "reserved", "running", "succeeded", "failed", "retrying", "cancelled"},
                 attempts : Attempts(j), held : BOOLEAN, retries : {job[j].retries, job[j].retries + 1}] :
         /\ Lifecycle!Step(job[j], b)
         /\ Len(b.attempts) <= MaxAttempts
         /\ b.retries < MaxAttempts
         /\ job' = [job EXCEPT ![j] = b]
    /\ UNCHANGED <<rows, request>>

-----------------------------------------------------------------------------
(* _resolve_job: a reserved or a running job will do.  A request refused     *)
(* here, or by any check of the document version or its eligibility, changes *)
(* nothing.                                                                  *)
Resolve(r, f, j, force) ==
    /\ At(r, "idle")
    /\ job[j].status \in {"reserved", "running"}
    /\ job[j].held
    /\ request' = [request EXCEPT ![r] =
         [Idle EXCEPT !.pc = IF job[j].status = "reserved" THEN "start" ELSE "read",
                      !.file = f, !.job = j, !.force = force]]
    /\ UNCHANGED <<job, rows>>

(* start_job reads the job under a lock but keeps the copy _resolve_job      *)
(* loaded, reserved; the reservation is looked up anew.  Nothing is settled  *)
(* when this step is refused, for instance because the reservation expired.  *)
StartJob(r) == LET j == JobOf(r) IN
    /\ At(r, "start")
    /\ \/ /\ job[j].held
          /\ Len(job[j].attempts) < MaxAttempts
          /\ job' = [job EXCEPT ![j].status = "running", ![j].attempts = Append(@, "running")]
          /\ Goto(r, "read")
       \/ End(r) /\ UNCHANGED job
    /\ UNCHANGED rows

(* The object may be missing, of another size or hash, or unreadable.        *)
ContentRefused(r) ==
    /\ At(r, "read")
    /\ Goto(r, "failing")
    /\ UNCHANGED <<job, rows>>

(* create_or_get_parse_result: the row is inserted if there is none, and the *)
(* loser of two inserts loads the winner's.  A successful result ends the    *)
(* work unless a reparse was asked for.                                      *)
OpenResult(r) == LET f == FileOf(r) IN
    /\ At(r, "read")
    /\ result' = IF result[f].status = "absent" THEN [result EXCEPT ![f] = Row("pending", None)] ELSE result
    /\ request' = [request EXCEPT
         ![r].copy = result'[f],
         ![r].copied = manifests[f] # <<>>,
         ![r].pc = IF result'[f].status = "succeeded" /\ ~request[r].force THEN "complete" ELSE "begin"]
    /\ UNCHANGED <<job, executions, manifests>>

(* begin_parse_execution locks the result, but decides on the copy; whether  *)
(* an execution runs is looked up anew.  A copy that says "parsing" leaves   *)
(* the column unchanged and so unwritten, whatever it holds by now.          *)
BeginUnchecked(r) == LET f == FileOf(r) IN  \* bug: a running execution does not stop another
    /\ At(r, "begin")
    /\ result' = [result EXCEPT ![f].status = "parsing"]
    /\ executions' = [executions EXCEPT ![f] = Append(@, "running")]
    /\ request' = [request EXCEPT ![r].pc = "parse", ![r].execution = Len(executions[f]) + 1,
                                  ![r].copy.status = "parsing"]
    /\ UNCHANGED <<job, manifests>>
BeginExecution(r) == LET f == FileOf(r)
                         copy == request[r].copy IN
    /\ At(r, "begin")
    /\ \/ /\ copy.status # "invalidated"
          /\ RunningExecutions(f) = {}
          /\ executions' = [executions EXCEPT ![f] = Append(@, "running")]
          /\ result' = IF copy.status \in {"succeeded", "parsing"} THEN result
                       ELSE [result EXCEPT ![f].status = "parsing"]
          /\ request' = [request EXCEPT
               ![r].pc = "parse",
               ![r].execution = Len(executions[f]) + 1,
               ![r].copy.status = IF @ = "succeeded" THEN @ ELSE "parsing"]
       \/ Goto(r, "failing") /\ UNCHANGED <<result, executions>>
    /\ UNCHANGED <<job, manifests>>

(* Extraction fails, or its output does not validate; or it yields a         *)
(* document.                                                                 *)
Parse(r) ==
    /\ At(r, "parse")
    /\ \/ Goto(r, "failing")
       \/ \E c \in Contents :
            request' = [request EXCEPT ![r].document = c, ![r].pc = "persist"]
    /\ UNCHANGED <<job, rows>>

(* complete_parse_execution and the artifacts, in one transaction: a new     *)
(* result is written whole, a successful one is only compared.               *)
ArtifactsMissing(r) == manifests  \* bug: the result is committed before its artifacts
ManifestsAfter(r) ==
    IF request[r].copied THEN manifests
    ELSE [manifests EXCEPT ![FileOf(r)] = Append(@, request[r].document)]

PersistResult(r) == LET f == FileOf(r)
                        copy == request[r].copy IN
    /\ At(r, "persist")
    /\ \/ /\ copy.status = "parsing"
          /\ result' = [result EXCEPT ![f] = Row("succeeded", request[r].document)]
          /\ manifests' = ManifestsAfter(r)
       \/ /\ copy = Row("succeeded", request[r].document)
          /\ UNCHANGED <<result, manifests>>
    /\ executions' = [executions EXCEPT ![f][request[r].execution] = "succeeded"]
    /\ Goto(r, "complete")
    /\ UNCHANGED job

RefuseDifference(r) ==
    /\ At(r, "persist")
    /\ request[r].copy.status = "succeeded"
    /\ request[r].copy.content # request[r].document
    /\ Goto(r, "failing")
    /\ UNCHANGED <<job, rows>>

(* complete_job, with the job's copy, running: what counts is whether an     *)
(* attempt runs.  The latest one is finished, whoever made it.               *)
EndJob(j, status, outcome) ==
    LET latest == CHOOSE n \in RunningAttempts(j) : \A m \in RunningAttempts(j) : m <= n
    IN job' = [job EXCEPT ![j].status = status, ![j].attempts[latest] = outcome, ![j].held = FALSE]

CompleteJob(r) == LET j == JobOf(r) IN
    /\ At(r, "complete")
    /\ IF RunningAttempts(j) # {}
       THEN EndJob(j, "succeeded", "success") /\ End(r)
       ELSE Goto(r, "failing") /\ UNCHANGED job
    /\ UNCHANGED rows

(* The handler of every exception: fail_parse_execution refuses an execution *)
(* that is complete and goes by the copy of the result; then fail_job for a  *)
(* job that, read anew, is running.                                          *)
FailExecutionForgotten(r) ==  \* bug: only the job is failed
    /\ At(r, "failing")
    /\ Goto(r, "settle")
    /\ UNCHANGED <<job, rows>>
FailExecution(r) == LET f == FileOf(r)
                        n == request[r].execution IN
    /\ At(r, "failing")
    /\ IF n \in RunningExecutions(f)
       THEN /\ executions' = [executions EXCEPT ![f][n] = "failed"]
            /\ result' = IF request[r].copy.status = "succeeded" THEN result
                         ELSE [result EXCEPT ![f].status = "failed"]
       ELSE UNCHANGED <<executions, result>>
    /\ Goto(r, "settle")
    /\ UNCHANGED <<job, manifests>>

SettleBegunOnly(r) == LET j == JobOf(r) IN  \* bug: a job is failed only after an execution was begun
    /\ At(r, "settle")
    /\ IF request[r].execution # 0 /\ job[j].status = "running" /\ RunningAttempts(j) # {}
       THEN EndJob(j, "failed", "failed")
       ELSE UNCHANGED job
    /\ End(r)
    /\ UNCHANGED rows
SettleJob(r) == LET j == JobOf(r) IN
    /\ At(r, "settle")
    /\ IF job[j].status = "running" /\ RunningAttempts(j) # {}
       THEN EndJob(j, "failed", "failed")
       ELSE UNCHANGED job
    /\ End(r)
    /\ UNCHANGED rows

(* The process may die at any point; and the database may refuse the flush   *)
(* of the result with something else than an integrity error.  The session   *)
(* then refuses every other statement until it is rolled back; the handler   *)
(* does not roll back first, its own first query fails, and get_db undoes    *)
(* what was not committed.                                                   *)
Crash(r) ==
    /\ request[r].pc \notin {"idle", "done", "crashed", "unrecorded"}
    /\ Goto(r, "crashed")
    /\ UNCHANGED <<job, rows>>

FailToPersist(r) ==
    /\ At(r, "persist")
    /\ Goto(r, "unrecorded")
    /\ UNCHANGED <<job, rows>>

InvalidateResult(f) ==
    /\ result[f].status = "succeeded"
    /\ result' = [result EXCEPT ![f].status = "invalidated"]
    /\ UNCHANGED <<job, executions, manifests, request>>

Next ==
    \/ \E r \in Requests, f \in Files, j \in Jobs, force \in BOOLEAN : Resolve(r, f, j, force)
    \/ \E r \in Requests :
        \/ StartJob(r) \/ ContentRefused(r) \/ OpenResult(r) \/ BeginExecution(r) \/ Parse(r)
        \/ PersistResult(r) \/ RefuseDifference(r) \/ CompleteJob(r)
        \/ FailExecution(r) \/ SettleJob(r) \/ FailToPersist(r) \/ Crash(r)
    \/ \E j \in Jobs : JobMoves(j)
    \/ \E f \in Files : InvalidateResult(f)

Spec == Init /\ [][Next]_vars

-----------------------------------------------------------------------------
TypeOK ==
    /\ \A j \in Jobs :
        /\ job[j].status \in {"queued", "reserved", "running", "succeeded", "failed", "retrying", "cancelled"}
        /\ job[j].attempts \in Seq({"running", "success", "failed"})
        /\ job[j].held \in BOOLEAN
        /\ job[j].retries \in Nat
    /\ result \in [Files -> [status : ResultStatuses \cup {"absent"}, content : Contents \cup {None}]]
    /\ executions \in [Files -> Seq(ExecutionStatuses)]
    /\ manifests \in [Files -> Seq(Contents)]
    /\ \A r \in Requests :
        /\ request[r].pc \in {"idle", "start", "read", "begin", "parse", "persist", "complete",
                              "failing", "settle", "done", "crashed", "unrecorded"}
        /\ request[r].execution \in Nat

(* "preserve every attempt in ParseExecution": executions are numbered, run   *)
(* one at a time and never change once finished, however requests interleave. *)
Log == INSTANCE ExecutionLog WITH Outputs <- Files
ImplementsExecutionLog == Log!Spec

(* An execution left running refuses every later parse of the file.  Each    *)
(* running execution is one request's own, which is about to finish it or    *)
(* was broken off before it could: no other path leaves one behind.          *)
RunningExecutionsAreWorked ==
    \A f \in Files : \A n \in RunningExecutions(f) :
        \E r \in Requests :
            /\ FileOf(r) = f
            /\ request[r].execution = n
            /\ request[r].pc \in {"parse", "persist", "failing", "crashed", "unrecorded"}

(* A result shown as parsing is being parsed, and one shown as pending never *)
(* has been.                                                                 *)
StatusFollowsExecutions ==
    \A f \in Files :
        /\ result[f].status = "parsing" => RunningExecutions(f) # {}
        /\ result[f].status = "pending" => executions[f] = <<>>

(* What chunking relies on: a successful result has an output, artifacts     *)
(* committed with it and an execution that produced it.                      *)
SuccessHasOutput ==
    \A f \in Files : result[f].status \in {"succeeded", "invalidated"} =>
        /\ result[f].content # None
        /\ manifests[f] # <<>>
        /\ \E n \in DOMAIN executions[f] : executions[f][n] = "succeeded"

(* A request that has got past the start of its job, and is not broken off,  *)
(* ends with the job settled: no error path leaves it running.               *)
RequestsSettleJobs ==
    [][\A r \in Requests :
         request[r].pc \notin {"idle", "start", "done"} /\ request'[r].pc = "done"
           => job'[JobOf(r)].status # "running"]_vars

(* Result, executions and requests agree: no error path, crash or overlapping *)
(* request leaves an execution running that nobody works on, or a status that *)
(* its executions do not bear out.                                            *)
ExecutionsConsistent == TypeOK /\ RunningExecutionsAreWorked /\ StatusFollowsExecutions
=============================================================================
