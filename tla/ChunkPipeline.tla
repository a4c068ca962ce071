----------------------------- MODULE ChunkPipeline -----------------------------
(* Chunking a parse result (services/chunking_pipeline_service.py) into the   *)
(* ChunkSet of a configuration (services/chunking_service.py).  A request is  *)
(* a sequence of transactions in one session; between them others run, and    *)
(* the ChunkSet it has loaded keeps its status until a rollback.  The same    *)
(* result and configuration always yield the same chunks, so of chunks it     *)
(* only counts whether they are there.                                        *)
EXTENDS Naturals, Sequences, FiniteSets

CONSTANTS
    Configurations,   \* strategy and options; each has one chunk set of the parse result
    Requests,         \* chunk, rechunk and invalidate requests, one call each
    None

ASSUME NoneAssumption == None \notin Configurations

VARIABLES
    parsed,       \* ParseResult.status of the result that is chunked
    status,       \* ChunkSet.status, "absent" before the row exists
    chunks,       \* the chunk sets with KnowledgeChunk rows and artifacts
    executions,   \* ChunkingExecution.status by attempt_number
    request       \* what each request is doing, and its copy of ChunkSet.status

vars == <<parsed, status, chunks, executions, request>>

-----------------------------------------------------------------------------
ChunkSetStatuses == {"pending", "chunking", "succeeded", "failed", "invalidated"}
ExecutionStatuses == {"running", "succeeded", "failed"}

Idle == [pc |-> "idle", set |-> None, copy |-> "absent", execution |-> 0]

At(r, pc) == request[r].pc = pc
Goto(r, pc) == request' = [request EXCEPT ![r].pc = pc]
End(r) == Goto(r, "done")
SetOf(r) == request[r].set

Running(s) == {n \in DOMAIN executions[s] : executions[s][n] = "running"}
Successes(s) == {n \in DOMAIN executions[s] : executions[s][n] = "succeeded"}

Init ==
    /\ parsed = "succeeded"
    /\ status = [s \in Configurations |-> "absent"]
    /\ chunks = {}
    /\ executions = [s \in Configurations |-> << >>]
    /\ request = [r \in Requests |-> Idle]

-----------------------------------------------------------------------------
(* validate_parse_result_for_chunking, for chunk and rechunk alike; the parse *)
(* result is not looked at again.                                             *)
ValidateParseResult(r, s) ==
    /\ At(r, "idle")
    /\ parsed = "succeeded"
    /\ request' = [request EXCEPT ![r] = [Idle EXCEPT !.pc = "open", !.set = s]]
    /\ UNCHANGED <<parsed, status, chunks, executions>>

InvalidateParseResult ==
    /\ parsed = "succeeded"
    /\ parsed' = "invalidated"
    /\ UNCHANGED <<status, chunks, executions, request>>

(* The row is inserted if there is none; the loser of two inserts loads the   *)
(* winner's.  A successful chunk set is returned as it is.                    *)
CreateOrGetChunkSet(r) == LET s == SetOf(r) IN
    /\ At(r, "open")
    /\ status' = IF status[s] = "absent" THEN [status EXCEPT ![s] = "pending"] ELSE status
    /\ request' = [request EXCEPT ![r].copy = status'[s],
                                  ![r].pc = IF status'[s] = "succeeded" THEN "done" ELSE "begin"]
    /\ UNCHANGED <<parsed, chunks, executions>>

(* begin_chunking_execution locks the chunk set, but decides on the copy; the *)
(* running execution is looked up.  A copy that says "chunking" leaves the    *)
(* column unwritten, whatever it holds by now.                                *)
BeginBesideAnother(r) == LET s == SetOf(r) IN  \* bug: a running execution does not stop another
    /\ At(r, "begin")
    /\ request[r].copy # "invalidated"
    /\ executions' = [executions EXCEPT ![s] = Append(@, "running")]
    /\ status' = IF request[r].copy = "chunking" THEN status ELSE [status EXCEPT ![s] = "chunking"]
    /\ request' = [request EXCEPT ![r].pc = "generate", ![r].copy = "chunking",
                                  ![r].execution = Len(executions[s]) + 1]
    /\ UNCHANGED <<parsed, chunks>>
BeginChunkingExecution(r) == LET s == SetOf(r) IN
    /\ At(r, "begin")
    /\ request[r].copy # "invalidated"
    /\ Running(s) = {}
    /\ executions' = [executions EXCEPT ![s] = Append(@, "running")]
    /\ status' = IF request[r].copy = "chunking" THEN status ELSE [status EXCEPT ![s] = "chunking"]
    /\ request' = [request EXCEPT ![r].pc = "generate", ![r].copy = "chunking",
                                  ![r].execution = Len(executions[s]) + 1]
    /\ UNCHANGED <<parsed, chunks>>

BeginRefused(r) ==
    /\ At(r, "begin")
    /\ request[r].copy = "invalidated" \/ Running(SetOf(r)) # {}
    /\ End(r)
    /\ UNCHANGED <<parsed, status, chunks, executions>>

(* Candidates are generated and validated, or refused.                        *)
GenerateChunkCandidates(r) ==
    /\ At(r, "generate")
    /\ \E pc \in {"persist", "failing"} : Goto(r, pc)
    /\ UNCHANGED <<parsed, status, chunks, executions>>

CompleteChunkingExecution(s, n) ==
    /\ executions' = [executions EXCEPT ![s][n] = "succeeded"]
    /\ status' = [status EXCEPT ![s] = "succeeded"]

(* Chunks, spans, links, artifacts, the execution and the chunk set are one   *)
(* transaction, refused if there are chunks already.                          *)
PersistTwice(r) == LET s == SetOf(r) IN  \* bug: existing chunks are not looked for
    /\ At(r, "persist")
    /\ chunks' = chunks \cup {s}
    /\ CompleteChunkingExecution(s, request[r].execution)
    /\ End(r)
    /\ UNCHANGED parsed
PersistChunkSet(r) == LET s == SetOf(r) IN
    /\ At(r, "persist")
    /\ s \notin chunks
    /\ chunks' = chunks \cup {s}
    /\ CompleteChunkingExecution(s, request[r].execution)
    /\ End(r)
    /\ UNCHANGED parsed

(* Whatever fails while the chunks are persisted is rolled back.              *)
FailToPersist(r) ==
    /\ At(r, "persist")
    /\ Goto(r, "failing")
    /\ UNCHANGED <<parsed, status, chunks, executions>>

(* The handler has rolled back, so fail_chunking_execution reads both rows    *)
(* anew.  A chunk set that is successful by then is not to be updated: the    *)
(* guard on the model raises an error that nothing handles, and the execution *)
(* is left as it is.                                                          *)
FailStatusOnly(r) == LET s == SetOf(r) IN  \* bug: the chunk set fails, its execution stays running
    /\ At(r, "failing")
    /\ status' = [status EXCEPT ![s] = IF @ = "succeeded" THEN @ ELSE "failed"]
    /\ End(r)
    /\ UNCHANGED <<parsed, chunks, executions>>
FailChunkingExecution(r) == LET s == SetOf(r) IN
    /\ At(r, "failing")
    /\ IF status[s] = "succeeded" THEN UNCHANGED <<status, executions>>
       ELSE /\ executions' = [executions EXCEPT ![s][request[r].execution] = "failed"]
            /\ status' = [status EXCEPT ![s] = "failed"]
    /\ End(r)
    /\ UNCHANGED <<parsed, chunks>>

(* The process may die at any point.                                          *)
Crash(r) ==
    /\ request[r].pc \notin {"idle", "done", "crashed"}
    /\ Goto(r, "crashed")
    /\ UNCHANGED <<parsed, status, chunks, executions>>

-----------------------------------------------------------------------------
(* invalidate_chunk_set loads the chunk set, and writes its status later.     *)
LoadSuccessful(r, s) ==
    /\ At(r, "idle")
    /\ status[s] = "succeeded"
    /\ request' = [request EXCEPT ![r] = [Idle EXCEPT !.pc = "invalidate", !.set = s, !.copy = "succeeded"]]
    /\ UNCHANGED <<parsed, status, chunks, executions>>

InvalidateChunkSet(r) ==
    /\ At(r, "invalidate")
    /\ status' = [status EXCEPT ![SetOf(r)] = "invalidated"]
    /\ End(r)
    /\ UNCHANGED <<parsed, chunks, executions>>

Next ==
    \/ InvalidateParseResult
    \/ \E r \in Requests, s \in Configurations : ValidateParseResult(r, s) \/ LoadSuccessful(r, s)
    \/ \E r \in Requests :
        \/ CreateOrGetChunkSet(r) \/ BeginChunkingExecution(r) \/ BeginRefused(r)
        \/ GenerateChunkCandidates(r) \/ PersistChunkSet(r) \/ FailToPersist(r)
        \/ FailChunkingExecution(r) \/ InvalidateChunkSet(r) \/ Crash(r)

Spec == Init /\ [][Next]_vars

-----------------------------------------------------------------------------
TypeOK ==
    /\ parsed \in {"succeeded", "invalidated"}
    /\ status \in [Configurations -> ChunkSetStatuses \cup {"absent"}]
    /\ chunks \subseteq Configurations
    /\ executions \in [Configurations -> Seq(ExecutionStatuses)]
    /\ \A r \in Requests : request[r].set \in Configurations \cup {None} /\ request[r].execution \in Nat

(* Executions are numbered, run one at a time and never change once finished, *)
(* whatever copies the requests decide on.                                    *)
Log == INSTANCE ExecutionLog WITH Outputs <- Configurations
ImplementsExecutionLog == Log!Spec

(* Chunks are written by exactly one execution, and a chunk set that is shown *)
(* as successful has them.  A failed one may have them too: a request that    *)
(* began beside the successful one records its failure late.                  *)
ChunksHaveOneExecution ==
    \A s \in Configurations :
        /\ Cardinality(Successes(s)) = (IF s \in chunks THEN 1 ELSE 0)
        /\ status[s] \in {"succeeded", "invalidated"} => s \in chunks

(* A running execution, which refuses every later one, belongs to a request   *)
(* at work on it or cut off by a crash, or to a chunk set that was successful *)
(* when its failure was to be recorded.                                       *)
RunningExecutionsAreWorked ==
    \A s \in Configurations : \A n \in Running(s) : \E r \in Requests :
        /\ SetOf(r) = s /\ request[r].execution = n
        /\ request[r].pc \in {"generate", "persist", "failing", "crashed"} \/ s \in chunks

(* What a chunk set shows is what its executions say: one being chunked has   *)
(* an execution, a failed one ended with a failure, a pending one has none.   *)
StatusFollowsExecutions ==
    \A s \in Configurations :
        /\ status[s] = "pending" => executions[s] = << >>
        /\ status[s] = "chunking" => Running(s) # {}
        /\ status[s] = "failed" => executions[s][Len(executions[s])] # "succeeded"

(* Chunk set, executions and requests agree whatever requests overlap or die. *)
ExecutionsConsistent == TypeOK /\ RunningExecutionsAreWorked /\ StatusFollowsExecutions
=============================================================================
