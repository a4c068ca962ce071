---------------------------- MODULE ChunkingProofs ----------------------------
(* About a chunk request and about what it stores.  The first half shows that *)
(* executions form a log and chunks are written by one execution, for any     *)
(* configurations and any number of requests that overlap or die; what makes  *)
(* it inductive is who works: a request past its begin holds a running        *)
(* execution, and no two requests work on one chunk set, although none of     *)
(* them looks at anything but its own copy and the executions.  The second    *)
(* half shows what the strategies cut, for any file and any configuration:    *)
(* what makes it inductive is where each character is, in a candidate, in the *)
(* chunk being packed, or still to come.                                      *)
EXTENDS ChunkPipeline, ChunkingStrategies, SequenceTheorems, FiniteSetTheorems, WellFoundedInduction, TLAPS

Steps == {"idle", "open", "begin", "generate", "persist", "failing", "invalidate", "done", "crashed"}
RequestType == [pc : Steps, set : Configurations \cup {None},
                copy : ChunkSetStatuses \cup {"absent"}, execution : Nat]

Types ==
    /\ status \in [Configurations -> ChunkSetStatuses \cup {"absent"}]
    /\ chunks \subseteq Configurations
    /\ executions \in [Configurations -> Seq(ExecutionStatuses)]
    /\ request \in [Requests -> RequestType]

Aims(q) == q.pc \in {"open", "begin", "generate", "persist", "failing", "invalidate"}
Works(q) == q.pc \in {"generate", "persist", "failing"}

(* What a request works on is running in the log.                             *)
Holds(q, log) == q.execution \in DOMAIN log[q.set] /\ log[q.set][q.execution] = "running"

Working ==
    /\ \A r \in Requests : Aims(request[r]) => request[r].set \in Configurations
    /\ \A r \in Requests : Works(request[r]) => Holds(request[r], executions)
    /\ \A r, q \in Requests :
         Works(request[r]) /\ Works(request[q]) /\ request[r].set = request[q].set => r = q

WrittenOnce ==
    \A s \in Configurations :
        /\ s \notin chunks => Successes(s) = {}
        /\ s \in chunks => \E n : Successes(s) = {n}

Shown ==
    /\ \A s \in Configurations : status[s] \in {"succeeded", "invalidated"} => s \in chunks
    /\ \A r \in Requests : request[r].pc = "invalidate" => request[r].set \in chunks

IInv == Types /\ Working /\ WrittenOnce /\ Shown

-----------------------------------------------------------------------------
(* What a request becomes when it goes on.                                    *)
LEMMA Moved ==
    ASSUME Types, NEW r \in Requests, NEW w \in RequestType, request' = [request EXCEPT ![r] = w]
    PROVE  /\ request' \in [Requests -> RequestType]
           /\ request'[r] = w
           /\ \A q \in Requests : q # r => request'[q] = request[q]
BY DEF Types

LEMMA Going ==
    ASSUME Types, NEW r \in Requests, NEW c \in Steps, request' = [request EXCEPT ![r].pc = c]
    PROVE  \E w \in RequestType : /\ request' = [request EXCEPT ![r] = w] /\ w.pc = c
                                  /\ w.set = request[r].set
                                  /\ w.execution = request[r].execution
<1> DEFINE w == [request[r] EXCEPT !.pc = c]
<1>1. request[r] \in RequestType BY DEF Types
<1>2. w \in RequestType /\ w.pc = c /\ w.set = request[r].set /\ w.execution = request[r].execution
    BY <1>1 DEF RequestType
<1>3. request' = [request EXCEPT ![r] = w] BY DEF Types
<1> QED BY <1>2, <1>3

(* A request that writes nothing goes on, without beginning to work.          *)
LEMMA OnlyMoves ==
    ASSUME IInv, NEW r \in Requests, NEW w \in RequestType, request' = [request EXCEPT ![r] = w],
           Aims(w) => w.set \in Configurations,
           Works(w) => Works(request[r]) /\ w.set = request[r].set /\ w.execution = request[r].execution,
           w.pc = "invalidate" => w.set \in chunks,
           UNCHANGED <<status, chunks, executions>>
    PROVE  IInv'
<1>1. /\ request' \in [Requests -> RequestType]
      /\ request'[r] = w
      /\ \A q \in Requests : q # r => request'[q] = request[q]
    BY Moved DEF IInv
<1>2. Types' BY <1>1 DEF IInv, Types
<1>3. Working'
    <2>1. \A q \in Requests : Aims(request'[q]) => request'[q].set \in Configurations
        BY <1>1 DEF IInv, Working
    <2>2. \A q \in Requests : Works(request'[q]) =>
             Works(request[q]) /\ request'[q].set = request[q].set /\ request'[q].execution = request[q].execution
        BY <1>1
    <2>3. \A q \in Requests : Works(request'[q]) => Holds(request'[q], executions')
        BY <2>2 DEF IInv, Working, Holds
    <2>4. \A p, q \in Requests :
             Works(request'[p]) /\ Works(request'[q]) /\ request'[p].set = request'[q].set => p = q
        BY <2>2 DEF IInv, Working
    <2> QED BY <2>1, <2>3, <2>4 DEF Working
<1>4. WrittenOnce' BY DEF IInv, WrittenOnce, Successes
<1>5. Shown' BY <1>1 DEF IInv, Shown
<1> QED BY <1>2, <1>3, <1>4, <1>5 DEF IInv

(* As before when the status of one chunk set is written too.                 *)
LEMMA OnlyShows ==
    ASSUME IInv, NEW r \in Requests, NEW w \in RequestType, request' = [request EXCEPT ![r] = w],
           NEW s \in Configurations, NEW x \in ChunkSetStatuses, status' = [status EXCEPT ![s] = x],
           x \in {"succeeded", "invalidated"} => s \in chunks,
           Aims(w) => w.set \in Configurations, ~Works(w), w.pc # "invalidate",
           UNCHANGED <<chunks, executions>>
    PROVE  IInv'
<1>1. /\ request' \in [Requests -> RequestType]
      /\ request'[r] = w
      /\ \A q \in Requests : q # r => request'[q] = request[q]
    BY Moved DEF IInv
<1>2. Types' BY <1>1 DEF IInv, Types
<1>3. Working'
    BY <1>1 DEF IInv, Working, Holds
<1>4. WrittenOnce' BY DEF IInv, WrittenOnce, Successes
<1>5. \A t \in Configurations : status'[t] \in {"succeeded", "invalidated"} => t \in chunks
    BY DEF IInv, Types, Shown
<1>6. Shown' BY <1>1, <1>5 DEF IInv, Shown
<1> QED BY <1>2, <1>3, <1>4, <1>6 DEF IInv

-----------------------------------------------------------------------------
(* The executions of a chunk set after one of them has ended.                 *)
LEMMA Ended ==
    ASSUME Types, NEW s \in Configurations, NEW n \in Running(s), NEW x \in {"succeeded", "failed"},
           executions' = [executions EXCEPT ![s][n] = x]
    PROVE  /\ executions' \in [Configurations -> Seq(ExecutionStatuses)]
           /\ \A t \in Configurations : t # s => executions'[t] = executions[t]
           /\ Running(s)' = Running(s) \ {n}
           /\ Successes(s)' = IF x = "succeeded" THEN Successes(s) \cup {n} ELSE Successes(s)
<1> DEFINE e == executions[s]
<1>1. e \in Seq(ExecutionStatuses) /\ n \in DOMAIN e /\ e[n] = "running"
    BY DEF Types, Running
<1>2. executions'[s] = [e EXCEPT ![n] = x] /\ \A t \in Configurations : t # s => executions'[t] = executions[t]
    BY DEF Types
<1>3. [e EXCEPT ![n] = x] \in Seq(ExecutionStatuses) /\ DOMAIN [e EXCEPT ![n] = x] = DOMAIN e
    BY <1>1 DEF ExecutionStatuses
<1>4. executions' \in [Configurations -> Seq(ExecutionStatuses)]
    BY <1>2, <1>3 DEF Types
<1>5. \A k \in DOMAIN e : executions'[s][k] = IF k = n THEN x ELSE e[k]
    BY <1>1, <1>2
<1>6. DOMAIN executions'[s] = DOMAIN e BY <1>2, <1>3
<1>7. Running(s)' = Running(s) \ {n}
    BY <1>1, <1>5, <1>6 DEF Running
<1>8. Successes(s)' = IF x = "succeeded" THEN Successes(s) \cup {n} ELSE Successes(s)
    BY <1>1, <1>5, <1>6 DEF Successes
<1> QED BY <1>2, <1>4, <1>7, <1>8

(* A request that ends its execution is the only one that works on its set.   *)
LEMMA EndsWork ==
    ASSUME IInv, NEW r \in Requests, Works(request[r]), NEW x \in {"succeeded", "failed"},
           NEW s, s = request[r].set, NEW n, n = request[r].execution,
           executions' = [executions EXCEPT ![s][n] = x], End(r)
    PROVE  /\ s \in Configurations /\ n \in Running(s)
           /\ executions' \in [Configurations -> Seq(ExecutionStatuses)]
           /\ request' \in [Requests -> RequestType]
           /\ Working'
           /\ \A q \in Requests : request'[q].pc = "invalidate" => request[q].pc = "invalidate" /\ request'[q] = request[q]
<1>1. s \in Configurations /\ n \in Running(s)
    BY DEF IInv, Working, Works, Aims, Holds, Running
<1>2. PICK w \in RequestType : request' = [request EXCEPT ![r] = w] /\ w.pc = "done"
    BY Going DEF End, Goto, Steps, IInv
<1>3. /\ request' \in [Requests -> RequestType]
      /\ request'[r] = w
      /\ \A q \in Requests : q # r => request'[q] = request[q]
    BY <1>2, Moved DEF IInv
<1>4. /\ executions' \in [Configurations -> Seq(ExecutionStatuses)]
      /\ \A t \in Configurations : t # s => executions'[t] = executions[t]
    BY <1>1, Ended DEF IInv
<1>5. ~Works(w) /\ ~Aims(w) BY <1>2 DEF Works, Aims
<1>6. ASSUME NEW q \in Requests, Works(request'[q])
      PROVE  request'[q] = request[q] /\ request[q].set \in Configurations /\ request[q].set # s
    BY <1>3, <1>5, <1>6 DEF IInv, Working, Works, Aims
<1>7. \A q \in Requests : Works(request'[q]) => Holds(request'[q], executions')
    BY <1>4, <1>6 DEF IInv, Working, Holds
<1>8. \A q \in Requests : Aims(request'[q]) => request'[q].set \in Configurations
    BY <1>3, <1>5 DEF IInv, Working
<1>9. \A p, q \in Requests : Works(request'[p]) /\ Works(request'[q]) /\ request'[p].set = request'[q].set => p = q
    BY <1>6 DEF IInv, Working
<1>10. Working' BY <1>7, <1>8, <1>9 DEF Working
<1>11. w.pc # "invalidate" BY <1>2
<1> QED BY <1>1, <1>3, <1>4, <1>10, <1>11

-----------------------------------------------------------------------------
LEMMA BeginStep ==
    ASSUME IInv, NEW r \in Requests, BeginChunkingExecution(r)
    PROVE  IInv'
<1>1. PICK s, e : s = request[r].set /\ e = executions[s] OBVIOUS
<1>2. s \in Configurations /\ e \in Seq(ExecutionStatuses) /\ request[r] \in RequestType
    BY <1>1 DEF IInv, Working, Types, Aims, BeginChunkingExecution, At
<1> DEFINE w == [request[r] EXCEPT !.pc = "generate", !.copy = "chunking", !.execution = Len(e) + 1]
<1>3. w \in RequestType /\ w.pc = "generate" /\ w.set = s /\ w.execution = Len(e) + 1
    <2>1. Len(e) + 1 \in Nat BY <1>2
    <2>2. "generate" \in Steps /\ "chunking" \in ChunkSetStatuses BY DEF Steps, ChunkSetStatuses
    <2> QED BY <1>1, <1>2, <2>1, <2>2 DEF RequestType
<1>4. /\ Running(s) = {}
      /\ executions' = [executions EXCEPT ![s] = Append(e, "running")]
      /\ status' \in {status, [status EXCEPT ![s] = "chunking"]}
      /\ chunks' = chunks
      /\ request' = [request EXCEPT ![r] = w]
    BY <1>1 DEF BeginChunkingExecution, SetOf, IInv, Types
<1> HIDE DEF w
<1>5. /\ request' \in [Requests -> RequestType]
      /\ request'[r] = w
      /\ \A q \in Requests : q # r => request'[q] = request[q]
    BY <1>3, <1>4, Moved DEF IInv
<1>6. /\ Append(e, "running") \in Seq(ExecutionStatuses)
      /\ DOMAIN Append(e, "running") = 1..(Len(e) + 1)
      /\ Append(e, "running")[Len(e) + 1] = "running"
      /\ DOMAIN e = 1..Len(e) /\ Len(e) \in Nat
      /\ \A k \in 1..Len(e) : Append(e, "running")[k] = e[k]
    BY <1>2 DEF ExecutionStatuses
<1>7. /\ executions' \in [Configurations -> Seq(ExecutionStatuses)]
      /\ executions'[s] = Append(e, "running")
      /\ \A t \in Configurations : t # s => executions'[t] = executions[t]
    BY <1>2, <1>4, <1>6 DEF IInv, Types
<1>8. Types'
    BY <1>2, <1>4, <1>5, <1>7 DEF IInv, Types, ChunkSetStatuses
<1>9. ASSUME NEW q \in Requests, q # r, Works(request'[q])
      PROVE  /\ request'[q] = request[q] /\ request[q].set \in Configurations /\ request[q].set # s
             /\ Holds(request'[q], executions')
    <2>1. request'[q] = request[q] /\ Works(request[q]) BY <1>5, <1>9
    <2>2. request[q].set \in Configurations /\ Holds(request[q], executions)
        BY <2>1 DEF IInv, Working, Works, Aims
    <2>3. request[q].set # s BY <1>4, <2>2 DEF Holds, Running
    <2> QED BY <1>7, <2>1, <2>2, <2>3 DEF Holds
<1>10. Holds(w, executions')
    BY <1>3, <1>6, <1>7 DEF Holds
<1>11. \A q \in Requests : Works(request'[q]) => Holds(request'[q], executions')
    BY <1>5, <1>9, <1>10
<1>12. Working'
    <2>1. \A q \in Requests : Aims(request'[q]) => request'[q].set \in Configurations
        BY <1>2, <1>3, <1>5 DEF IInv, Working
    <2>2. \A p, q \in Requests : Works(request'[p]) /\ Works(request'[q]) /\ request'[p].set = request'[q].set => p = q
        BY <1>3, <1>5, <1>9 DEF IInv, Working
    <2> QED BY <2>1, <2>2, <1>11 DEF Working
<1>13. \A t \in Configurations : Successes(t)' = Successes(t)
    <2> SUFFICES ASSUME NEW t \in Configurations PROVE Successes(t)' = Successes(t)
        OBVIOUS
    <2>1. CASE t = s BY <2>1, <1>1, <1>6, <1>7 DEF Successes
    <2>2. CASE t # s BY <2>2, <1>7 DEF Successes
    <2> QED BY <2>1, <2>2
<1>14. WrittenOnce'
    BY <1>4, <1>13 DEF IInv, WrittenOnce
<1>15. \A t \in Configurations : status'[t] \in {status[t], "chunking"}
    BY <1>4 DEF IInv, Types
<1>16. Shown'
    BY <1>3, <1>4, <1>5, <1>15 DEF IInv, Shown
<1> QED BY <1>8, <1>12, <1>14, <1>16 DEF IInv

LEMMA PersistStep ==
    ASSUME IInv, NEW r \in Requests, PersistChunkSet(r)
    PROVE  IInv'
<1>1. PICK s, n : s = request[r].set /\ n = request[r].execution OBVIOUS
<1>2. Works(request[r]) BY DEF PersistChunkSet, At, Works
<1>3. executions' = [executions EXCEPT ![s][n] = "succeeded"] /\ End(r)
    BY <1>1 DEF PersistChunkSet, CompleteChunkingExecution, SetOf
<1>4. /\ s \in Configurations /\ n \in Running(s)
      /\ executions' \in [Configurations -> Seq(ExecutionStatuses)]
      /\ request' \in [Requests -> RequestType]
      /\ Working'
      /\ \A q \in Requests : request'[q].pc = "invalidate" => request[q].pc = "invalidate" /\ request'[q] = request[q]
    BY <1>1, <1>2, <1>3, EndsWork
<1>5. chunks' = chunks \cup {s} /\ status' = [status EXCEPT ![s] = "succeeded"] /\ s \notin chunks
    BY <1>1 DEF PersistChunkSet, CompleteChunkingExecution, SetOf
<1>6. Types' BY <1>4, <1>5 DEF IInv, Types, ChunkSetStatuses
<1>7. Successes(s)' = Successes(s) \cup {n} /\ \A t \in Configurations : t # s => executions'[t] = executions[t]
    BY <1>3, <1>4, Ended DEF IInv
<1>8. Successes(s)' = {n}
    BY <1>4, <1>5, <1>7 DEF IInv, WrittenOnce
<1>9. WrittenOnce'
    <2> SUFFICES ASSUME NEW t \in Configurations
                 PROVE  /\ t \notin chunks' => Successes(t)' = {}
                        /\ t \in chunks' => \E k : Successes(t)' = {k}
        BY DEF WrittenOnce
    <2>1. CASE t = s
        <3>1. Successes(t)' = {n} BY <2>1, <1>8 DEF Successes
        <3> QED BY <2>1, <3>1, <1>5
    <2>2. CASE t # s BY <2>2, <1>5, <1>7 DEF IInv, WrittenOnce, Successes
    <2> QED BY <2>1, <2>2
<1>10. \A t \in Configurations : status'[t] \in {"succeeded", "invalidated"} => t \in chunks'
    BY <1>4, <1>5 DEF IInv, Types, Shown
<1>11. Shown' BY <1>4, <1>5, <1>10 DEF IInv, Shown
<1> QED BY <1>4, <1>6, <1>9, <1>11 DEF IInv

LEMMA FailStep ==
    ASSUME IInv, NEW r \in Requests, FailChunkingExecution(r)
    PROVE  IInv'
<1>1. PICK s, n : s = request[r].set /\ n = request[r].execution OBVIOUS
<1>2. Works(request[r]) /\ End(r) BY DEF FailChunkingExecution, At, Works
<1>3. CASE status[s] = "succeeded"
    <2>1. PICK w \in RequestType : request' = [request EXCEPT ![r] = w] /\ w.pc = "done"
        BY <1>2, Going DEF End, Goto, Steps, IInv
    <2>2. ~Works(w) /\ ~Aims(w) /\ w.pc # "invalidate" BY <2>1 DEF Works, Aims
    <2>3. UNCHANGED <<status, chunks, executions>>
        BY <1>1, <1>3 DEF FailChunkingExecution, SetOf
    <2> QED BY <2>1, <2>2, <2>3, OnlyMoves
<1>4. CASE status[s] # "succeeded"
    <2>1. /\ executions' = [executions EXCEPT ![s][n] = "failed"]
          /\ status' = [status EXCEPT ![s] = "failed"]
          /\ chunks' = chunks
        BY <1>1, <1>4 DEF FailChunkingExecution, SetOf
    <2>2. /\ s \in Configurations /\ n \in Running(s)
          /\ executions' \in [Configurations -> Seq(ExecutionStatuses)]
          /\ request' \in [Requests -> RequestType]
          /\ Working'
          /\ \A q \in Requests : request'[q].pc = "invalidate" => request[q].pc = "invalidate" /\ request'[q] = request[q]
        BY <1>1, <1>2, <2>1, EndsWork
    <2>3. Types' BY <2>1, <2>2 DEF IInv, Types, ChunkSetStatuses
    <2>4. /\ Successes(s)' = Successes(s)
          /\ \A t \in Configurations : t # s => executions'[t] = executions[t]
        BY <2>1, <2>2, Ended DEF IInv
    <2>5. ASSUME NEW t \in Configurations PROVE Successes(t)' = Successes(t)
        <3>1. CASE t = s BY <3>1, <2>4 DEF Successes
        <3>2. CASE t # s BY <3>2, <2>4 DEF Successes
        <3> QED BY <3>1, <3>2
    <2>6. WrittenOnce' BY <2>1, <2>5 DEF IInv, WrittenOnce
    <2>7. \A t \in Configurations : status'[t] \in {"succeeded", "invalidated"} => t \in chunks
        BY <2>1 DEF IInv, Types, Shown
    <2>8. Shown' BY <2>1, <2>2, <2>7 DEF IInv, Shown
    <2> QED BY <2>2, <2>3, <2>6, <2>8 DEF IInv
<1> QED BY <1>3, <1>4

-----------------------------------------------------------------------------
LEMMA IdleType == Idle \in RequestType
BY DEF Idle, RequestType, ChunkSetStatuses, Steps

LEMMA CreateStep ==
    ASSUME IInv, NEW r \in Requests, CreateOrGetChunkSet(r)
    PROVE  IInv'
<1>1. PICK s, x : s = request[r].set /\ x = status'[s] OBVIOUS
<1>2. s \in Configurations /\ request[r] \in RequestType
    BY <1>1 DEF IInv, Working, Types, Aims, CreateOrGetChunkSet, At
<1>3. PICK next \in {"done", "begin"} : request' = [request EXCEPT ![r].copy = x, ![r].pc = next]
    BY <1>1 DEF CreateOrGetChunkSet, SetOf
<1>4. /\ status' = IF status[s] = "absent" THEN [status EXCEPT ![s] = "pending"] ELSE status
      /\ UNCHANGED <<chunks, executions>>
    BY <1>1 DEF CreateOrGetChunkSet, SetOf
<1>5. x \in ChunkSetStatuses \cup {"absent"}
    BY <1>1, <1>2, <1>4 DEF IInv, Types, ChunkSetStatuses
<1> DEFINE w == [request[r] EXCEPT !.copy = x, !.pc = next]
<1>6. w \in RequestType /\ w.set = s /\ w.pc = next
    BY <1>1, <1>2, <1>3, <1>5 DEF RequestType, Steps
<1>7. request' = [request EXCEPT ![r] = w]
    BY <1>3 DEF IInv, Types
<1> HIDE DEF w
<1>8. ~Works(w) /\ w.pc # "invalidate" BY <1>3, <1>6 DEF Works
<1>9. CASE status[s] = "absent"
    <2>1. status' = [status EXCEPT ![s] = "pending"] BY <1>4, <1>9
    <2>2. "pending" \in ChunkSetStatuses BY DEF ChunkSetStatuses
    <2> QED BY <1>2, <1>4, <1>6, <1>7, <1>8, <2>1, <2>2, OnlyShows
<1>10. CASE status[s] # "absent"
    <2>1. UNCHANGED <<status, chunks, executions>> BY <1>4, <1>10
    <2> QED BY <1>2, <1>6, <1>7, <1>8, <2>1, OnlyMoves
<1> QED BY <1>9, <1>10

LEMMA InvalidateStep ==
    ASSUME IInv, NEW r \in Requests, InvalidateChunkSet(r)
    PROVE  IInv'
<1>1. PICK s : s = request[r].set OBVIOUS
<1>2. s \in Configurations /\ s \in chunks
    BY <1>1 DEF IInv, Working, Shown, Aims, InvalidateChunkSet, At
<1>3. PICK w \in RequestType : request' = [request EXCEPT ![r] = w] /\ w.pc = "done"
    BY Going DEF End, Goto, Steps, IInv, InvalidateChunkSet
<1>4. ~Works(w) /\ ~Aims(w) /\ w.pc # "invalidate" /\ "invalidated" \in ChunkSetStatuses
    BY <1>3 DEF Works, Aims, ChunkSetStatuses
<1>5. status' = [status EXCEPT ![s] = "invalidated"] /\ UNCHANGED <<chunks, executions>>
    BY <1>1 DEF InvalidateChunkSet, SetOf
<1> QED BY <1>2, <1>3, <1>4, <1>5, OnlyShows

(* A request is admitted: it names its chunk set and has not looked at it, or *)
(* has seen that it is successful.                                            *)
LEMMA AdmitStep ==
    ASSUME IInv, NEW r \in Requests, NEW s \in Configurations,
           ValidateParseResult(r, s) \/ LoadSuccessful(r, s)
    PROVE  IInv'
<1>1. CASE ValidateParseResult(r, s)
    <2> DEFINE w == [Idle EXCEPT !.pc = "open", !.set = s]
    <2>1. w \in RequestType /\ w.pc = "open" /\ w.set = s
        BY IdleType DEF RequestType, Steps
    <2>2. request' = [request EXCEPT ![r] = w] /\ UNCHANGED <<status, chunks, executions>>
        BY <1>1 DEF ValidateParseResult
    <2> HIDE DEF w
    <2>3. ~Works(w) /\ w.pc # "invalidate" BY <2>1 DEF Works
    <2> QED BY <2>1, <2>2, <2>3, OnlyMoves
<1>2. CASE LoadSuccessful(r, s)
    <2> DEFINE w == [Idle EXCEPT !.pc = "invalidate", !.set = s, !.copy = "succeeded"]
    <2>1. w \in RequestType /\ w.pc = "invalidate" /\ w.set = s
        BY IdleType DEF RequestType, ChunkSetStatuses, Steps
    <2>2. request' = [request EXCEPT ![r] = w] /\ UNCHANGED <<status, chunks, executions>>
        BY <1>2 DEF LoadSuccessful
    <2> HIDE DEF w
    <2>3. ~Works(w) BY <2>1 DEF Works
    <2>4. s \in chunks BY <1>2 DEF LoadSuccessful, IInv, Shown
    <2> QED BY <2>1, <2>2, <2>3, <2>4, OnlyMoves
<1> QED BY <1>1, <1>2

(* The steps of a request that write nothing but what it does next.           *)
LEMMA MoveStep ==
    ASSUME IInv, NEW r \in Requests,
           BeginRefused(r) \/ GenerateChunkCandidates(r) \/ FailToPersist(r) \/ Crash(r)
    PROVE  IInv'
<1>1. UNCHANGED <<status, chunks, executions>>
    BY DEF BeginRefused, GenerateChunkCandidates, FailToPersist, Crash
<1>2. PICK next \in {"done", "persist", "failing", "crashed"} :
        /\ request' = [request EXCEPT ![r].pc = next]
        /\ next \in {"persist", "failing"} => Works(request[r])
    BY DEF BeginRefused, GenerateChunkCandidates, FailToPersist, Crash, End, Goto, At, Works
<1>3. next \in Steps BY <1>2 DEF Steps
<1> DEFINE w == [request[r] EXCEPT !.pc = next]
<1>4. /\ w \in RequestType /\ w.pc = next
      /\ w.set = request[r].set /\ w.execution = request[r].execution
    BY <1>3 DEF IInv, Types, RequestType
<1>5. request' = [request EXCEPT ![r] = w] BY <1>2
<1> HIDE DEF w
<1>6. (Works(w) => Works(request[r])) /\ w.pc # "invalidate" BY <1>2, <1>4 DEF Works
<1>7. Aims(w) => w.set \in Configurations
    BY <1>2, <1>4 DEF IInv, Working, Works, Aims
<1> QED BY <1>1, <1>4, <1>5, <1>6, <1>7, OnlyMoves

LEMMA Untouched ==
    ASSUME IInv, UNCHANGED <<status, chunks, executions, request>>
    PROVE  IInv'
BY DEF IInv, Types, Working, WrittenOnce, Shown, Holds, Successes

LEMMA InitHolds == Init => IInv
<1> SUFFICES ASSUME Init PROVE IInv
    OBVIOUS
<1>1. << >> \in Seq(ExecutionStatuses) OBVIOUS
<1>2. Types BY <1>1, IdleType DEF Init, Types
<1>3. \A r \in Requests : request[r].pc = "idle" BY DEF Init, Idle
<1>4. Working BY <1>3 DEF Working, Aims, Works
<1>5. WrittenOnce BY DEF Init, WrittenOnce, Successes
<1>6. Shown BY <1>3 DEF Init, Shown
<1> QED BY <1>2, <1>4, <1>5, <1>6 DEF IInv

LEMMA StepHolds == IInv /\ [Next]_vars => IInv'
<1> SUFFICES ASSUME IInv, [Next]_vars PROVE IInv'
    OBVIOUS
<1>1. CASE InvalidateParseResult BY <1>1, Untouched DEF InvalidateParseResult
<1>2. ASSUME NEW r \in Requests, NEW s \in Configurations, ValidateParseResult(r, s) \/ LoadSuccessful(r, s)
      PROVE  IInv'
    BY <1>2, AdmitStep
<1>3. ASSUME NEW r \in Requests,
             BeginRefused(r) \/ GenerateChunkCandidates(r) \/ FailToPersist(r) \/ Crash(r)
      PROVE  IInv'
    BY <1>3, MoveStep
<1>4. ASSUME NEW r \in Requests, CreateOrGetChunkSet(r) PROVE IInv'
    BY <1>4, CreateStep
<1>5. ASSUME NEW r \in Requests, BeginChunkingExecution(r) PROVE IInv'
    BY <1>5, BeginStep
<1>6. ASSUME NEW r \in Requests, PersistChunkSet(r) PROVE IInv'
    BY <1>6, PersistStep
<1>7. ASSUME NEW r \in Requests, FailChunkingExecution(r) PROVE IInv'
    BY <1>7, FailStep
<1>8. ASSUME NEW r \in Requests, InvalidateChunkSet(r) PROVE IInv'
    BY <1>8, InvalidateStep
<1>9. CASE UNCHANGED vars BY <1>9, Untouched DEF vars
<1> QED BY <1>1, <1>2, <1>3, <1>4, <1>5, <1>6, <1>7, <1>8, <1>9 DEF Next

-----------------------------------------------------------------------------
(* Chunks are written by exactly one execution, however many requests for one *)
(* chunk set overlap, die or are made again: what persist_chunk_set's look at *)
(* existing chunks, begin_chunking_execution's at running executions and the  *)
(* handler's rollback come to together.                                       *)
THEOREM ChunksAreWrittenOnce == Spec => []ChunksHaveOneExecution
<1>1. IInv => ChunksHaveOneExecution
    <2> SUFFICES ASSUME IInv, NEW s \in Configurations
                 PROVE  /\ Cardinality(Successes(s)) = (IF s \in chunks THEN 1 ELSE 0)
                        /\ status[s] \in {"succeeded", "invalidated"} => s \in chunks
        BY DEF ChunksHaveOneExecution
    <2>1. CASE s \in chunks
        <3>1. PICK n : Successes(s) = {n} BY <2>1 DEF IInv, WrittenOnce
        <3> QED BY <2>1, <3>1, FS_Singleton DEF IInv, Shown
    <2>2. CASE s \notin chunks
        <3>1. Successes(s) = {} BY <2>2 DEF IInv, WrittenOnce
        <3> QED BY <2>2, <3>1, FS_EmptySet DEF IInv, Shown
    <2> QED BY <2>1, <2>2
<1> QED BY InitHolds, StepHolds, <1>1, PTL DEF Spec

(* The chunk pipeline keeps the promise both pipelines make of executions:    *)
(* each of its steps begins an execution where none runs, ends a running one, *)
(* or leaves the log alone.                                                   *)
THEOREM ChunkingImplementsTheLog == Spec => ImplementsExecutionLog
<1>1. Init => Log!Init BY DEF Init, Log!Init
<1>2. IInv /\ [Next]_vars => [Log!Next]_executions
    <2> SUFFICES ASSUME IInv, [Next]_vars, executions' # executions
                 PROVE  Log!Next
        OBVIOUS
    <2>1. PICK r \in Requests : BeginChunkingExecution(r) \/ PersistChunkSet(r) \/ FailChunkingExecution(r)
        BY DEF Next, vars, InvalidateParseResult, ValidateParseResult, LoadSuccessful, CreateOrGetChunkSet,
               BeginRefused, GenerateChunkCandidates, FailToPersist, InvalidateChunkSet, Crash
    <2>2. PICK s, n : s = request[r].set /\ n = request[r].execution OBVIOUS
    <2>3. CASE BeginChunkingExecution(r)
        <3>1. s \in Configurations
            BY <2>2, <2>3 DEF IInv, Working, Aims, BeginChunkingExecution, At
        <3>2. Log!Begin(s)
            BY <2>2, <2>3 DEF BeginChunkingExecution, SetOf, Log!Begin, Log!Running, Running
        <3> QED BY <3>1, <3>2 DEF Log!Next
    <2>4. CASE PersistChunkSet(r) \/ FailChunkingExecution(r)
        <3>1. Works(request[r]) BY <2>4 DEF PersistChunkSet, FailChunkingExecution, At, Works
        <3>2. s \in Configurations /\ n \in Log!Running(s)
            BY <2>2, <3>1 DEF IInv, Working, Works, Aims, Holds, Log!Running
        <3>3. \E x \in {"succeeded", "failed"} : executions' = [executions EXCEPT ![s][n] = x]
            BY <2>2, <2>4 DEF PersistChunkSet, CompleteChunkingExecution, FailChunkingExecution, SetOf
        <3> QED BY <3>2, <3>3 DEF Log!Finish, Log!Next
    <2> QED BY <2>1, <2>3, <2>4
<1> QED BY InitHolds, StepHolds, <1>1, <1>2, PTL DEF Spec, ImplementsExecutionLog, Log!Spec

-----------------------------------------------------------------------------
(* Executions and statuses.  Nobody begins while an execution runs, so the    *)
(* running one is the last; and a copy that a request decides on is stale in  *)
(* one direction only: what has been begun once is never pending again.       *)
Begun(x) == x \notin {"absent", "pending"}
AtWork(q) == Works(q) \/ q.pc = "crashed"
Owner(q, s, n) == q.set = s /\ q.execution = n /\ (AtWork(q) \/ s \in chunks)

Accounted ==
    /\ parsed \in {"succeeded", "invalidated"}
    /\ \A r \in Requests : request[r].pc = "idle" => request[r].execution = 0
    /\ \A r \in Requests : At(r, "begin") /\ Begun(request[r].copy) => Begun(status[request[r].set])
    /\ \A s \in Configurations : \A n \in Running(s) : \E r \in Requests : Owner(request[r], s, n)
    /\ \A s \in Configurations : Running(s) \subseteq {Len(executions[s])}
    /\ \A s \in Configurations :
         /\ ~Begun(status[s]) => executions[s] = << >>
         /\ status[s] = "chunking" => Running(s) # {}
         /\ status[s] = "failed" =>
              Len(executions[s]) # 0 /\ executions[s][Len(executions[s])] # "succeeded"

LEMMA AccountsKept ==
    ASSUME IInv, Accounted, NEW r \in Requests, NEW w \in RequestType, request' = [request EXCEPT ![r] = w],
           parsed' = parsed, chunks \subseteq chunks',
           w.pc # "idle",
           w.pc = "begin" /\ Begun(w.copy) => Begun(status'[w.set]),
           \A s \in Configurations : Begun(status[s]) => Begun(status'[s]),
           \A s \in Configurations : \A n \in Running(s)' :
               \/ Owner(w, s, n)'
               \/ n \in Running(s) /\ (Owner(request[r], s, n) => Owner(w, s, n)'),
           \A s \in Configurations : Running(s)' \subseteq {Len(executions'[s])},
           \A s \in Configurations :
             /\ ~Begun(status'[s]) => executions'[s] = << >>
             /\ status'[s] = "chunking" => Running(s)' # {}
             /\ status'[s] = "failed" =>
                  Len(executions'[s]) # 0 /\ executions'[s][Len(executions'[s])] # "succeeded"
    PROVE  Accounted'
<1>1. /\ request' \in [Requests -> RequestType]
      /\ request'[r] = w
      /\ \A q \in Requests : q # r => request'[q] = request[q]
  BY Moved DEF IInv
<1>2. \A q \in Requests : request'[q].pc = "idle" => request'[q].execution = 0
  BY <1>1 DEF Accounted
<1>3. ASSUME NEW q \in Requests, request'[q].pc = "begin", Begun(request'[q].copy)
      PROVE  Begun(status'[request'[q].set])
  <2>1. CASE q = r BY <1>1, <1>3, <2>1
  <2>2. CASE q # r
    <3>1. request'[q] = request[q] /\ Begun(status[request[q].set])
      BY <1>1, <1>3, <2>2 DEF Accounted, At
    <3>2. request[q].set \in Configurations
      BY <1>3, <3>1 DEF IInv, Working, Aims
    <3> QED BY <3>1, <3>2
  <2> QED BY <2>1, <2>2
<1>4. ASSUME NEW s \in Configurations, NEW n \in Running(s)'
      PROVE  \E q \in Requests : Owner(request[q], s, n)'
  <2>1. CASE Owner(w, s, n)'
    BY <1>1, <2>1 DEF Owner
  <2>2. CASE n \in Running(s) /\ (Owner(request[r], s, n) => Owner(w, s, n)')
    <3>1. PICK q \in Requests : Owner(request[q], s, n)
      BY <2>2 DEF Accounted
    <3>2. CASE q = r BY <1>1, <2>2, <3>1, <3>2 DEF Owner
    <3>3. CASE q # r BY <1>1, <3>1, <3>3 DEF Owner
    <3> QED BY <3>2, <3>3
  <2> QED BY <2>1, <2>2
<1>5. parsed' \in {"succeeded", "invalidated"}
  BY DEF Accounted
<1> QED BY <1>2, <1>3, <1>4, <1>5 DEF Accounted, At

(* A request goes on without touching the executions.                         *)
LEMMA AccountsUntouched ==
    ASSUME IInv, Accounted, NEW r \in Requests, NEW w \in RequestType, request' = [request EXCEPT ![r] = w],
           UNCHANGED <<parsed, chunks, executions>>,
           w.pc # "idle",
           w.pc = "begin" /\ Begun(w.copy) => Begun(status'[w.set]),
           request[r].pc = "idle" \/ (w.set = request[r].set /\ w.execution = request[r].execution),
           AtWork(request[r]) => AtWork(w) \/ request[r].set \in chunks,
           \A s \in Configurations : status'[s] = status[s] \/ status'[s] \in {"invalidated", "pending"},
           \A s \in Configurations : status'[s] = "pending" => ~Begun(status[s])
    PROVE  Accounted'
<1>1. \A s \in Configurations : Running(s)' = Running(s)
  BY DEF Running
<1>2. ASSUME NEW s \in Configurations, NEW n \in Running(s), Owner(request[r], s, n)
      PROVE  Owner(w, s, n)'
  <2>1. request[r].pc # "idle"
    <3>1. n # 0 BY DEF Running, IInv, Types
    <3> QED BY <1>2, <3>1 DEF Accounted, Owner
  <2> QED BY <1>2, <2>1 DEF Owner, AtWork, Works
<1>3. \A s \in Configurations : Begun(status[s]) => Begun(status'[s])
  BY DEF Begun
<1>4. \A s \in Configurations : Running(s)' \subseteq {Len(executions'[s])}
  BY <1>1 DEF Accounted
<1>5. \A s \in Configurations :
         /\ ~Begun(status'[s]) => executions'[s] = << >>
         /\ status'[s] = "chunking" => Running(s)' # {}
         /\ status'[s] = "failed" =>
              Len(executions'[s]) # 0 /\ executions'[s][Len(executions'[s])] # "succeeded"
  BY <1>1 DEF Accounted, Begun
<1> QED BY <1>1, <1>2, <1>3, <1>4, <1>5, AccountsKept

-----------------------------------------------------------------------------
LEMMA BeginAccounts ==
    ASSUME IInv, Accounted, NEW r \in Requests, BeginChunkingExecution(r)
    PROVE  Accounted'
<1>1. PICK s, e : s = request[r].set /\ e = executions[s] OBVIOUS
<1>2. s \in Configurations /\ e \in Seq(ExecutionStatuses) /\ request[r] \in RequestType
    BY <1>1 DEF IInv, Working, Types, Aims, BeginChunkingExecution, At
<1>3. PICK w \in RequestType : /\ request' = [request EXCEPT ![r] = w] /\ w.pc = "generate"
                               /\ w.set = s /\ w.execution = Len(e) + 1
    <2> DEFINE v == [request[r] EXCEPT !.pc = "generate", !.copy = "chunking", !.execution = Len(e) + 1]
    <2>1. Len(e) + 1 \in Nat BY <1>2
    <2>2. "generate" \in Steps /\ "chunking" \in ChunkSetStatuses BY DEF Steps, ChunkSetStatuses
    <2>3. v \in RequestType /\ v.pc = "generate" /\ v.set = s /\ v.execution = Len(e) + 1
        BY <1>1, <1>2, <2>1, <2>2 DEF RequestType
    <2>4. request' = [request EXCEPT ![r] = v]
        BY <1>1 DEF BeginChunkingExecution, SetOf, IInv, Types
    <2> QED BY <2>3, <2>4
<1>4. /\ Running(s) = {}
      /\ executions' = [executions EXCEPT ![s] = Append(e, "running")]
      /\ status' = IF request[r].copy = "chunking" THEN status ELSE [status EXCEPT ![s] = "chunking"]
      /\ chunks' = chunks /\ parsed' = parsed
    BY <1>1 DEF BeginChunkingExecution, SetOf
<1>5. /\ DOMAIN Append(e, "running") = 1..(Len(e) + 1) /\ Len(Append(e, "running")) = Len(e) + 1
      /\ Append(e, "running")[Len(e) + 1] = "running"
      /\ DOMAIN e = 1..Len(e) /\ Len(e) \in Nat
      /\ \A k \in 1..Len(e) : Append(e, "running")[k] = e[k]
    BY <1>2 DEF ExecutionStatuses
<1>6. /\ executions'[s] = Append(e, "running")
      /\ \A t \in Configurations : t # s => executions'[t] = executions[t]
    BY <1>2, <1>4, <1>5 DEF IInv, Types
<1>7. Running(s)' = {Len(e) + 1}
    BY <1>1, <1>4, <1>5, <1>6 DEF Running
<1>8. \A t \in Configurations : t # s => Running(t)' = Running(t)
    BY <1>6 DEF Running
<1>9. Begun(status'[s])
    BY <1>1, <1>2, <1>4 DEF Accounted, Begun, BeginChunkingExecution, At, IInv, Types
<1>10. \A t \in Configurations : t # s => status'[t] = status[t]
    BY <1>4 DEF IInv, Types
<1>11. Owner(w, s, Len(e) + 1)'
    BY <1>3 DEF Owner, AtWork, Works
<1>12. \A t \in Configurations : Begun(status[t]) => Begun(status'[t])
    BY <1>9, <1>10
<1>13. \A t \in Configurations : \A n \in Running(t)' :
          \/ Owner(w, t, n)'
          \/ n \in Running(t) /\ (Owner(request[r], t, n) => Owner(w, t, n)')
    BY <1>1, <1>7, <1>8, <1>11 DEF Owner
<1>14. \A t \in Configurations : Running(t)' \subseteq {Len(executions'[t])}
    BY <1>5, <1>6, <1>7, <1>8 DEF Accounted
<1>15. ASSUME NEW t \in Configurations
       PROVE  /\ ~Begun(status'[t]) => executions'[t] = << >>
              /\ status'[t] = "chunking" => Running(t)' # {}
              /\ status'[t] = "failed" =>
                   Len(executions'[t]) # 0 /\ executions'[t][Len(executions'[t])] # "succeeded"
    <2>1. CASE t = s
        <3>1. Len(executions'[s]) = Len(e) + 1 /\ executions'[s][Len(executions'[s])] = "running"
            BY <1>5, <1>6
        <3>2. Len(executions'[s]) # 0 BY <1>5, <3>1
        <3> QED BY <1>7, <1>9, <2>1, <3>1, <3>2
    <2>2. CASE t # s
        BY <1>6, <1>8, <1>10, <2>2 DEF Accounted
    <2> QED BY <2>1, <2>2
<1> QED BY <1>3, <1>4, <1>12, <1>13, <1>14, <1>15, AccountsKept

(* An execution ends, and with it the status it leaves.                       *)
LEMMA EndAccounts ==
    ASSUME IInv, Accounted, NEW r \in Requests, Works(request[r]), NEW x \in {"succeeded", "failed"},
           executions' = [executions EXCEPT ![request[r].set][request[r].execution] = x],
           status' = [status EXCEPT ![request[r].set] = x],
           parsed' = parsed, chunks \subseteq chunks', End(r)
    PROVE  Accounted'
<1>1. PICK s, n : s = request[r].set /\ n = request[r].execution OBVIOUS
<1>2. s \in Configurations /\ n \in Running(s)
    BY <1>1 DEF IInv, Working, Works, Aims, Holds, Running
<1>3. PICK w \in RequestType : request' = [request EXCEPT ![r] = w] /\ w.pc = "done"
    BY Going DEF End, Goto, Steps, IInv
<1>4. /\ \A t \in Configurations : t # s => executions'[t] = executions[t]
      /\ Running(s)' = Running(s) \ {n}
    BY <1>1, <1>2, Ended DEF IInv
<1>5. \A t \in Configurations : t # s => Running(t)' = Running(t)
    BY <1>4 DEF Running
<1>6. Running(s) = {n} /\ n = Len(executions[s])
    BY <1>2 DEF Accounted
<1>7. Running(s)' = {}
    BY <1>4, <1>6
<1>8. executions[s] \in Seq(ExecutionStatuses) /\ n \in 1..Len(executions[s])
    BY <1>2, <1>6 DEF IInv, Types, Running
<1>9. executions'[s] = [executions[s] EXCEPT ![n] = x]
    BY <1>1, <1>2 DEF IInv, Types
<1>10. Len(executions'[s]) = Len(executions[s]) /\ executions'[s][n] = x
    BY <1>8, <1>9
<1>11. status'[s] = x /\ \A t \in Configurations : t # s => status'[t] = status[t]
    BY <1>1, <1>2 DEF IInv, Types
<1>12. \A t \in Configurations : Begun(status[t]) => Begun(status'[t])
    BY <1>11 DEF Begun
<1>13. ASSUME NEW t \in Configurations, NEW k \in Running(t)'
       PROVE  k \in Running(t) /\ ~Owner(request[r], t, k)
    BY <1>1, <1>5, <1>7, <1>13 DEF Owner
<1>14. \A t \in Configurations : Running(t)' \subseteq {Len(executions'[t])}
    BY <1>4, <1>5, <1>7 DEF Accounted
<1>15. ASSUME NEW t \in Configurations
       PROVE  /\ ~Begun(status'[t]) => executions'[t] = << >>
              /\ status'[t] = "chunking" => Running(t)' # {}
              /\ status'[t] = "failed" =>
                   Len(executions'[t]) # 0 /\ executions'[t][Len(executions'[t])] # "succeeded"
    <2>1. CASE t = s
        BY <1>6, <1>8, <1>10, <1>11, <2>1 DEF Begun
    <2>2. CASE t # s
        BY <1>4, <1>5, <1>11, <2>2 DEF Accounted
    <2> QED BY <2>1, <2>2
<1> QED BY <1>3, <1>12, <1>13, <1>14, <1>15, AccountsKept

LEMMA FailAccounts ==
    ASSUME IInv, Accounted, NEW r \in Requests, FailChunkingExecution(r)
    PROVE  Accounted'
<1>1. Works(request[r]) /\ End(r) /\ parsed' = parsed /\ chunks' = chunks
    BY DEF FailChunkingExecution, At, Works
<1>2. CASE status[request[r].set] = "succeeded"
    <2>1. PICK w \in RequestType : /\ request' = [request EXCEPT ![r] = w] /\ w.pc = "done"
                                   /\ w.set = request[r].set /\ w.execution = request[r].execution
        BY <1>1, Going DEF End, Goto, Steps, IInv
    <2>2. UNCHANGED <<parsed, status, chunks, executions>>
        BY <1>2 DEF FailChunkingExecution, SetOf
    <2>3. request[r].set \in chunks
        BY <1>1, <1>2 DEF IInv, Shown, Working, Works, Aims
    <2>4. \A s \in Configurations : status'[s] = status[s] BY <2>2
    <2>5. \A s \in Configurations : status'[s] = "pending" => ~Begun(status[s]) BY <2>2 DEF Begun
    <2> QED BY <2>1, <2>2, <2>3, <2>4, <2>5, AccountsUntouched
<1>3. CASE status[request[r].set] # "succeeded"
    <2>1. /\ executions' = [executions EXCEPT ![request[r].set][request[r].execution] = "failed"]
          /\ status' = [status EXCEPT ![request[r].set] = "failed"]
        BY <1>3 DEF FailChunkingExecution, SetOf
    <2> QED BY <1>1, <2>1, EndAccounts
<1> QED BY <1>2, <1>3

LEMMA CreateAccounts ==
    ASSUME IInv, Accounted, NEW r \in Requests, CreateOrGetChunkSet(r)
    PROVE  Accounted'
<1>1. PICK s, x : s = request[r].set /\ x = status'[s] OBVIOUS
<1>2. s \in Configurations /\ request[r] \in RequestType /\ request[r].pc = "open"
    BY <1>1 DEF IInv, Working, Types, Aims, CreateOrGetChunkSet, At
<1>3. PICK next \in {"done", "begin"} : request' = [request EXCEPT ![r].copy = x, ![r].pc = next]
    BY <1>1 DEF CreateOrGetChunkSet, SetOf
<1>4. /\ status' = IF status[s] = "absent" THEN [status EXCEPT ![s] = "pending"] ELSE status
      /\ UNCHANGED <<parsed, chunks, executions>>
    BY <1>1 DEF CreateOrGetChunkSet, SetOf
<1>5. x \in ChunkSetStatuses \cup {"absent"}
    BY <1>1, <1>2, <1>4 DEF IInv, Types, ChunkSetStatuses
<1> DEFINE w == [request[r] EXCEPT !.copy = x, !.pc = next]
<1>6. /\ w \in RequestType /\ w.set = s /\ w.pc = next /\ w.copy = x
      /\ w.execution = request[r].execution
    BY <1>1, <1>2, <1>3, <1>5 DEF RequestType, Steps
<1>7. request' = [request EXCEPT ![r] = w]
    BY <1>3 DEF IInv, Types
<1> HIDE DEF w
<1>8. \A t \in Configurations :
        /\ status'[t] = status[t] \/ status'[t] = "pending"
        /\ status'[t] = "pending" => ~Begun(status[t])
    BY <1>4 DEF Begun, IInv, Types
<1>9. ~AtWork(request[r]) /\ w.pc # "idle"
    BY <1>2, <1>3, <1>6 DEF AtWork, Works
<1> QED BY <1>1, <1>4, <1>6, <1>7, <1>8, <1>9, AccountsUntouched

LEMMA InvalidateAccounts ==
    ASSUME IInv, Accounted, NEW r \in Requests, InvalidateChunkSet(r)
    PROVE  Accounted'
<1>1. PICK w \in RequestType : /\ request' = [request EXCEPT ![r] = w] /\ w.pc = "done"
                               /\ w.set = request[r].set /\ w.execution = request[r].execution
    BY Going DEF End, Goto, Steps, IInv, InvalidateChunkSet
<1>2. ~AtWork(request[r])
    BY DEF AtWork, Works, InvalidateChunkSet, At
<1>3. UNCHANGED <<parsed, chunks, executions>>
    BY DEF InvalidateChunkSet
<1>4. \A t \in Configurations : status'[t] = status[t] \/ status'[t] = "invalidated"
    BY DEF InvalidateChunkSet, IInv, Types
<1>5. \A t \in Configurations : status'[t] = "pending" => ~Begun(status[t])
    BY <1>4 DEF Begun
<1> QED BY <1>1, <1>2, <1>3, <1>4, <1>5, AccountsUntouched

LEMMA AdmitAccounts ==
    ASSUME IInv, Accounted, NEW r \in Requests, NEW s \in Configurations,
           ValidateParseResult(r, s) \/ LoadSuccessful(r, s)
    PROVE  Accounted'
<1>1. request[r].pc = "idle" /\ ~AtWork(request[r])
    BY DEF ValidateParseResult, LoadSuccessful, At, AtWork, Works
<1>2. UNCHANGED <<parsed, status, chunks, executions>>
    BY DEF ValidateParseResult, LoadSuccessful
<1>3. PICK w \in RequestType : request' = [request EXCEPT ![r] = w] /\ w.pc \in {"open", "invalidate"}
    <2> DEFINE v == [Idle EXCEPT !.pc = "open", !.set = s]
               x == [Idle EXCEPT !.pc = "invalidate", !.set = s, !.copy = "succeeded"]
    <2>1. v \in RequestType /\ v.pc = "open" /\ x \in RequestType /\ x.pc = "invalidate"
        BY IdleType DEF RequestType, ChunkSetStatuses, Steps
    <2>2. request' = [request EXCEPT ![r] = v] \/ request' = [request EXCEPT ![r] = x]
        BY DEF ValidateParseResult, LoadSuccessful
    <2> QED BY <2>1, <2>2
<1>4. \A t \in Configurations : status'[t] = status[t] /\ (status'[t] = "pending" => ~Begun(status[t]))
    BY <1>2 DEF Begun
<1> QED BY <1>1, <1>2, <1>3, <1>4, AccountsUntouched

LEMMA MoveAccounts ==
    ASSUME IInv, Accounted, NEW r \in Requests,
           BeginRefused(r) \/ GenerateChunkCandidates(r) \/ FailToPersist(r) \/ Crash(r)
    PROVE  Accounted'
<1>1. UNCHANGED <<parsed, status, chunks, executions>>
    BY DEF BeginRefused, GenerateChunkCandidates, FailToPersist, Crash
<1>2. PICK next \in {"done", "persist", "failing", "crashed"} :
        /\ request' = [request EXCEPT ![r].pc = next]
        /\ AtWork(request[r]) => next # "done"
    BY DEF BeginRefused, GenerateChunkCandidates, FailToPersist, Crash, End, Goto, At, Works, AtWork
<1>3. next \in Steps BY <1>2 DEF Steps
<1>4. PICK w \in RequestType : /\ request' = [request EXCEPT ![r] = w] /\ w.pc = next
                               /\ w.set = request[r].set /\ w.execution = request[r].execution
    BY <1>2, <1>3, Going DEF IInv
<1>5. AtWork(request[r]) => AtWork(w)
    BY <1>2, <1>4 DEF AtWork, Works
<1>6. \A t \in Configurations : status'[t] = status[t] /\ (status'[t] = "pending" => ~Begun(status[t]))
    BY <1>1 DEF Begun
<1> QED BY <1>1, <1>2, <1>4, <1>5, <1>6, AccountsUntouched

LEMMA AccountsHold == IInv /\ Accounted /\ [Next]_vars => Accounted'
<1> SUFFICES ASSUME IInv, Accounted, [Next]_vars PROVE Accounted'
    OBVIOUS
<1>1. CASE InvalidateParseResult \/ UNCHANGED vars
    <2>1. status' = status /\ chunks' = chunks /\ executions' = executions /\ request' = request
        BY <1>1 DEF InvalidateParseResult, vars
    <2>2. parsed' \in {"succeeded", "invalidated"}
        BY <1>1 DEF InvalidateParseResult, vars, Accounted
    <2> QED BY <2>1, <2>2 DEF Accounted, Running, Owner, At
<1>2. ASSUME NEW r \in Requests, NEW s \in Configurations, ValidateParseResult(r, s) \/ LoadSuccessful(r, s)
      PROVE  Accounted'
    BY <1>2, AdmitAccounts
<1>3. ASSUME NEW r \in Requests,
             BeginRefused(r) \/ GenerateChunkCandidates(r) \/ FailToPersist(r) \/ Crash(r)
      PROVE  Accounted'
    BY <1>3, MoveAccounts
<1>4. ASSUME NEW r \in Requests, CreateOrGetChunkSet(r) PROVE Accounted'
    BY <1>4, CreateAccounts
<1>5. ASSUME NEW r \in Requests, BeginChunkingExecution(r) PROVE Accounted'
    BY <1>5, BeginAccounts
<1>6. ASSUME NEW r \in Requests, PersistChunkSet(r) PROVE Accounted'
    <2>1. Works(request[r]) BY <1>6 DEF PersistChunkSet, At, Works
    <2>2. /\ executions' = [executions EXCEPT ![request[r].set][request[r].execution] = "succeeded"]
          /\ status' = [status EXCEPT ![request[r].set] = "succeeded"]
          /\ parsed' = parsed /\ chunks \subseteq chunks' /\ End(r)
        BY <1>6 DEF PersistChunkSet, CompleteChunkingExecution, SetOf
    <2> QED BY <2>1, <2>2, EndAccounts
<1>7. ASSUME NEW r \in Requests, FailChunkingExecution(r) PROVE Accounted'
    BY <1>7, FailAccounts
<1>8. ASSUME NEW r \in Requests, InvalidateChunkSet(r) PROVE Accounted'
    BY <1>8, InvalidateAccounts
<1> QED BY <1>1, <1>2, <1>3, <1>4, <1>5, <1>6, <1>7, <1>8 DEF Next

(* Chunk set, executions and requests agree whatever requests overlap or die: *)
(* an execution left running, which refuses every later one, is one request's *)
(* own or that of a set chunked beside it, and no status outlives what the    *)
(* executions say (begin_, complete_ and fail_chunking_execution).            *)
THEOREM ChunkingIsAccounted == Spec => []ExecutionsConsistent
<1>1. Init => Accounted
    <2> SUFFICES ASSUME Init PROVE Accounted
        OBVIOUS
    <2>1. \A r \in Requests : request[r].pc = "idle" /\ request[r].execution = 0
        BY DEF Init, Idle
    <2>2. \A s \in Configurations : executions[s] = << >> /\ Running(s) = {} /\ status[s] = "absent"
        BY DEF Init, Running
    <2>3. parsed \in {"succeeded", "invalidated"} BY DEF Init
    <2> QED BY <2>1, <2>2, <2>3 DEF Accounted, Begun, At
<1>2. IInv /\ Accounted => ExecutionsConsistent
    <2> SUFFICES ASSUME IInv, Accounted PROVE ExecutionsConsistent
        OBVIOUS
    <2>1. TypeOK BY DEF IInv, Types, Accounted, TypeOK, RequestType
    <2>2. RunningExecutionsAreWorked
        BY DEF Accounted, RunningExecutionsAreWorked, Owner, AtWork, Works, SetOf
    <2>3. StatusFollowsExecutions
        BY DEF Accounted, StatusFollowsExecutions, Begun
    <2> QED BY <2>1, <2>2, <2>3 DEF ExecutionsConsistent
<1> QED BY InitHolds, StepHolds, AccountsHold, <1>1, <1>2, PTL DEF Spec

-----------------------------------------------------------------------------
(* Induction over data, without the library's induction theorems: a set of    *)
(* numbers has a least one, so what holds of 0 and is handed on holds of all. *)
LEMMA LeastNumber ==
    ASSUME NEW T \in SUBSET Nat, T # {}
    PROVE  \E least \in T : \A n \in T : least <= n
<1>1. IsWellFoundedOn(OpToRel(<, Nat), Nat)
  BY NatLessThanWellFounded, Zenon
<1>2. PICK x \in T : \A y \in T : ~ (<<y, x>> \in OpToRel(<, Nat))
  BY <1>1, WFMin, Zenon
<1>3. ASSUME NEW y \in T, y < x PROVE FALSE
  <2>1. <<y, x>> \in OpToRel(<, Nat)
    BY <1>3 DEF OpToRel
  <2> QED BY <2>1, <1>2
<1> QED
  BY <1>3

LEMMA Counting ==
    ASSUME NEW T, 0 \in T, \A n \in Nat : n \in T => n + 1 \in T
    PROVE  \A n \in Nat : n \in T
<1>1. SUFFICES ASSUME Nat \ T # {} PROVE FALSE
  OBVIOUS
<1>2. PICK least \in Nat \ T : \A n \in Nat \ T : least <= n
  BY <1>1, LeastNumber
<1>3. least # 0 /\ least - 1 \in Nat
  BY <1>2
<1>4. least - 1 \in T
  BY <1>2, <1>3
<1> QED
  BY <1>2, <1>3, <1>4

(* The value of a loop after i turns, and of the concatenation of sequences.  *)
Iterates(f, n, base, step) ==
    /\ f[0] = base
    /\ \A i \in 1..n : f[i] = step[<<i, f[i - 1]>>]

(* A loop of n turns computes a value: the function of its turns exists.      *)
LEMMA LoopsCompute ==
    ASSUME NEW S, NEW base \in S, NEW n \in Nat, NEW step \in [(1..n) \X S -> S]
    PROVE  \E f \in [0..n -> S] : Iterates(f, n, base, step)
<1> DEFINE T == {k \in Nat : k <= n => \E f \in [0..k -> S] : Iterates(f, k, base, step)}
<1>1. 0 \in T
  <2>1. [i \in 0..0 |-> base] \in [0..0 -> S] /\ Iterates([i \in 0..0 |-> base], 0, base, step)
    BY DEF Iterates
  <2> QED BY <2>1
<1>2. ASSUME NEW k \in Nat, k \in T, k + 1 <= n PROVE k + 1 \in T
  <2>1. PICK f \in [0..k -> S] : Iterates(f, k, base, step)
    BY <1>2
  <2>2. step[<<k + 1, f[k]>>] \in S
    BY <1>2
  <2>3. PICK g : g = [i \in 0..(k + 1) |-> IF i = k + 1 THEN step[<<k + 1, f[k]>>] ELSE f[i]]
    OBVIOUS
  <2>4. g \in [0..(k + 1) -> S]
    BY <2>2, <2>3
  <2>5. g[0] = base
    BY <2>1, <2>3 DEF Iterates
  <2>6. ASSUME NEW i \in 1..(k + 1) PROVE g[i] = step[<<i, g[i - 1]>>]
    <3>1. g[i - 1] = f[i - 1]
      BY <2>3
    <3>2. CASE i = k + 1
      BY <3>1, <3>2, <2>3
    <3>3. CASE i # k + 1
      <4>1. i \in 1..k /\ g[i] = f[i]
        BY <3>3, <2>3
      <4> QED BY <4>1, <3>1, <2>1 DEF Iterates
    <3> QED BY <3>2, <3>3
  <2> QED BY <2>4, <2>5, <2>6 DEF Iterates
<1>3. \A k \in Nat : k \in T => k + 1 \in T
  BY <1>2
<1> HIDE DEF T
<1>4. n \in T
  BY <1>1, <1>3, Counting
<1> QED
  BY <1>4 DEF T

(* And it computes one value: two functions that agree on each turn agree.    *)
LEMMA LoopsAreUnique ==
    ASSUME NEW n \in Nat, NEW f, NEW g, f[0] = g[0],
           \A i \in 1..n : f[i - 1] = g[i - 1] => f[i] = g[i]
    PROVE  \A i \in 0..n : f[i] = g[i]
<1> DEFINE T == {k \in Nat : k <= n => f[k] = g[k]}
<1>1. 0 \in T
  OBVIOUS
<1>2. \A k \in Nat : k \in T => k + 1 \in T
  OBVIOUS
<1> HIDE DEF T
<1>3. \A k \in Nat : k \in T
  BY <1>1, <1>2, Counting
<1> QED
  BY <1>3 DEF T

Joins(f, ss) ==
    /\ f[0] = << >>
    /\ \A i \in 1..Len(ss) : f[i] = f[i - 1] \o ss[i]

(* FlattenSeq, which the library defines by recursion, is such a loop.        *)
LEMMA FlattenComputes ==
    ASSUME NEW S, NEW ss \in Seq(Seq(S))
    PROVE  \E f \in [0..Len(ss) -> Seq(S)] : Joins(f, ss) /\ FlattenSeq(ss) = f[Len(ss)]
<1> DEFINE step == [x \in (1..Len(ss)) \X Seq(S) |-> x[2] \o ss[x[1]]]
<1>1. step \in [(1..Len(ss)) \X Seq(S) -> Seq(S)]
  OBVIOUS
<1>2. << >> \in Seq(S) /\ Len(ss) \in Nat
  OBVIOUS
<1>a. \A i \in 1..Len(ss) : i \in Nat /\ i - 1 \in 0..Len(ss) /\ ss[i] \in Seq(S) /\ << >> \o ss[i] = ss[i]
  OBVIOUS
<1>3. PICK f \in [0..Len(ss) -> Seq(S)] : Iterates(f, Len(ss), << >>, step)
  <2> HIDE DEF step
  <2> QED BY <1>1, <1>2, LoopsCompute
<1>4. Joins(f, ss)
  <2>1. ASSUME NEW i \in 1..Len(ss) PROVE f[i] = f[i - 1] \o ss[i]
    <3>1. f[i - 1] \in Seq(S)
      BY <1>3, <1>a
    <3> QED BY <1>3, <3>1 DEF Iterates
  <2> QED BY <1>3, <2>1 DEF Joins, Iterates
<1>5. CASE Len(ss) = 0
  BY <1>4, <1>5 DEF Joins, FlattenSeq
<1>6. CASE Len(ss) # 0
  <2> DEFINE flatten[i \in 1..Len(ss)] == IF i = 1 THEN ss[i] ELSE flatten[i - 1] \o ss[i]
  <2>1. FlattenSeq(ss) = flatten[Len(ss)]
    BY <1>6 DEF FlattenSeq
  <2>2. PICK g : g = [i \in 1..Len(ss) |-> f[i]]
    OBVIOUS
  <2>3. g = [i \in 1..Len(ss) |-> IF i = 1 THEN ss[i] ELSE g[i - 1] \o ss[i]]
    <3>1. ASSUME NEW i \in 1..Len(ss) PROVE f[i] = IF i = 1 THEN ss[i] ELSE g[i - 1] \o ss[i]
      <4>1. CASE i = 1
        <5>1. i - 1 = 0
          BY <4>1
        <5>2. f[i - 1] = << >> /\ f[i] = f[i - 1] \o ss[i]
          BY <1>4, <5>1 DEF Joins
        <5> QED BY <5>2, <4>1, <1>a
      <4>2. CASE i # 1
        <5>1. g[i - 1] = f[i - 1]
          BY <2>2, <4>2, <1>2
        <5> QED BY <5>1, <1>4, <4>2 DEF Joins
      <4> QED BY <4>1, <4>2
    <3> QED BY <2>2, <3>1
  <2>4. flatten = [i \in 1..Len(ss) |-> IF i = 1 THEN ss[i] ELSE flatten[i - 1] \o ss[i]]
    BY <2>3
  <2> HIDE DEF flatten
  <2>5. PICK h : h = [i \in 0..Len(ss) |-> IF i = 0 THEN << >> ELSE flatten[i]]
    OBVIOUS
  <2>6. ASSUME NEW i \in 1..Len(ss), f[i - 1] = h[i - 1] PROVE f[i] = h[i]
    <3>1. f[i] = f[i - 1] \o ss[i]
      BY <1>4 DEF Joins
    <3>2. h[i] = flatten[i]
      BY <2>5, <1>2
    <3>3. CASE i = 1
      <4>1. flatten[i] = ss[i]
        BY <2>4, <3>3
      <4>2. i - 1 = 0
        BY <3>3
      <4>3. f[i - 1] = << >>
        BY <1>4, <4>2 DEF Joins
      <4> QED BY <4>1, <4>3, <3>1, <3>2, <1>a
    <3>4. CASE i # 1
      <4>1. flatten[i] = flatten[i - 1] \o ss[i]
        BY <2>4, <3>4
      <4>2. h[i - 1] = flatten[i - 1]
        BY <2>5, <3>4, <1>2
      <4> QED BY <4>1, <4>2, <3>1, <3>2, <2>6
    <3> QED BY <3>3, <3>4
  <2>7. f[0] = h[0]
    BY <1>2, <1>4, <2>5 DEF Joins
  <2>8. \A i \in 0..Len(ss) : f[i] = h[i]
    BY <2>6, <2>7, <1>2, LoopsAreUnique
  <2>9. Len(ss) \in 0..Len(ss) /\ h[Len(ss)] = flatten[Len(ss)]
    BY <2>5, <1>2, <1>6
  <2> QED BY <2>1, <2>8, <2>9, <1>4
<1> QED
  BY <1>4, <1>5, <1>6

LEMMA Concatenated ==
    ASSUME NEW S, NEW s \in Seq(S), NEW t \in Seq(S)
    PROVE  /\ s \o t \in Seq(S)
           /\ Len(s \o t) = Len(s) + Len(t)
           /\ \A i \in 1..Len(s) : (s \o t)[i] = s[i]
           /\ \A i \in 1..Len(t) : (s \o t)[Len(s) + i] = t[i]
<1>1. s \o t \in Seq(S) /\ Len(s \o t) = Len(s) + Len(t)
  OBVIOUS
<1>2. ASSUME NEW i \in 1..Len(s) PROVE (s \o t)[i] = s[i]
  OBVIOUS
<1>3. ASSUME NEW i \in 1..Len(t) PROVE (s \o t)[Len(s) + i] = t[i]
  OBVIOUS
<1> QED
  BY <1>1, <1>2, <1>3

LEMMA FlattenTyped ==
    ASSUME NEW S, NEW ss \in Seq(Seq(S))
    PROVE  FlattenSeq(ss) \in Seq(S)
<1>1. Len(ss) \in 0..Len(ss)
  OBVIOUS
<1> QED
  BY <1>1, FlattenComputes

LEMMA FlattenEmpty == FlattenSeq(<< >>) = << >>
BY DEF FlattenSeq

LEMMA JoinsAgree ==
    ASSUME NEW ss, NEW tt, NEW f, NEW g, Len(ss) \in Nat, Len(tt) \in Nat, Len(ss) <= Len(tt),
           \A i \in 1..Len(ss) : tt[i] = ss[i], Joins(f, ss), Joins(g, tt)
    PROVE  f[Len(ss)] = g[Len(ss)]
<1> DEFINE T == {k \in Nat : k <= Len(ss) => f[k] = g[k]}
<1>1. 0 \in T
  BY DEF Joins
<1>2. ASSUME NEW k \in Nat, k \in T PROVE k + 1 \in T
  <2>1. SUFFICES ASSUME k + 1 <= Len(ss) PROVE f[k + 1] = g[k + 1]
    OBVIOUS
  <2>2. k + 1 \in 1..Len(ss) /\ k + 1 \in 1..Len(tt) /\ (k + 1) - 1 = k
    BY <2>1
  <2>3. f[k + 1] = f[k] \o ss[k + 1] /\ g[k + 1] = g[k] \o tt[k + 1] /\ tt[k + 1] = ss[k + 1]
    BY <2>2 DEF Joins
  <2>4. f[k] = g[k]
    BY <1>2, <2>1
  <2> QED BY <2>3, <2>4
<1> HIDE DEF T
<1>3. Len(ss) \in T
  BY <1>1, <1>2, Counting
<1> QED
  BY <1>3 DEF T

LEMMA FlattenExtended ==
    ASSUME NEW S, NEW ss \in Seq(Seq(S)), NEW tt \in Seq(Seq(S)),
           Len(tt) = Len(ss) + 1, \A i \in 1..Len(ss) : tt[i] = ss[i]
    PROVE  FlattenSeq(tt) = FlattenSeq(ss) \o tt[Len(tt)]
<1>1. PICK f : f \in [0..Len(ss) -> Seq(S)] /\ Joins(f, ss) /\ FlattenSeq(ss) = f[Len(ss)]
  BY FlattenComputes
<1>2. PICK g : g \in [0..Len(tt) -> Seq(S)] /\ Joins(g, tt) /\ FlattenSeq(tt) = g[Len(tt)]
  BY FlattenComputes
<1>3. Len(ss) \in Nat /\ Len(tt) \in Nat /\ Len(ss) <= Len(tt) /\ Len(tt) \in 1..Len(tt) /\ Len(tt) - 1 = Len(ss)
  OBVIOUS
<1>4. f[Len(ss)] = g[Len(ss)]
  BY <1>1, <1>2, <1>3, JoinsAgree
<1>5. g[Len(tt)] = g[Len(tt) - 1] \o tt[Len(tt)]
  BY <1>2, <1>3 DEF Joins
<1> QED
  BY <1>1, <1>2, <1>3, <1>4, <1>5

(* Everything in one of the sequences is in the flattened one.                *)
LEMMA FlattenHolds ==
    ASSUME NEW S, NEW ss \in Seq(Seq(S)), NEW j \in 1..Len(ss), NEW i \in 1..Len(ss[j])
    PROVE  \E k \in 1..Len(FlattenSeq(ss)) : FlattenSeq(ss)[k] = ss[j][i]
<1>1. PICK f : f \in [0..Len(ss) -> Seq(S)] /\ Joins(f, ss) /\ FlattenSeq(ss) = f[Len(ss)]
  BY FlattenComputes
<1> DEFINE Held(n) == \E k \in 1..Len(f[n]) : f[n][k] = ss[j][i]
           T == {n \in Nat : j <= n /\ n <= Len(ss) => Held(n)}
<1>2. \A n \in 1..Len(ss) : ss[n] \in Seq(S) /\ f[n - 1] \in Seq(S) /\ f[n] = f[n - 1] \o ss[n]
  <2>1. ASSUME NEW n \in 1..Len(ss) PROVE ss[n] \in Seq(S) /\ f[n - 1] \in Seq(S)
    <3>1. n - 1 \in 0..Len(ss) /\ n \in 1..Len(ss) /\ Len(ss) \in Nat
      OBVIOUS
    <3>2. f[n - 1] \in Seq(S)
      BY <3>1, <1>1
    <3> QED BY <3>1, <3>2
  <2>2. \A n \in 1..Len(ss) : f[n] = f[n - 1] \o ss[n]
    BY <1>1 DEF Joins
  <2> QED BY <2>1, <2>2
<1>3. 0 \in T
  OBVIOUS
<1>4. ASSUME NEW n \in Nat, n \in T PROVE n + 1 \in T
  <2>1. SUFFICES ASSUME j <= n + 1, n + 1 <= Len(ss) PROVE Held(n + 1)
    OBVIOUS
  <2>2. ss[n + 1] \in Seq(S) /\ f[n] \in Seq(S) /\ f[n + 1] = f[n] \o ss[n + 1]
    <3>1. n + 1 \in 1..Len(ss) /\ (n + 1) - 1 = n
      BY <2>1
    <3> QED BY <3>1, <1>2
  <2>3. CASE j = n + 1
    <3>1. Len(f[n]) + i \in 1..Len(f[n + 1]) /\ f[n + 1][Len(f[n]) + i] = ss[j][i]
      <4>1. Len(f[n]) \in Nat /\ Len(ss[j]) \in Nat /\ i \in 1..Len(ss[n + 1])
        BY <2>2, <2>3
      <4>2. PICK s \in Seq(S) : s = f[n]
        BY <2>2
      <4>3. PICK t \in Seq(S) : t = ss[n + 1]
        BY <2>2
      <4>4. PICK u : u = f[n + 1]
        OBVIOUS
      <4>5. u = s \o t /\ i \in 1..Len(t) /\ t = ss[j]
        BY <2>2, <2>3, <4>1, <4>2, <4>3, <4>4
      <4>6. Len(s) + i \in 1..Len(u) /\ u[Len(s) + i] = t[i]
        BY <4>5
      <4> QED BY <4>2, <4>4, <4>5, <4>6
    <3> QED BY <3>1
  <2>4. CASE j # n + 1
    <3>1. PICK k \in 1..Len(f[n]) : f[n][k] = ss[j][i]
      BY <1>4, <2>1, <2>4
    <3>2. k \in 1..Len(f[n + 1]) /\ f[n + 1][k] = f[n][k]
      <4>2. PICK s \in Seq(S) : s = f[n]
        BY <2>2
      <4>3. PICK t \in Seq(S) : t = ss[n + 1]
        BY <2>2
      <4>4. PICK u : u = f[n + 1]
        OBVIOUS
      <4>5. u = s \o t /\ k \in 1..Len(s)
        BY <2>2, <4>2, <4>3, <4>4
      <4>6. k \in 1..Len(u) /\ u[k] = s[k]
        BY <4>5
      <4> QED BY <4>2, <4>4, <4>6
    <3> QED BY <3>1, <3>2
  <2> QED BY <2>3, <2>4
<1> HIDE DEF T
<1>5. Len(ss) \in Nat /\ Len(ss) \in T
  <2>1. Len(ss) \in Nat
    OBVIOUS
  <2> QED BY <1>3, <1>4, <2>1, Counting
<1>6. Held(Len(ss))
  BY <1>5 DEF T
<1> QED
  BY <1>6, <1>1

(* Max and Min, which the library defines with CHOOSE, exist.                 *)
LEMMA MaxIsGreatest ==
    ASSUME NEW T \in SUBSET Int, T # {}, NEW bound \in Int, \A t \in T : t <= bound
    PROVE  Max(T) \in T /\ \A t \in T : t <= Max(T)
<1> DEFINE D == {n \in Nat : bound - n \in T}
<1>1. D # {}
  <2>1. PICK t \in T : TRUE
    OBVIOUS
  <2>2. bound - t \in D
    BY <2>1
  <2> QED BY <2>2
<1>2. PICK least \in D : \A n \in D : least <= n
  BY <1>1, LeastNumber
<1>3. ASSUME NEW t \in T PROVE t <= bound - least
  <2>1. bound - t \in D
    OBVIOUS
  <2> QED BY <2>1, <1>2
<1>4. bound - least \in T /\ \A t \in T : bound - least >= t
  BY <1>2, <1>3
<1>5. Max(T) \in T /\ \A t \in T : Max(T) >= t
  BY <1>4 DEF Max
<1> QED
  BY <1>5

LEMMA MinIsLeast ==
    ASSUME NEW T \in SUBSET Nat, T # {}
    PROVE  Min(T) \in T /\ \A t \in T : Min(T) <= t
<1>1. \E least \in T : \A t \in T : least <= t
  BY LeastNumber
<1> QED
  BY <1>1 DEF Min

-----------------------------------------------------------------------------
(* What the parsers make of a file is a sequence of blocks with a text.       *)
Names == STRING \cup {"Document", "Page 1"}
Headings == [type : ContentTypes, text : Seq(CharacterKinds) \ {<< >>}, level : Nat,
             title : Names, prefix : Nat, rows : Seq(Nat)]
ChunkBlocks ==
    {b \in [type : ContentTypes, heading_context : Seq(Names), text : Seq(CharacterKinds) \ {<< >>},
            prefix : Nat, rows : Seq(Nat)] : HasTableText(b)}
PlacedBlocks == [order : Nat, block : ChunkBlocks]
SoundSources == {b \in SourceBlocks : HasTableText(b)}
Parses == [title : Seq(Headings), section_stack : Seq(Headings), elements : Seq(PlacedBlocks),
           tables : Seq(PlacedBlocks), source_index : Nat]

LEMMA RowsEndAlike ==
    ASSUME NEW b, NEW c, b.prefix = c.prefix, b.rows = c.rows, NEW r
    PROVE  RowEnd(b, r) = RowEnd(c, r)
BY Zenon DEF RowEnd

(* What the parsers make of a file is a sequence of blocks with a text: each  *)
(* of their steps keeps the parse in its type.                                *)
LEMMA PlainBlocks ==
    ASSUME NEW type \in ContentTypes, NEW context \in Seq(Names), NEW text \in Seq(CharacterKinds) \ {<< >>}
    PROVE  Block(type, context, text) \in ChunkBlocks
<1>1. Block(type, context, text).rows = << >> /\ DOMAIN << >> = {}
  BY DEF Block
<1>2. HasTableText(Block(type, context, text))
  BY <1>1 DEF HasTableText
<1> QED
  BY <1>2 DEF ChunkBlocks, Block

LEMMA TableBlocks ==
    ASSUME NEW context \in Seq(Names), NEW b \in SoundSources, b.type = "table"
    PROVE  WithRows(Block("table", context, b.text), b) \in ChunkBlocks
<1>1. PICK c : c = WithRows(Block("table", context, b.text), b)
  OBVIOUS
<1>2. b \in SourceBlocks /\ HasTableText(b)
  BY DEF SoundSources
<1>3. /\ c \in [type : ContentTypes, heading_context : Seq(Names), text : Seq(CharacterKinds) \ {<< >>},
                prefix : Nat, rows : Seq(Nat)]
      /\ c.prefix = b.prefix /\ c.rows = b.rows /\ c.text = b.text /\ c.type = b.type
  BY <1>1, <1>2 DEF WithRows, Block, SourceBlocks, ContentTypes
<1>4. \A r : RowEnd(c, r) = RowEnd(b, r)
  BY <1>3, RowsEndAlike
<1>5. HasTableText(c)
  BY <1>2, <1>3, <1>4 DEF HasTableText
<1> QED
  BY <1>1, <1>3, <1>5 DEF ChunkBlocks

LEMMA TitlesAreNames ==
    ASSUME NEW stack \in Seq(Headings)
    PROVE  Titles(stack) \in Seq(Names)
<1>1. ASSUME NEW i \in 1..Len(stack) PROVE stack[i].title \in Names
  <2>1. stack[i] \in Headings
    OBVIOUS
  <2> QED BY <2>1 DEF Headings
<1>2. Titles(stack) = [i \in 1..Len(stack) |-> stack[i].title]
  BY DEF Titles
<1> QED
  BY <1>1, <1>2

LEMMA HeadingsAreMade ==
    ASSUME NEW level \in Nat, NEW name \in Names, NEW text \in Seq(CharacterKinds) \ {<< >>}
    PROVE  Heading(level, name, text) \in Headings
<1>1. PICK b : b = SourceBlock("section", text)
  OBVIOUS
<1>2. b = [type |-> "section", text |-> text, level |-> 0, title |-> "", prefix |-> 0, rows |-> << >>]
  BY <1>1 DEF SourceBlock
<1>3. Heading(level, name, text) = [b EXCEPT !.level = level, !.title = name]
  BY <1>1 DEF Heading
<1>4. Heading(level, name, text) = [type |-> "section", text |-> text, level |-> level, title |-> name,
                                    prefix |-> 0, rows |-> << >>]
  BY <1>2, <1>3
<1>5. << >> \in Seq(Nat) /\ "section" \in ContentTypes
  BY DEF ContentTypes
<1> QED
  BY <1>4, <1>5 DEF Headings

(* The title put over text that has no heading is one, from whatever place it *)
(* comes.                                                                     *)
LEMMA TheTitleIsABlock ==
    ASSUME NEW title \in Seq(Headings)
    PROVE  DocumentTitle(title) \in Headings
<1>1. CASE title = << >>
  <2>1. <<"word">> \in Seq(CharacterKinds) \ {<< >>}
    BY DEF CharacterKinds
  <2>2. Heading(1, "Document", <<"word">>) \in Headings
    BY <2>1, HeadingsAreMade DEF Names
  <2> QED BY <1>1, <2>2 DEF DocumentTitle
<1>2. CASE title # << >>
  <2>1. title[1] \in Headings
    BY <1>2
  <2>2. title[1].title \in Names /\ title[1].text \in Seq(CharacterKinds) \ {<< >>}
    BY <2>1 DEF Headings
  <2>3. Heading(1, title[1].title, title[1].text) \in Headings
    BY <2>2, HeadingsAreMade
  <2> QED BY <1>2, <2>3 DEF DocumentTitle
<1> QED
  BY <1>1, <1>2

LEMMA TitlesAreFound ==
    ASSUME NEW format, NEW source \in Seq(Headings), NEW given \in Seq(Headings), NEW filename \in Seq(Headings)
    PROVE  MetadataTitle(format, source, given, filename) \in Seq(Headings)
<1> DEFINE headings == {i \in DOMAIN source : source[i].type = "section"}
           first == CASE format = "markdown" /\ headings # {} -> <<source[Min(headings)]>>
                      [] format = "txt" /\ 1 \in headings -> <<source[1]>>
                      [] OTHER -> << >>
           titles == (IF format = "txt" THEN << >> ELSE given) \o first \o filename
<1>1. headings \in SUBSET Nat /\ \A i \in headings : source[i] \in Headings
  <2> HIDE DEF first, titles
  <2>1. DOMAIN source = 1..Len(source) /\ Len(source) \in Nat /\ \A i \in 1..Len(source) : source[i] \in Headings
    BY LenProperties, ElementOfSeq
  <2> QED BY <2>1
<1> HIDE DEF headings
<1>2. ASSUME NEW h \in Headings PROVE <<h>> \in Seq(Headings)
  OBVIOUS
<1>3. headings # {} => <<source[Min(headings)]>> \in Seq(Headings)
  <2>1. headings # {} => Min(headings) \in headings
    BY <1>1, MinIsLeast
  <2> QED BY <1>1, <1>2, <2>1
<1>4. 1 \in headings => <<source[1]>> \in Seq(Headings)
  BY <1>1, <1>2
<1>5. first \in Seq(Headings)
  <2>1. << >> \in Seq(Headings)
    OBVIOUS
  <2>2. CASE format = "markdown" /\ headings # {}
    <3>1. first = <<source[Min(headings)]>>
      BY <2>2
    <3> QED BY <1>3, <2>2, <3>1
  <2>3. CASE ~(format = "markdown" /\ headings # {}) /\ format = "txt" /\ 1 \in headings
    <3>1. first = <<source[1]>>
      BY <2>3
    <3> QED BY <1>4, <2>3, <3>1
  <2>4. CASE ~(format = "markdown" /\ headings # {}) /\ ~(format = "txt" /\ 1 \in headings)
    <3>1. first = << >>
      BY <2>4
    <3> QED BY <2>1, <3>1
  <2> QED BY <2>2, <2>3, <2>4
<1> HIDE DEF first
<1>6. titles \in Seq(Headings)
  <2>1. PICK g \in Seq(Headings) : g = IF format = "txt" THEN << >> ELSE given
    <3> HIDE DEF titles
    <3>1. << >> \in Seq(Headings)
      OBVIOUS
    <3> QED BY <3>1
  <2>2. PICK f \in Seq(Headings) : f = first
    BY <1>5
  <2>3. g \o f \o filename \in Seq(Headings)
    OBVIOUS
  <2> QED BY <2>1, <2>2, <2>3
<1>7. MetadataTitle(format, source, given, filename) = IF titles = << >> THEN << >> ELSE <<Head(titles)>>
  BY Zenon DEF MetadataTitle, titles, first, headings
<1> HIDE DEF titles
<1>8. titles # << >> => Head(titles) \in Headings
  BY <1>6
<1> QED
  BY <1>2, <1>7, <1>8

(* A heading, a paragraph and a table are added to a parse.                   *)
LEMMA SectionsAreAdded ==
    ASSUME NEW parse \in Parses, NEW heading \in Headings, NEW order \in Nat
    PROVE  /\ AddSection(parse, heading, order) \in Parses
           /\ AddSection(parse, heading, order).section_stack # << >>
<1> DEFINE lower == {i \in DOMAIN parse.section_stack : parse.section_stack[i].level < heading.level}
           stack == Append(SubSeq(parse.section_stack, 1, Max({0} \cup lower)), heading)
<1>1. parse.section_stack \in Seq(Headings) /\ parse.elements \in Seq(PlacedBlocks)
  BY DEF Parses
<1>2. Max({0} \cup lower) \in 0..Len(parse.section_stack)
  <2>1. {0} \cup lower \in SUBSET Int /\ \A i \in {0} \cup lower : i <= Len(parse.section_stack) /\ 0 <= i
    BY <1>1
  <2>2. Len(parse.section_stack) \in Int /\ {0} \cup lower # {}
    BY <1>1
  <2> HIDE DEF lower
  <2>3. Max({0} \cup lower) \in {0} \cup lower
    BY <2>1, <2>2, MaxIsGreatest
  <2> QED BY <2>1, <2>3
<1> HIDE DEF lower
<1>3. SubSeq(parse.section_stack, 1, Max({0} \cup lower)) \in Seq(Headings)
  <2>1. PICK s \in Seq(Headings) : s = parse.section_stack
    BY <1>1
  <2>2. PICK m \in 0..Len(s) : m = Max({0} \cup lower)
    BY <1>2, <2>1
  <2>3. \A i \in 1..m : s[i] \in Headings
    OBVIOUS
  <2>4. SubSeq(s, 1, m) \in Seq(Headings)
    BY <2>3, SubSeqProperties
  <2> QED BY <2>1, <2>2, <2>4
<1>4. stack \in Seq(Headings) /\ stack # << >>
  <2>1. PICK s \in Seq(Headings) : s = SubSeq(parse.section_stack, 1, Max({0} \cup lower))
    BY <1>3
  <2>2. Append(s, heading) \in Seq(Headings) /\ Append(s, heading) # << >>
    BY AppendProperties
  <2> QED BY <2>1, <2>2
<1>5. Titles(stack) \in Seq(Names)
  <2> HIDE DEF stack
  <2> QED BY <1>4, TitlesAreNames
<1>6. Element(order, Block("section", Titles(stack), heading.text)) \in PlacedBlocks
  <2>1. heading.text \in Seq(CharacterKinds) \ {<< >>} /\ "section" \in ContentTypes
    BY DEF Headings, ContentTypes
  <2> HIDE DEF stack
  <2>2. Block("section", Titles(stack), heading.text) \in ChunkBlocks
    BY <2>1, <1>5, PlainBlocks
  <2> QED BY <2>2 DEF Element, PlacedBlocks
<1>7. AddSection(parse, heading, order) =
        [parse EXCEPT !.section_stack = stack,
                       !.elements = Append(@, Element(order, Block("section", Titles(stack), heading.text)))]
  BY DEF AddSection, lower
<1> HIDE DEF stack
<1>8. Append(parse.elements, Element(order, Block("section", Titles(stack), heading.text))) \in Seq(PlacedBlocks)
  BY <1>1, <1>6
<1> QED
  BY <1>4, <1>7, <1>8 DEF Parses

LEMMA SectionsAreEnsured ==
    ASSUME NEW parse \in Parses, NEW format
    PROVE  EnsureSection(parse, format) \in Parses
<1>1. (IF format = "docx" THEN parse.source_index ELSE 0) \in Nat
  BY DEF Parses
<1>2. DocumentTitle(parse.title) \in Headings
  BY TheTitleIsABlock DEF Parses
<1>3. AddSection(parse, DocumentTitle(parse.title), IF format = "docx" THEN parse.source_index ELSE 0) \in Parses
  BY <1>1, <1>2, SectionsAreAdded
<1> QED
  BY <1>3 DEF EnsureSection

LEMMA ParagraphsAreAdded ==
    ASSUME NEW parse \in Parses, NEW type \in ContentTypes, NEW text \in Seq(CharacterKinds) \ {<< >>},
           NEW order \in Nat
    PROVE  AddParagraph(parse, type, text, order) \in Parses
<1>1. Titles(parse.section_stack) \in Seq(Names) /\ parse.elements \in Seq(PlacedBlocks)
  BY TitlesAreNames DEF Parses
<1>2. Block(type, Titles(parse.section_stack), text) \in ChunkBlocks
  BY <1>1, PlainBlocks
<1>3. Element(order, Block(type, Titles(parse.section_stack), text)) \in PlacedBlocks
  BY <1>2 DEF Element, PlacedBlocks
<1>4. Append(parse.elements, Element(order, Block(type, Titles(parse.section_stack), text))) \in Seq(PlacedBlocks)
  BY <1>1, <1>3
<1> QED
  BY <1>4 DEF AddParagraph, Parses

LEMMA TablesAreAdded ==
    ASSUME NEW parse \in Parses, NEW b \in SoundSources, b.type = "table"
    PROVE  AddTable(parse, b) \in Parses
<1> DEFINE block == WithRows(Block("table", Titles(parse.section_stack), b.text), b)
<1>1. Titles(parse.section_stack) \in Seq(Names) /\ parse.tables \in Seq(PlacedBlocks) /\ parse.source_index \in Nat
  BY TitlesAreNames DEF Parses
<1>2. block \in ChunkBlocks
  BY <1>1, TableBlocks
<1> HIDE DEF block
<1>3. Element(parse.source_index, block) \in PlacedBlocks
  BY <1>1, <1>2 DEF Element, PlacedBlocks
<1>4. Append(parse.tables, Element(parse.source_index, block)) \in Seq(PlacedBlocks)
  BY <1>1, <1>3
<1>5. AddTable(parse, b) = [parse EXCEPT !.tables = Append(@, Element(parse.source_index, block))]
  BY DEF AddTable, block
<1> QED
  BY <1>4, <1>5 DEF Parses

LEMMA BlocksAreParsed ==
    ASSUME NEW parse \in Parses, NEW b \in SoundSources, NEW format
    PROVE  ParseBlock(parse, b, format) \in Parses
<1>1. parse.source_index \in Nat /\ b \in Headings /\ b.type \in ContentTypes
      /\ b.text \in Seq(CharacterKinds) \ {<< >>}
  BY DEF Parses, SoundSources, SourceBlocks, Headings, Names
<1>2. AddSection(parse, b, parse.source_index) \in Parses
  BY <1>1, SectionsAreAdded
<1>3. b.type = "table" => AddTable(parse, b) \in Parses
  BY TablesAreAdded
<1>4. AddParagraph(EnsureSection(parse, format), b.type, b.text, parse.source_index) \in Parses
  BY <1>1, SectionsAreEnsured, ParagraphsAreAdded
<1>5. PICK added : /\ added \in Parses
                   /\ ParseBlock(parse, b, format) = [added EXCEPT !.source_index = @ + 1]
  <2>1. CASE b.type = "section"
    BY <2>1, <1>2 DEF ParseBlock
  <2>2. CASE b.type = "table"
    BY <2>2, <1>3 DEF ParseBlock
  <2>3. CASE b.type \notin {"section", "table"}
    BY <2>3, <1>4 DEF ParseBlock
  <2> QED BY <2>1, <2>2, <2>3
<1>6. PICK k \in Nat : k = added.source_index + 1
  BY <1>5 DEF Parses
<1>7. [added EXCEPT !.source_index = k] \in Parses
  BY <1>5 DEF Parses
<1> QED
  BY <1>5, <1>6, <1>7

(* What holds before a loop and is kept by each turn holds after it.          *)
LEMMA LoopsStayIn ==
    ASSUME NEW n \in Nat, NEW S, NEW f, f[0] \in S, \A i \in 1..n : f[i - 1] \in S => f[i] \in S
    PROVE  f[n] \in S
<1> DEFINE T == {k \in Nat : k <= n => f[k] \in S}
<1>1. 0 \in T
  OBVIOUS
<1>2. ASSUME NEW k \in Nat, k \in T PROVE k + 1 \in T
  <2>1. SUFFICES ASSUME k + 1 <= n PROVE f[k + 1] \in S
    OBVIOUS
  <2>2. k + 1 \in 1..n /\ (k + 1) - 1 = k /\ f[k] \in S
    BY <2>1, <1>2
  <2> QED BY <2>2
<1> HIDE DEF T
<1>3. n \in T
  BY <1>1, <1>2, Counting
<1> QED
  BY <1>3 DEF T

LEMMA FilesHaveText ==
    ASSUME NEW source \in Seq(SoundSources), source # << >>
    PROVE  Flattened(source) \in Seq(CharacterKinds) \ {<< >>}
<1> DEFINE lines == [i \in DOMAIN source |-> (IF i = 1 THEN << >> ELSE Separator) \o source[i].text]
<1>1. ASSUME NEW i \in 1..Len(source)
      PROVE  /\ source[i].text \in Seq(CharacterKinds) /\ source[i].text # << >>
             /\ (IF i = 1 THEN << >> ELSE Separator) \o source[i].text \in Seq(CharacterKinds)
  <2>1. source[i] \in SourceBlocks
    BY DEF SoundSources
  <2>2. source[i].text \in Seq(CharacterKinds) /\ source[i].text # << >>
    BY <2>1 DEF SourceBlocks
  <2>3. PICK text \in Seq(CharacterKinds) : text = source[i].text
    BY <2>2
  <2>4. << >> \o text \in Seq(CharacterKinds) /\ Separator \o text \in Seq(CharacterKinds)
    BY DEF Separator, CharacterKinds
  <2> QED BY <2>2, <2>3, <2>4
<1>2. lines = [i \in 1..Len(source) |-> (IF i = 1 THEN << >> ELSE Separator) \o source[i].text]
  OBVIOUS
<1>3. lines \in Seq(Seq(CharacterKinds)) /\ Len(lines) = Len(source)
  <2> HIDE DEF lines
  <2> QED BY <1>1, <1>2
<1>4. 1 \in 1..Len(lines) /\ 1 \in 1..Len(lines[1])
  <2>1. 1 \in 1..Len(source)
    OBVIOUS
  <2>2. PICK text \in Seq(CharacterKinds) : text = source[1].text /\ text # << >>
    BY <1>1, <2>1
  <2>3. lines[1] = << >> \o text
    BY <1>2, <2>1, <2>2
  <2>4. lines[1] = text /\ Len(text) >= 1
    BY <2>2, <2>3
  <2> HIDE DEF lines
  <2> QED BY <2>1, <2>4, <1>3
<1> HIDE DEF lines
<1>5. FlattenSeq(lines) \in Seq(CharacterKinds)
  BY <1>3, FlattenTyped
<1>6. FlattenSeq(lines) # << >>
  <2>1. PICK k \in 1..Len(FlattenSeq(lines)) : TRUE
    BY <1>3, <1>4, FlattenHolds
  <2> QED BY <2>1
<1>7. Flattened(source) = FlattenSeq(lines)
  BY DEF Flattened, lines
<1> QED
  BY <1>5, <1>6, <1>7

LEMMA NothingIsParsed ==
    ASSUME NEW title \in Seq(Headings)
    PROVE  Unparsed(title) \in Parses
BY DEF Unparsed, Parses

(* A file without paragraphs gets one of its whole text.                      *)
LEMMA FallbacksAreParses ==
    ASSUME NEW parse \in Parses, NEW source \in Seq(SoundSources), source # << >>, NEW format
    PROVE  WithFallback(parse, source, format) \in Parses
<1>1. [parse EXCEPT !.source_index = 0] \in Parses
  BY DEF Parses
<1>2. EnsureSection([parse EXCEPT !.source_index = 0], format) \in Parses
  BY <1>1, SectionsAreEnsured
<1>3. "paragraph" \in ContentTypes /\ 0 \in Nat
  BY DEF ContentTypes
<1>4. AddParagraph(EnsureSection([parse EXCEPT !.source_index = 0], format), "paragraph", Flattened(source), 0)
        \in Parses
  BY <1>2, <1>3, FilesHaveText, ParagraphsAreAdded
<1> QED
  BY <1>4 DEF WithFallback

LEMMA SectionsAreParsed ==
    ASSUME NEW source \in Seq(SoundSources), source # << >>, NEW format, NEW title \in Seq(Headings)
    PROVE  SectionedElements(format, source, title) \in Seq(PlacedBlocks)
<1> DEFINE parse[i \in 0..Len(source)] ==
             IF i = 0 THEN Unparsed(title) ELSE ParseBlock(parse[i - 1], source[i], format)
           turn == [x \in (1..Len(source)) \X Parses |-> ParseBlock(x[2], source[x[1]], format)]
<1>1. Len(source) \in Nat /\ \A i \in 1..Len(source) : source[i] \in SoundSources /\ i - 1 \in 0..Len(source)
  OBVIOUS
<1>2. turn \in [(1..Len(source)) \X Parses -> Parses]
  BY <1>1, BlocksAreParsed
<1>3. PICK f : f \in [0..Len(source) -> Parses] /\ Iterates(f, Len(source), Unparsed(title), turn)
  <2> HIDE DEF turn
  <2> QED BY <1>1, <1>2, NothingIsParsed, LoopsCompute
<1>4. f = [i \in 0..Len(source) |-> IF i = 0 THEN Unparsed(title) ELSE ParseBlock(f[i - 1], source[i], format)]
  <2>1. f[0] = Unparsed(title)
    BY <1>3 DEF Iterates
  <2>2. ASSUME NEW i \in 1..Len(source) PROVE f[i] = ParseBlock(f[i - 1], source[i], format)
    <3>1. f[i - 1] \in Parses
      BY <1>1, <1>3
    <3>2. f[i] = turn[<<i, f[i - 1]>>]
      BY <1>3 DEF Iterates
    <3> QED BY <3>1, <3>2
  <2> QED BY <1>3, <2>1, <2>2
<1>5. parse = [i \in 0..Len(source) |-> IF i = 0 THEN Unparsed(title) ELSE ParseBlock(parse[i - 1], source[i], format)]
  BY <1>4
<1>6. SectionedElements(format, source, title) =
        WithFallback(parse[Len(source)], source, format).elements
          \o WithFallback(parse[Len(source)], source, format).tables
  BY DEF SectionedElements
<1> HIDE DEF parse, turn
<1>7. parse[Len(source)] \in Parses
  <2>1. parse[0] \in Parses
    BY <1>1, <1>5, NothingIsParsed
  <2>2. ASSUME NEW i \in 1..Len(source), parse[i - 1] \in Parses PROVE parse[i] \in Parses
    <3>1. parse[i] = ParseBlock(parse[i - 1], source[i], format)
      BY <1>1, <1>5
    <3> QED BY <3>1, <2>2, <1>1, BlocksAreParsed
  <2> QED BY <1>1, <2>1, <2>2, LoopsStayIn
<1>8. WithFallback(parse[Len(source)], source, format) \in Parses
  BY <1>7, FallbacksAreParses
<1> QED
  BY <1>6, <1>8 DEF Parses

BlockTexts == Seq(CharacterKinds) \ {<< >>}
Builds == [heading : Seq(Headings), paragraphs : Seq(BlockTexts), sections : Nat, elements : Seq(PlacedBlocks)]

(* TXT and PDF number their sections: the same for their builds.              *)
LEMMA SectionsAreFlushed ==
    ASSUME NEW built \in Builds
    PROVE  FlushSection(built) \in Builds
<1> DEFINE path == Titles(built.heading)
           headings == [i \in DOMAIN built.heading |->
                          Element(built.sections, Block("section", path, built.heading[i].text))]
           paragraphs == [i \in DOMAIN built.paragraphs |->
                            Element(i - 1, Block("paragraph", path, built.paragraphs[i]))]
<1>1. /\ built.heading \in Seq(Headings)
      /\ built.paragraphs \in Seq(BlockTexts) /\ built.sections \in Nat /\ built.elements \in Seq(PlacedBlocks)
  BY DEF Builds
<1>2. path \in Seq(Names)
  BY <1>1, TitlesAreNames
<1>3. {"paragraph", "section"} \subseteq ContentTypes
  BY DEF ContentTypes
<1> HIDE DEF path
<1>4. headings \in Seq(PlacedBlocks)
  <2>1. ASSUME NEW i \in 1..Len(built.heading)
        PROVE  Element(built.sections, Block("section", path, built.heading[i].text)) \in PlacedBlocks
    <3>1. built.heading[i] \in Headings
      BY <1>1
    <3>2. built.heading[i].text \in Seq(CharacterKinds) \ {<< >>}
      BY <3>1 DEF Headings
    <3>3. Block("section", path, built.heading[i].text) \in ChunkBlocks
      BY <3>2, <1>2, <1>3, PlainBlocks
    <3> QED BY <3>3, <1>1 DEF Element, PlacedBlocks
  <2>2. PICK f : f = [i \in 1..Len(built.heading) |->
                       Element(built.sections, Block("section", path, built.heading[i].text))]
    OBVIOUS
  <2>3. headings = f
    BY <1>1, <2>2, LenProperties
  <2>4. \A i \in 1..Len(built.heading) : f[i] \in PlacedBlocks
    BY <2>1, <2>2
  <2>5. f \in Seq(PlacedBlocks)
    <3> HIDE DEF headings, paragraphs
    <3>1. PICK n \in Nat : n = Len(built.heading)
      BY <1>1, LenProperties
    <3>2. f \in [1..n -> PlacedBlocks]
      BY <2>2, <2>4, <3>1
    <3> QED BY <3>2
  <2> QED BY <2>3, <2>5
<1>5. ASSUME NEW i \in 1..Len(built.paragraphs)
      PROVE  Element(i - 1, Block("paragraph", path, built.paragraphs[i])) \in PlacedBlocks
  <2>1. built.paragraphs[i] \in BlockTexts /\ i - 1 \in Nat
    BY <1>1
  <2>2. Block("paragraph", path, built.paragraphs[i]) \in ChunkBlocks
    BY <2>1, <1>2, <1>3, PlainBlocks DEF BlockTexts
  <2> QED BY <2>1, <2>2 DEF Element, PlacedBlocks
<1>6. paragraphs \in Seq(PlacedBlocks)
  <2>1. paragraphs = [i \in 1..Len(built.paragraphs) |->
                        Element(i - 1, Block("paragraph", path, built.paragraphs[i]))]
    <3> HIDE DEF headings
    <3> QED BY <1>1
  <2> HIDE DEF paragraphs, headings
  <2> QED BY <2>1, <1>1, <1>5
<1>7. \/ FlushSection(built) = built
      \/ FlushSection(built) = [built EXCEPT !.elements = @ \o headings \o paragraphs,
                                             !.sections = @ + 1,
                                             !.paragraphs = << >>]
  BY DEF FlushSection, path
<1> HIDE DEF headings, paragraphs
<1>8. PICK elements \in Seq(PlacedBlocks) : elements = built.elements \o headings \o paragraphs
  <2>1. PICK e \in Seq(PlacedBlocks) : e = built.elements
    BY <1>1
  <2>2. PICK p \in Seq(PlacedBlocks) : p = paragraphs
    BY <1>6
  <2>3. PICK h \in Seq(PlacedBlocks) : h = headings
    BY <1>4
  <2>4. e \o h \o p \in Seq(PlacedBlocks)
    OBVIOUS
  <2> QED BY <2>1, <2>2, <2>3, <2>4
<1>9. PICK k \in Nat : k = built.sections + 1
  BY <1>1
<1>10. << >> \in Seq(BlockTexts)
  OBVIOUS
<1>11. [built EXCEPT !.elements = elements, !.sections = k, !.paragraphs = << >>] \in Builds
  BY <1>10 DEF Builds
<1> QED
  BY <1>7, <1>8, <1>9, <1>11

LEMMA SectionsAreBuilt ==
    ASSUME NEW built \in Builds, NEW b \in SoundSources
    PROVE  BuildSections(built, b) \in Builds
<1>1. b \in Headings /\ b.text \in BlockTexts
  BY DEF SoundSources, SourceBlocks, Headings, Names, BlockTexts
<1>2. [FlushSection(built) EXCEPT !.heading = <<b>>] \in Builds
  <2>1. PICK heading \in Seq(Headings) : heading = <<b>>
    <3>1. PICK h \in Headings : h = b
      BY <1>1
    <3>2. <<h>> \in Seq(Headings)
      OBVIOUS
    <3> QED BY <3>1, <3>2
  <2>2. FlushSection(built) \in Builds
    BY SectionsAreFlushed
  <2>3. [FlushSection(built) EXCEPT !.heading = heading] \in Builds
    BY <2>2 DEF Builds
  <2> QED BY <2>1, <2>3
<1>3. built.paragraphs \in Seq(BlockTexts)
  BY DEF Builds
<1>4. Append(built.paragraphs, b.text) \in Seq(BlockTexts)
  BY <1>1, <1>3, AppendProperties
<1>5. [built EXCEPT !.paragraphs = Append(@, b.text)] \in Builds
  BY <1>4 DEF Builds
<1> QED
  BY <1>2, <1>5 DEF BuildSections

LEMMA NumbersAreGiven ==
    ASSUME NEW source \in Seq(SoundSources), NEW heading \in Seq(Headings)
    PROVE  NumberedElements(source, heading) \in Seq(PlacedBlocks)
<1> DEFINE built[i \in 0..Len(source)] == IF i = 0 THEN Unbuilt(heading) ELSE BuildSections(built[i - 1], source[i])
           turn == [x \in (1..Len(source)) \X Builds |-> BuildSections(x[2], source[x[1]])]
<1>1. Len(source) \in Nat /\ \A i \in 1..Len(source) : source[i] \in SoundSources /\ i - 1 \in 0..Len(source)
  OBVIOUS
<1>2. turn \in [(1..Len(source)) \X Builds -> Builds]
  BY <1>1, SectionsAreBuilt
<1>3. Unbuilt(heading) \in Builds
  BY DEF Unbuilt, Builds
<1>4. PICK f : f \in [0..Len(source) -> Builds] /\ Iterates(f, Len(source), Unbuilt(heading), turn)
  <2> HIDE DEF turn
  <2> QED BY <1>1, <1>2, <1>3, LoopsCompute
<1>5. f = [i \in 0..Len(source) |-> IF i = 0 THEN Unbuilt(heading) ELSE BuildSections(f[i - 1], source[i])]
  <2>1. f[0] = Unbuilt(heading)
    BY <1>4 DEF Iterates
  <2>2. ASSUME NEW i \in 1..Len(source) PROVE f[i] = BuildSections(f[i - 1], source[i])
    <3>1. f[i - 1] \in Builds
      BY <1>1, <1>4
    <3>2. f[i] = turn[<<i, f[i - 1]>>]
      BY <1>4 DEF Iterates
    <3> QED BY <3>1, <3>2
  <2> QED BY <1>4, <2>1, <2>2
<1>6. built = [i \in 0..Len(source) |-> IF i = 0 THEN Unbuilt(heading) ELSE BuildSections(built[i - 1], source[i])]
  BY <1>5
<1>7. NumberedElements(source, heading) = FlushSection(built[Len(source)]).elements
  BY DEF NumberedElements
<1> HIDE DEF built, turn
<1>8. built[Len(source)] \in Builds
  <2>1. built[0] \in Builds
    BY <1>1, <1>3, <1>6
  <2>2. ASSUME NEW i \in 1..Len(source), built[i - 1] \in Builds PROVE built[i] \in Builds
    <3>1. built[i] = BuildSections(built[i - 1], source[i])
      BY <1>1, <1>6
    <3> QED BY <3>1, <2>2, <1>1, SectionsAreBuilt
  <2> QED BY <1>1, <2>1, <2>2, LoopsStayIn
<1> QED
  BY <1>7, <1>8, SectionsAreFlushed DEF Builds

(* Every file has its elements, whatever its format.                          *)
LEMMA FilesHaveElements ==
    ASSUME NEW d \in Documents
    PROVE  TitleOf(d) \in Seq(Headings) /\ ElementsOf(d) \in Seq(PlacedBlocks)
<1>1. d.source \in Seq(SoundSources) /\ d.source # << >>
  <2>1. d.source \in Seq(SourceBlocks) /\ d.source # << >> /\ \A i \in 1..Len(d.source) : HasTableText(d.source[i])
    BY DocumentsAssumption
  <2> QED BY <2>1 DEF SoundSources
<1>2. PICK title : title = TitleOf(d)
  OBVIOUS
<1>3. title \in Seq(Headings)
  <2>1. SourceBlocks \subseteq Headings
    BY DEF SourceBlocks, Headings, Names
  <2>2. ASSUME NEW s \in Seq(SourceBlocks) PROVE s \in Seq(Headings)
    BY <2>1
  <2>3. d.source \in Seq(SourceBlocks) /\ d.given \in Seq(SourceBlocks) /\ d.filename \in Seq(SourceBlocks)
    BY DocumentsAssumption
  <2> QED BY <1>2, <2>2, <2>3, TitlesAreFound DEF TitleOf
<1>4. FirstHeading(d.format, title) \in Seq(Headings)
  <2>1. <<"word">> \in Seq(CharacterKinds) \ {<< >>} /\ "Page 1" \in Names
    BY DEF CharacterKinds, Names
  <2>2. PICK h \in Headings : h = Heading(1, "Page 1", <<"word">>)
    BY <2>1, HeadingsAreMade
  <2>3. <<h>> \in Seq(Headings)
    OBVIOUS
  <2> QED BY <1>3, <2>2, <2>3 DEF FirstHeading
<1>5. Elements(d.format, d.source, title) \in Seq(PlacedBlocks)
  BY <1>1, <1>3, <1>4, SectionsAreParsed, NumbersAreGiven DEF Elements
<1> QED
  BY <1>2, <1>3, <1>5 DEF ElementsOf

-----------------------------------------------------------------------------
(* Sorting by place loses no element: the ranks of the elements are 1 to n.   *)
LEMMA BlocksAreSorted ==
    ASSUME NEW elements \in Seq(PlacedBlocks)
    PROVE  SourceOrder(elements) \in Seq(ChunkBlocks)
<1> DEFINE order == [i \in 1..Len(elements) |-> elements[i].order]
           Before(i, j) == order[i] < order[j] \/ (order[i] = order[j] /\ i < j)
           Below(i) == {j \in 1..Len(elements) : Before(j, i)}
           rank == [i \in 1..Len(elements) |-> Cardinality(Below(i)) + 1]
           Rank(i) == Cardinality({j \in DOMAIN elements :
                                     \/ elements[j].order < elements[i].order
                                     \/ elements[j].order = elements[i].order /\ j < i}) + 1
<1>0. SourceOrder(elements)
        = [n \in DOMAIN elements |-> elements[CHOOSE i \in DOMAIN elements : Rank(i) = n].block]
  BY Zenon DEF SourceOrder
<1>1. /\ DOMAIN elements = 1..Len(elements) /\ Len(elements) \in Nat
      /\ \A i \in 1..Len(elements) : elements[i].order \in Nat /\ elements[i].block \in ChunkBlocks
  <2>1. \A i \in 1..Len(elements) : elements[i] \in PlacedBlocks
    OBVIOUS
  <2> QED BY <2>1 DEF PlacedBlocks
<1>2. ASSUME NEW i \in 1..Len(elements) PROVE Rank(i) = rank[i]
  <2>1. PICK A : A = {j \in DOMAIN elements : \/ elements[j].order < elements[i].order
                                              \/ elements[j].order = elements[i].order /\ j < i}
    OBVIOUS
  <2>2. PICK B : B = Below(i)
    OBVIOUS
  <2>3. ASSUME NEW j PROVE j \in A <=> j \in B
    BY <1>1, <2>1, <2>2
  <2>4. A = B
    BY <2>3
  <2>5. rank[i] = Cardinality(Below(i)) + 1
    BY Zenon
  <2>6. Rank(i) = Cardinality(A) + 1
    BY <2>1, Zenon
  <2> HIDE DEF Below, Rank, rank
  <2> QED BY <2>2, <2>4, <2>5, <2>6, Zenon
<1>3. order \in [1..Len(elements) -> Nat]
  BY <1>1
<1>4. IsFiniteSet(1..Len(elements)) /\ Cardinality(1..Len(elements)) = Len(elements)
  BY <1>1, FS_Interval
<1> HIDE DEF order, Rank
<1>5. ASSUME NEW i \in 1..Len(elements)
      PROVE  IsFiniteSet(Below(i)) /\ Cardinality(Below(i)) \in 0..(Len(elements) - 1)
  <2>1. Below(i) \subseteq 1..Len(elements) /\ i \notin Below(i)
    BY <1>3
  <2>2. Below(i) # 1..Len(elements)
    BY <2>1
  <2> HIDE DEF Below
  <2>3. IsFiniteSet(Below(i)) /\ Cardinality(Below(i)) <= Len(elements) /\ Cardinality(Below(i)) # Len(elements)
    BY <1>4, <2>1, <2>2, FS_Subset
  <2>4. Cardinality(Below(i)) \in Nat
    BY <2>3, FS_CardinalityType
  <2> QED BY <1>1, <2>3, <2>4
<1>6. ASSUME NEW i \in 1..Len(elements), NEW j \in 1..Len(elements), Before(i, j)
      PROVE  Cardinality(Below(i)) < Cardinality(Below(j))
  <2>1. Below(i) \subseteq Below(j)
    BY <1>3, <1>6
  <2>2. i \in Below(j) /\ i \notin Below(i)
    BY <1>3, <1>6
  <2> HIDE DEF Below
  <2>3. Cardinality(Below(i)) <= Cardinality(Below(j)) /\ Cardinality(Below(i)) # Cardinality(Below(j))
    BY <1>5, <2>1, <2>2, FS_Subset
  <2> QED BY <2>3, <1>5
<1>7. ASSUME NEW i \in 1..Len(elements), NEW j \in 1..Len(elements), rank[i] = rank[j] PROVE i = j
  <2>1. Cardinality(Below(i)) = Cardinality(Below(j))
    <3>1. rank[i] = Cardinality(Below(i)) + 1 /\ rank[j] = Cardinality(Below(j)) + 1
      BY Zenon
    <3>2. PICK m : m = Cardinality(Below(i))
      OBVIOUS
    <3>3. PICK n : n = Cardinality(Below(j))
      OBVIOUS
    <3>4. m + 1 = n + 1
      BY <1>7, <3>1, <3>2, <3>3, Zenon
    <3>5. m \in 0..(Len(elements) - 1) /\ n \in 0..(Len(elements) - 1)
      BY <1>5, <3>2, <3>3, Zenon
    <3>6. m = n
      BY <1>1, <3>4, <3>5
    <3> QED BY <3>2, <3>3, <3>6, Zenon
  <2>2. ~ Before(i, j) /\ ~ Before(j, i)
    <3> HIDE DEF Below, Before
    <3>1. Before(i, j) => Cardinality(Below(i)) < Cardinality(Below(j))
      BY <1>6
    <3>2. Before(j, i) => Cardinality(Below(j)) < Cardinality(Below(i))
      BY <1>6
    <3> QED BY <3>1, <3>2, <2>1, <1>5
  <2> QED BY <2>2, <1>3
<1>8. rank \in [1..Len(elements) -> 1..Len(elements)]
  <2> HIDE DEF Below
  <2> QED BY <1>5, <1>1
<1> HIDE DEF rank
<1>9. rank \in Injection(1..Len(elements), 1..Len(elements))
  BY <1>7, <1>8 DEF Injection, IsInjective
<1>10. rank \in Surjection(1..Len(elements), 1..Len(elements))
  BY <1>4, <1>9, FS_Injection
<1>11. ASSUME NEW n \in 1..Len(elements)
       PROVE  (CHOOSE i \in DOMAIN elements : Rank(i) = n) \in 1..Len(elements)
  <2>1. \E i \in DOMAIN elements : Rank(i) = n
    BY <1>1, <1>2, <1>10 DEF Surjection
  <2> QED BY <2>1, <1>1
<1>12. ASSUME NEW n \in 1..Len(elements)
       PROVE  elements[CHOOSE i \in DOMAIN elements : Rank(i) = n].block \in ChunkBlocks
  BY <1>11, <1>1
<1> QED
  BY <1>0, <1>1, <1>12

(* The blocks of a file are its elements, some headings excepted, in order,   *)
(* and its title.                                                             *)
LEMMA BlocksAreFound ==
    ASSUME NEW elements \in Seq(PlacedBlocks), NEW title \in Seq(Headings), NEW settings
    PROVE  CanonicalBlocks(elements, title, settings) \in Seq(ChunkBlocks)
<1> DEFINE kept == [i \in DOMAIN elements |-> Included(elements[i], settings)]
<1>1. kept \in Seq(Seq(PlacedBlocks))
  <2>1. ASSUME NEW i \in 1..Len(elements) PROVE Included(elements[i], settings) \in Seq(PlacedBlocks)
    <3>1. PICK e \in PlacedBlocks : e = elements[i]
      OBVIOUS
    <3>2. << >> \in Seq(PlacedBlocks) /\ <<e>> \in Seq(PlacedBlocks)
      OBVIOUS
    <3> QED BY <3>1, <3>2 DEF Included
  <2>2. kept = [i \in 1..Len(elements) |-> Included(elements[i], settings)]
    OBVIOUS
  <2> HIDE DEF kept
  <2> QED BY <2>1, <2>2
<1> HIDE DEF kept
<1>2. PICK sorted \in Seq(ChunkBlocks) : sorted = SourceOrder(FlattenSeq(kept))
  BY <1>1, FlattenTyped, BlocksAreSorted
<1>3. PICK first \in Seq(ChunkBlocks) : first = TitleBlock(title, settings)
  <2>1. << >> \in Seq(ChunkBlocks)
    OBVIOUS
  <2>2. ASSUME title # << >>
        PROVE  <<Block("section", <<title[1].title>>, title[1].text)>> \in Seq(ChunkBlocks)
    <3>1. title[1] \in Headings
      BY <2>2
    <3>2. PICK name \in Names : name = title[1].title
      BY <3>1 DEF Headings
    <3>3. title[1].text \in Seq(CharacterKinds) \ {<< >>} /\ "section" \in ContentTypes
      BY <3>1 DEF Headings, ContentTypes
    <3>4. <<name>> \in Seq(Names)
      OBVIOUS
    <3>5. PICK b \in ChunkBlocks : b = Block("section", <<name>>, title[1].text)
      BY <3>3, <3>4, PlainBlocks
    <3>6. <<b>> \in Seq(ChunkBlocks)
      OBVIOUS
    <3> QED BY <3>2, <3>5, <3>6
  <2> QED BY <2>1, <2>2 DEF TitleBlock
<1>4. CanonicalBlocks(elements, title, settings) = first \o sorted
  BY <1>2, <1>3 DEF CanonicalBlocks, kept
<1> QED
  BY <1>2, <1>3, <1>4

-----------------------------------------------------------------------------
(* Recursion upwards: f[i] is computed from f[next[i]], where next[i] > i.    *)
Recurs(f, a, n, base, next, step) ==
    /\ f[n] = base
    /\ \A i \in a..(n - 1) : f[i] = step[<<i, f[next[i]]>>]

(* Such a recursion computes a value, and what it is shown for counting down  *)
(* holds of every index.                                                      *)
LEMMA RecursionsCompute ==
    ASSUME NEW S, NEW base \in S, NEW a \in Nat, NEW n \in Nat, a <= n,
           NEW next, \A i \in a..(n - 1) : next[i] \in (i + 1)..n,
           NEW step \in [(a..(n - 1)) \X S -> S]
    PROVE  \E f \in [a..n -> S] : Recurs(f, a, n, base, next, step)
<1> DEFINE T == {k \in Nat : k <= n - a => \E f \in [(n - k)..n -> S] : Recurs(f, n - k, n, base, next, step)}
<1>1. 0 \in T
  <2>1. PICK f : f = [i \in (n - 0)..n |-> base]
    OBVIOUS
  <2>2. f \in [(n - 0)..n -> S] /\ Recurs(f, n - 0, n, base, next, step)
    BY <2>1 DEF Recurs
  <2> QED BY <2>2
<1>2. ASSUME NEW k \in Nat, k \in T, k + 1 <= n - a PROVE k + 1 \in T
  <2>1. PICK f \in [(n - k)..n -> S] : Recurs(f, n - k, n, base, next, step)
    BY <1>2
  <2>2. PICK m \in a..(n - 1) : m = n - (k + 1) /\ m + 1 = n - k
    BY <1>2
  <2>3. next[m] \in (m + 1)..n
    BY <2>2
  <2>4. f[next[m]] \in S
    BY <2>1, <2>2, <2>3
  <2>5. step[<<m, f[next[m]]>>] \in S
    BY <2>4
  <2>6. PICK g : g = [i \in m..n |-> IF i = m THEN step[<<m, f[next[m]]>>] ELSE f[i]]
    OBVIOUS
  <2>7. g \in [m..n -> S]
    BY <2>1, <2>2, <2>5, <2>6
  <2>8. g[n] = base
    BY <2>1, <2>2, <2>6 DEF Recurs
  <2>9. ASSUME NEW i \in m..(n - 1) PROVE g[i] = step[<<i, g[next[i]]>>]
    <3>1. next[i] \in (i + 1)..n
      BY <2>2
    <3>2. g[next[i]] = f[next[i]]
      BY <2>2, <2>6, <3>1
    <3>3. CASE i = m
      BY <3>2, <3>3, <2>6
    <3>4. CASE i # m
      <4>1. i \in (n - k)..(n - 1) /\ g[i] = f[i]
        BY <2>2, <2>6, <3>4
      <4> QED BY <4>1, <3>2, <2>1 DEF Recurs
    <3> QED BY <3>3, <3>4
  <2>10. Recurs(g, m, n, base, next, step)
    BY <2>8, <2>9 DEF Recurs
  <2> QED BY <2>2, <2>7, <2>10
<1>3. \A k \in Nat : k \in T => k + 1 \in T
  BY <1>2
<1> HIDE DEF T
<1>4. n - a \in T /\ n - a \in Nat
  BY <1>1, <1>3, Counting
<1>5. n - (n - a) = a
  OBVIOUS
<1> QED
  BY <1>4, <1>5 DEF T

LEMMA CountingDown ==
    ASSUME NEW a \in Nat, NEW n \in Nat, NEW T, n \in T,
           \A i \in a..(n - 1) : (\A j \in (i + 1)..n : j \in T) => i \in T
    PROVE  \A i \in a..n : i \in T
<1> DEFINE U == {k \in Nat : \A i \in a..n : i >= n - k => i \in T}
<1>1. 0 \in U
  OBVIOUS
<1>2. ASSUME NEW k \in Nat, k \in U PROVE k + 1 \in U
  <2>1. ASSUME NEW i \in a..n, i >= n - (k + 1) PROVE i \in T
    <3>1. \A j \in (i + 1)..n : j \in T
      BY <1>2, <2>1
    <3> QED BY <3>1
  <2> QED BY <2>1
<1> HIDE DEF U
<1>3. n \in U
  BY <1>1, <1>2, Counting
<1> QED
  BY <1>3 DEF U

-----------------------------------------------------------------------------
(* A text that is too long is cut in pieces that are not, and hold all of it. *)
Cuts(n, maximum) == {cut \in (0..n) \X (0..n) : cut[1] < cut[2] /\ cut[2] - cut[1] <= maximum}

(* A split ends behind its start and is no longer than maximum_size.          *)
LEMMA SplitsAdvance ==
    ASSUME NEW s, Len(s) \in Nat, NEW maximum \in Nat \ {0}, NEW from \in 0..(Len(s) - 1)
    PROVE  /\ SplitEnd(s, from, maximum) \in (from + 1)..Len(s)
           /\ <<from, SplitEnd(s, from, maximum)>> \in Cuts(Len(s), maximum)
<1> DEFINE late == {e \in WhitespaceEnds(s, from, from + maximum) :
                      e - from > (IF maximum \div 3 > 1 THEN maximum \div 3 ELSE 1)}
<1>1. late \in SUBSET ((from + 1)..(from + maximum))
  BY DEF WhitespaceEnds
<1>2. SplitEnd(s, from, maximum) =
        IF from + maximum >= Len(s) THEN Len(s) ELSE IF late # {} THEN Max(late) ELSE from + maximum
  BY DEF SplitEnd
<1> HIDE DEF late
<1>3. late # {} => Max(late) \in (from + 1)..(from + maximum)
  <2>1. late \in SUBSET Int /\ from + maximum \in Int /\ \A e \in late : e <= from + maximum
    BY <1>1
  <2> QED BY <1>1, <2>1, MaxIsGreatest
<1>4. /\ SplitEnd(s, from, maximum) \in (from + 1)..Len(s)
      /\ SplitEnd(s, from, maximum) - from <= maximum
  BY <1>2, <1>3
<1> QED
  BY <1>4 DEF Cuts

(* So the splits of a text cover it.                                          *)
LEMMA TextsAreSplit ==
    ASSUME NEW s, Len(s) \in Nat, NEW maximum \in Nat \ {0}
    PROVE  /\ SafeSplitPoints(s, maximum) \in Seq(Cuts(Len(s), maximum))
           /\ \A i \in 1..Len(s) : \E c \in 1..Len(SafeSplitPoints(s, maximum)) :
                i \in (SafeSplitPoints(s, maximum)[c][1] + 1)..SafeSplitPoints(s, maximum)[c][2]
<1> DEFINE S == Seq(Cuts(Len(s), maximum))
           next == [from \in 0..(Len(s) - 1) |-> SplitEnd(s, from, maximum)]
           step == [x \in (0..(Len(s) - 1)) \X S |-> <<<<x[1], SplitEnd(s, x[1], maximum)>>>> \o x[2]]
           cuts[from \in 0..Len(s)] ==
             IF from = Len(s) THEN << >>
             ELSE <<<<from, SplitEnd(s, from, maximum)>>>> \o cuts[SplitEnd(s, from, maximum)]
<1>1. \A i \in 0..(Len(s) - 1) : next[i] = SplitEnd(s, i, maximum) /\ next[i] \in (i + 1)..Len(s)
  BY SplitsAdvance
<1>2. step \in [(0..(Len(s) - 1)) \X S -> S]
  <2>1. ASSUME NEW x \in (0..(Len(s) - 1)) \X S
        PROVE  <<<<x[1], SplitEnd(s, x[1], maximum)>>>> \o x[2] \in S
    <3>1. PICK cut \in Cuts(Len(s), maximum) : cut = <<x[1], SplitEnd(s, x[1], maximum)>>
      BY SplitsAdvance
    <3>2. <<cut>> \in S /\ x[2] \in S
      OBVIOUS
    <3> QED BY <3>1, <3>2
  <2> QED BY <2>1
<1>3. << >> \in S
  OBVIOUS
<1>4. PICK f : f \in [0..Len(s) -> S] /\ Recurs(f, 0, Len(s), << >>, next, step)
  <2> HIDE DEF S, next, step
  <2>1. 0 \in Nat /\ 0 <= Len(s)
    OBVIOUS
  <2> QED BY <1>1, <1>2, <1>3, <2>1, RecursionsCompute
<1>5. ASSUME NEW i \in 0..(Len(s) - 1)
      PROVE  f[i] = <<<<i, SplitEnd(s, i, maximum)>>>> \o f[SplitEnd(s, i, maximum)]
  <2>1. f[next[i]] \in S
    <3> HIDE DEF S, next
    <3> QED BY <1>1, <1>4
  <2>2. f[i] = step[<<i, f[next[i]]>>]
    BY <1>4 DEF Recurs
  <2>3. step[<<i, f[next[i]]>>] = <<<<i, SplitEnd(s, i, maximum)>>>> \o f[next[i]]
    <3> HIDE DEF S, next
    <3> QED BY <2>1
  <2> QED BY <2>2, <2>3, <1>1
<1>6. f = [from \in 0..Len(s) |->
             IF from = Len(s) THEN << >>
             ELSE <<<<from, SplitEnd(s, from, maximum)>>>> \o f[SplitEnd(s, from, maximum)]]
  <2>1. f[Len(s)] = << >>
    BY <1>4 DEF Recurs
  <2> HIDE DEF S
  <2> QED BY <1>4, <1>5, <2>1
<1>7. cuts = [from \in 0..Len(s) |->
                IF from = Len(s) THEN << >>
                ELSE <<<<from, SplitEnd(s, from, maximum)>>>> \o cuts[SplitEnd(s, from, maximum)]]
  BY <1>6
<1>8. SafeSplitPoints(s, maximum) = cuts[0]
  BY DEF SafeSplitPoints
<1> HIDE DEF cuts, next, step, S
<1> DEFINE Sound(from) ==
             /\ cuts[from] \in S
             /\ \A i \in (from + 1)..Len(s) : \E c \in 1..Len(cuts[from]) :
                  i \in (cuts[from][c][1] + 1)..cuts[from][c][2]
           T == {from \in 0..Len(s) : Sound(from)}
<1>9. Len(s) \in T
  <2>1. cuts[Len(s)] = << >>
    BY <1>7
  <2> QED BY <2>1, <1>3
<1>10. ASSUME NEW from \in 0..(Len(s) - 1), \A j \in (from + 1)..Len(s) : j \in T PROVE from \in T
  <2>1. PICK to : to = SplitEnd(s, from, maximum) /\ to \in (from + 1)..Len(s) /\ <<from, to>> \in Cuts(Len(s), maximum)
    BY SplitsAdvance
  <2>2. PICK rest : rest = cuts[to] /\ rest \in Seq(Cuts(Len(s), maximum)) /\ \A i \in (to + 1)..Len(s) :
          \E c \in 1..Len(rest) : i \in (rest[c][1] + 1)..rest[c][2]
    BY <1>10, <2>1 DEF S
  <2>3. cuts[from] = <<<<from, to>>>> \o rest
    <3>1. from \in 0..Len(s) /\ from # Len(s)
      OBVIOUS
    <3>2. cuts[from] = <<<<from, SplitEnd(s, from, maximum)>>>> \o cuts[SplitEnd(s, from, maximum)]
      BY <3>1, <1>7, Zenon
    <3> QED BY <3>2, <2>1, <2>2, Zenon
  <2>4. PICK first : first = <<<<from, to>>>> /\ first \in Seq(Cuts(Len(s), maximum)) /\ Len(first) = 1 /\ first[1] = <<from, to>>
    <3>1. PICK cut \in Cuts(Len(s), maximum) : cut = <<from, to>>
      BY <2>1
    <3>2. <<cut>> \in Seq(Cuts(Len(s), maximum)) /\ Len(<<cut>>) = 1 /\ <<cut>>[1] = cut
      OBVIOUS
    <3>3. <<cut>> = <<<<from, to>>>>
      BY <3>1
    <3> QED BY <3>1, <3>2, <3>3, Zenon
  <2>5. PICK all : all = first \o rest /\ all \in Seq(Cuts(Len(s), maximum)) /\ Len(all) = 1 + Len(rest)
                   /\ all[1] = <<from, to>> /\ \A c \in 1..Len(rest) : all[1 + c] = rest[c]
    <3>1. 1 \in 1..Len(first)
      BY <2>4
    <3>2. PICK h : h = first \o rest
      OBVIOUS
    <3>3. /\ h \in Seq(Cuts(Len(s), maximum)) /\ Len(h) = Len(first) + Len(rest)
          /\ \A i \in 1..Len(first) : h[i] = first[i]
          /\ \A i \in 1..Len(rest) : h[Len(first) + i] = rest[i]
      BY <2>2, <2>4, <3>2, Concatenated
    <3>4. h[1] = <<from, to>>
      BY <2>4, <3>1, <3>3
    <3> QED BY <2>4, <3>2, <3>3, <3>4, Zenon
  <2>6. ASSUME NEW i \in (from + 1)..Len(s) PROVE \E c \in 1..Len(all) : i \in (all[c][1] + 1)..all[c][2]
    <3>1. Len(rest) \in Nat /\ 1 \in 1..Len(all) /\ \A c \in 1..Len(rest) : 1 + c \in 1..Len(all)
      BY <2>2, <2>5
    <3>2. CASE i <= to
      <4>1. i \in (from + 1)..to /\ all[1][1] = from /\ all[1][2] = to
        BY <3>2, <2>1, <2>5
      <4> QED BY <4>1, <3>1
    <3>3. CASE i > to
      <4>1. i \in (to + 1)..Len(s)
        BY <3>3, <2>1
      <4>2. PICK c \in 1..Len(rest) : i \in (rest[c][1] + 1)..rest[c][2]
        BY <4>1, <2>2
      <4> QED BY <4>2, <2>5, <3>1
    <3> QED BY <3>2, <3>3, <2>1
  <2>7. cuts[from] = all
    BY <2>3, <2>4, <2>5
  <2>8. cuts[from] \in S
    BY <2>5, <2>7 DEF S
  <2>9. Sound(from)
    BY <2>6, <2>7, <2>8, Zenon
  <2>10. from \in 0..Len(s)
    OBVIOUS
  <2> HIDE DEF Sound
  <2> QED BY <2>9, <2>10
<1> HIDE DEF T, Sound
<1>11. Len(s) \in Nat /\ 0 \in Nat /\ 0 \in 0..Len(s)
  OBVIOUS
<1>12. 0 \in T
  BY <1>9, <1>10, <1>11, CountingDown
<1> QED
  BY <1>8, <1>12 DEF T, Sound, S

-----------------------------------------------------------------------------
(* The rows of a table lie behind its header, one after the other.            *)
LEMMA RowsEnd ==
    ASSUME NEW block \in ChunkBlocks
    PROVE  /\ \A r \in 0..Len(block.rows) : RowEnd(block, r) \in Nat
           /\ RowEnd(block, 0) = block.prefix
           /\ \A r \in 1..Len(block.rows) :
                RowEnd(block, r) = RowEnd(block, r - 1) + block.rows[r] + (IF r = 1 /\ block.prefix = 0 THEN 0 ELSE 1)
<1> DEFINE end[n \in 0..Len(block.rows)] ==
             IF n = 0 THEN block.prefix
             ELSE end[n - 1] + block.rows[n] + (IF n = 1 /\ block.prefix = 0 THEN 0 ELSE 1)
           step == [x \in (1..Len(block.rows)) \X Nat |->
                      x[2] + block.rows[x[1]] + (IF x[1] = 1 /\ block.prefix = 0 THEN 0 ELSE 1)]
<1>1. block.prefix \in Nat /\ Len(block.rows) \in Nat /\ \A r \in 1..Len(block.rows) : block.rows[r] \in Nat
  BY DEF ChunkBlocks
<1>2. step \in [(1..Len(block.rows)) \X Nat -> Nat]
  BY <1>1
<1>3. PICK f : f \in [0..Len(block.rows) -> Nat] /\ Iterates(f, Len(block.rows), block.prefix, step)
  <2> HIDE DEF step
  <2> QED BY <1>1, <1>2, LoopsCompute
<1>4. ASSUME NEW n \in 1..Len(block.rows)
      PROVE  f[n] = f[n - 1] + block.rows[n] + (IF n = 1 /\ block.prefix = 0 THEN 0 ELSE 1)
  <2>1. f[n - 1] \in Nat
    BY <1>1, <1>3
  <2>2. f[n] = step[<<n, f[n - 1]>>]
    BY <1>3 DEF Iterates
  <2> QED BY <2>1, <2>2
<1>5. f[0] = block.prefix
  BY <1>3 DEF Iterates
<1>6. f = [n \in 0..Len(block.rows) |->
             IF n = 0 THEN block.prefix
             ELSE f[n - 1] + block.rows[n] + (IF n = 1 /\ block.prefix = 0 THEN 0 ELSE 1)]
  <2> HIDE DEF step
  <2> QED BY <1>1, <1>3, <1>4, <1>5
<1>7. end = [n \in 0..Len(block.rows) |->
               IF n = 0 THEN block.prefix
               ELSE end[n - 1] + block.rows[n] + (IF n = 1 /\ block.prefix = 0 THEN 0 ELSE 1)]
  BY <1>6
<1>8. \A r : RowEnd(block, r) = end[r]
  BY Zenon DEF RowEnd
<1> HIDE DEF end, step
<1>9. end[0] = block.prefix /\ \A n \in 1..Len(block.rows) :
        end[n] = end[n - 1] + block.rows[n] + (IF n = 1 /\ block.prefix = 0 THEN 0 ELSE 1)
  <2>1. 0 \in 0..Len(block.rows)
    BY <1>1
  <2>2. end[0] = block.prefix
    BY <2>1, <1>7, Zenon
  <2>3. ASSUME NEW n \in 1..Len(block.rows)
        PROVE  end[n] = end[n - 1] + block.rows[n] + (IF n = 1 /\ block.prefix = 0 THEN 0 ELSE 1)
    <3>1. n \in 0..Len(block.rows) /\ n # 0
      BY <1>1
    <3> QED BY <3>1, <1>7, Zenon
  <2> QED BY <2>2, <2>3
<1>10. ASSUME NEW n \in 0..Len(block.rows) PROVE end[n] \in Nat
  <2>1. ASSUME NEW i \in 1..n, end[i - 1] \in Nat PROVE end[i] \in Nat
    <3>1. i \in 1..Len(block.rows)
      BY <1>1
    <3>2. end[i] = end[i - 1] + block.rows[i] + (IF i = 1 /\ block.prefix = 0 THEN 0 ELSE 1)
      BY <3>1, <1>9
    <3> QED BY <1>1, <2>1, <3>1, <3>2
  <2>2. n \in Nat /\ end[0] \in Nat
    BY <1>1, <1>9
  <2> QED BY <2>1, <2>2, LoopsStayIn
<1> QED
  BY <1>8, <1>9, <1>10

(* A row ends no later than the ones behind it.                               *)
LEMMA RowsFollow ==
    ASSUME NEW block \in ChunkBlocks, NEW first \in 0..Len(block.rows), NEW last \in first..Len(block.rows)
    PROVE  RowEnd(block, first) <= RowEnd(block, last)
<1>1. Len(block.rows) \in Nat /\ \A r \in 1..Len(block.rows) : block.rows[r] \in Nat
  BY DEF ChunkBlocks
<1> DEFINE T == {n \in Nat : first + n <= Len(block.rows) => RowEnd(block, first) <= RowEnd(block, first + n)}
<1>2. 0 \in T
  BY <1>1, RowsEnd
<1>3. ASSUME NEW n \in Nat, n \in T PROVE n + 1 \in T
  <2>1. SUFFICES ASSUME first + (n + 1) <= Len(block.rows)
                 PROVE  RowEnd(block, first) <= RowEnd(block, first + (n + 1))
    OBVIOUS
  <2>2. PICK r \in 1..Len(block.rows) : r = first + (n + 1) /\ r - 1 = first + n /\ r - 1 \in 0..Len(block.rows)
    BY <1>1, <2>1
  <2>3. RowEnd(block, r) >= RowEnd(block, r - 1)
    <3>1. RowEnd(block, r - 1) \in Nat /\ block.rows[r] \in Nat
      BY <1>1, <2>2, RowsEnd
    <3>2. RowEnd(block, r) = RowEnd(block, r - 1) + block.rows[r] + (IF r = 1 /\ block.prefix = 0 THEN 0 ELSE 1)
      BY <2>2, RowsEnd
    <3> QED BY <3>1, <3>2
  <2>4. RowEnd(block, first) <= RowEnd(block, r - 1)
    BY <1>3, <2>1, <2>2
  <2>5. RowEnd(block, first) \in Nat /\ RowEnd(block, r - 1) \in Nat /\ RowEnd(block, r) \in Nat
    BY <1>1, <2>2, RowsEnd
  <2> QED BY <2>2, <2>3, <2>4, <2>5
<1> HIDE DEF T
<1>4. last - first \in T
  <2>1. last - first \in Nat
    BY <1>1
  <2> QED BY <2>1, <1>2, <1>3, Counting
<1>5. first + (last - first) = last
  BY <1>1
<1> QED
  BY <1>1, <1>4, <1>5 DEF T

(* A place of a table lies in its header or in a row.                         *)
LEMMA PlacesLieInRows ==
    ASSUME NEW block \in ChunkBlocks, block.rows # << >>, NEW i \in 1..Len(block.text)
    PROVE  i <= block.prefix \/ \E r \in 1..Len(block.rows) : i \in (RowEnd(block, r - 1) + 1)..RowEnd(block, r)
<1>1. Len(block.rows) \in Nat /\ Len(block.text) = RowEnd(block, Len(block.rows)) /\ block.prefix \in Nat
  BY DEF ChunkBlocks, HasTableText
<1> DEFINE T == {r \in Nat : r <= Len(block.rows) /\ i <= RowEnd(block, r)}
<1>2. Len(block.rows) \in T
  BY <1>1
<1>3. PICK r \in T : \A q \in T : r <= q
  BY <1>2, LeastNumber
<1>4. CASE r = 0
  BY <1>4, <1>3, RowsEnd
<1>5. CASE r # 0
  <2>1. r \in 1..Len(block.rows) /\ r - 1 \in 0..Len(block.rows) /\ r - 1 \notin T
    BY <1>1, <1>3, <1>5
  <2>2. RowEnd(block, r - 1) \in Nat /\ RowEnd(block, r) \in Nat
    BY <1>1, <2>1, RowsEnd
  <2>3. i > RowEnd(block, r - 1) /\ i <= RowEnd(block, r)
    BY <1>1, <1>3, <2>1, <2>2
  <2> QED BY <2>1, <2>2, <2>3
<1> QED
  BY <1>4, <1>5

(* A group of rows is rendered with every character of its rows that is no    *)
(* line break.                                                                *)
LEMMA RowsAreRendered ==
    ASSUME NEW block \in ChunkBlocks, NEW first \in 1..Len(block.rows), NEW last \in first..Len(block.rows)
    PROVE  /\ Render(block, first, last) \in Seq(Nat) \ {<< >>}
           /\ \A i \in 1..Len(block.text) :
                i <= block.prefix \/ i \in (RowEnd(block, first - 1) + 1)..RowEnd(block, last) =>
                  \/ block.text[i] = "space"
                  \/ \E k \in 1..Len(Render(block, first, last)) : Render(block, first, last)[k] = i
<1>1. /\ Len(block.rows) \in Nat /\ block.prefix \in Nat
      /\ first - 1 \in 0..Len(block.rows) /\ last \in 1..Len(block.rows) /\ block.rows[first] \in Nat
  BY DEF ChunkBlocks
<1>2. PICK A \in Nat : A = RowEnd(block, first - 1)
  BY <1>1, RowsEnd
<1>3. PICK B \in Nat : B = RowEnd(block, last)
  BY <1>1, RowsEnd
<1>4. PICK p \in Nat : p = block.prefix
  BY <1>1
<1> DEFINE title == [i \in 1..block.prefix |-> i]
           rows == [i \in 1..(RowEnd(block, last) - RowEnd(block, first - 1)) |-> RowEnd(block, first - 1) + i]
           shown == IF block.prefix = 0 /\ first > 1 THEN Tail(rows) ELSE rows
<1>5. Render(block, first, last) = title \o shown
  BY Zenon DEF Render
<1>6. A <= B /\ (p = 0 => A < B) /\ (p = 0 /\ first > 1 => A + 1 < B)
  <2>1. RowEnd(block, first) \in Nat /\ RowEnd(block, first) <= B
    BY <1>1, <1>3, RowsEnd, RowsFollow
  <2>2. RowEnd(block, first) = A + block.rows[first] + (IF first = 1 /\ p = 0 THEN 0 ELSE 1)
    BY <1>1, <1>2, <1>4, RowsEnd
  <2>3. p > 0 \/ block.rows[first] > 0
    <3>1. HasTableText(block) /\ first \in DOMAIN block.rows
      BY DEF ChunkBlocks
    <3> QED BY <3>1, <1>4 DEF HasTableText
  <2> QED BY <1>1, <2>1, <2>2, <2>3
<1>7. p = 0 /\ first > 1 => block.text[A + 1] = "space"
  <2>1. HasTableText(block) /\ first \in DOMAIN block.rows
    BY DEF ChunkBlocks
  <2> QED BY <2>1, <1>2 DEF HasTableText
<1>8. PICK t \in Seq(Nat) : t = title /\ Len(t) = p /\ \A i \in 1..p : t[i] = i
  <2>1. title = [i \in 1..p |-> i]
    BY <1>4
  <2>2. [i \in 1..p |-> i] \in Seq(Nat) /\ Len([i \in 1..p |-> i]) = p
    OBVIOUS
  <2> QED BY <2>1, <2>2
<1>9. PICK r \in Seq(Nat) : r = rows /\ Len(r) = B - A /\ \A i \in 1..(B - A) : r[i] = A + i
  <2>1. PICK n \in Nat : n = B - A
    BY <1>6
  <2>2. rows = [i \in 1..n |-> A + i]
    BY <1>2, <1>3, <2>1
  <2>3. [i \in 1..n |-> A + i] \in Seq(Nat) /\ Len([i \in 1..n |-> A + i]) = n
    OBVIOUS
  <2> QED BY <2>1, <2>2, <2>3
<1> HIDE DEF title, rows, shown
<1>10. PICK s \in Seq(Nat) : /\ s = shown
                             /\ p = 0 => Len(s) > 0
                             /\ \A i \in (A + 1)..B :
                                  (p = 0 /\ first > 1 /\ i = A + 1) \/ \E k \in 1..Len(s) : s[k] = i
  <2>1. CASE p = 0 /\ first > 1
    <3>1. r # << >>
      BY <1>6, <1>9, <2>1
    <3>2. PICK q \in Seq(Nat) : q = Tail(r) /\ Len(q) = Len(r) - 1 /\ \A i \in 1..Len(q) : q[i] = r[i + 1]
      BY <3>1, HeadTailProperties
    <3>3. q = shown
      BY <1>4, <1>9, <2>1, <3>2, Zenon DEF shown
    <3>4. ASSUME NEW i \in (A + 2)..B PROVE \E k \in 1..Len(q) : q[k] = i
      <4>1. PICK k \in 1..Len(q) : k = i - A - 1
        BY <1>9, <3>2, <3>4
      <4>2. k + 1 \in 1..(B - A)
        BY <4>1
      <4>3. q[k] = r[k + 1] /\ r[k + 1] = A + (k + 1)
        BY <1>9, <3>2, <4>2
      <4>4. q[k] = i
        BY <4>1, <4>3
      <4> QED BY <4>4
    <3>5. Len(q) > 0
      BY <1>6, <1>9, <2>1, <3>2
    <3>6. \A i \in (A + 1)..B : i = A + 1 \/ i \in (A + 2)..B
      OBVIOUS
    <3> QED BY <2>1, <3>3, <3>4, <3>5, <3>6
  <2>2. CASE ~ (p = 0 /\ first > 1)
    <3>1. r = shown
      BY <1>4, <1>9, <2>2, Zenon DEF shown
    <3>2. ASSUME NEW i \in (A + 1)..B PROVE \E k \in 1..Len(r) : r[k] = i
      <4>1. PICK k \in 1..(B - A) : k = i - A
        OBVIOUS
      <4>2. r[k] = i
        BY <4>1, <1>9
      <4> QED BY <4>2, <1>9
    <3>3. p = 0 => Len(r) > 0
      BY <1>6, <1>9
    <3> QED BY <3>1, <3>2, <3>3
  <2> QED BY <2>1, <2>2
<1>11. PICK u : u = t \o s /\ u = Render(block, first, last)
  BY <1>5, <1>8, <1>10, Zenon
<1>a. t \in Seq(Nat) /\ s \in Seq(Nat) /\ Len(t) = p /\ u = t \o s
  BY <1>8, <1>10, <1>11
<1>12. /\ u \in Seq(Nat) /\ Len(u) = p + Len(s)
       /\ \A i \in 1..p : u[i] = t[i]
       /\ \A i \in 1..Len(s) : u[p + i] = s[i]
  <2>1. /\ u \in Seq(Nat) /\ Len(u) = Len(t) + Len(s)
        /\ \A i \in 1..Len(t) : u[i] = t[i]
        /\ \A i \in 1..Len(s) : u[Len(t) + i] = s[i]
    <3>1. t \o s \in Seq(Nat) /\ Len(t \o s) = Len(t) + Len(s)
      BY <1>a, Concatenated, Zenon
    <3>2. ASSUME NEW i \in 1..Len(t) PROVE (t \o s)[i] = t[i]
      BY <1>a, Concatenated, Zenon
    <3>3. ASSUME NEW i \in 1..Len(s) PROVE (t \o s)[Len(t) + i] = s[i]
      <4> PICK N : N = Nat
        OBVIOUS
      <4>1. t \in Seq(N) /\ s \in Seq(N)
        BY <1>a
      <4> QED BY <4>1, Concatenated
    <3> QED BY <1>a, <3>1, <3>2, <3>3, Zenon
  <2> QED BY <2>1, <1>a, Zenon
<1>13. Len(u) > 0 /\ Len(s) \in Nat
  BY <1>10, <1>12
<1>14. ASSUME NEW i \in 1..Len(block.text), i <= p \/ i \in (A + 1)..B
       PROVE  block.text[i] = "space" \/ \E k \in 1..Len(u) : u[k] = i
  <2>1. CASE i <= p
    <3>1. i \in 1..p /\ i \in 1..Len(u)
      BY <2>1, <1>12, <1>13
    <3> QED BY <3>1, <1>8, <1>12
  <2>2. CASE i \in (A + 1)..B
    <3>1. CASE p = 0 /\ first > 1 /\ i = A + 1
      BY <3>1, <1>7
    <3>2. CASE ~ (p = 0 /\ first > 1 /\ i = A + 1)
      <4>1. PICK k \in 1..Len(s) : s[k] = i
        BY <2>2, <3>2, <1>10
      <4>2. p + k \in 1..Len(u) /\ u[p + k] = i
        BY <4>1, <1>12, <1>13
      <4> QED BY <4>2
    <3> QED BY <3>1, <3>2
  <2> QED BY <1>14, <2>1, <2>2
<1>15. u \in Seq(Nat) \ {<< >>}
  BY <1>12, <1>13
<1> QED
  BY <1>2, <1>3, <1>4, <1>11, <1>14, <1>15

-----------------------------------------------------------------------------
(* What structural cuts a block into is not empty and fits; a place of the    *)
(* block is held by a piece that takes it.                                    *)
FitPieces(b, maximum) == {p \in [block : {b}, places : Seq(Nat)] : Len(p.places) \in 1..maximum}
Takes(pieces, i) == \E c \in 1..Len(pieces) : \E k \in 1..Len(pieces[c].places) : pieces[c].places[k] = i

(* A row that is cut like a text loses none of its places.                    *)
LEMMA PlacesAreCut ==
    ASSUME NEW b, NEW maximum \in Nat \ {0}, NEW places \in Seq(Nat), NEW raw, Len(raw) = Len(places),
           NEW cuts, cuts = SafeSplitPoints(raw, maximum),
           NEW cut, cut = [c \in DOMAIN cuts |-> Piece(b, SubSeq(places, cuts[c][1] + 1, cuts[c][2]))]
    PROVE  /\ cut \in Seq(FitPieces(b, maximum))
           /\ \A k \in 1..Len(places) : Takes(cut, places[k])
<1>1. Len(raw) \in Nat /\ Len(places) \in Nat
  OBVIOUS
<1>2. /\ cuts \in Seq(Cuts(Len(raw), maximum))
      /\ \A i \in 1..Len(raw) : \E c \in 1..Len(cuts) : i \in (cuts[c][1] + 1)..cuts[c][2]
  BY <1>1, TextsAreSplit
<1>3. DOMAIN cuts = 1..Len(cuts) /\ Len(cuts) \in Nat /\ \A c \in 1..Len(cuts) : cuts[c] \in Cuts(Len(raw), maximum)
  BY <1>2
<1>4. ASSUME NEW c \in 1..Len(cuts)
      PROVE  /\ cuts[c][1] \in Nat /\ cuts[c][2] \in Nat
             /\ SubSeq(places, cuts[c][1] + 1, cuts[c][2]) \in Seq(Nat)
             /\ Len(SubSeq(places, cuts[c][1] + 1, cuts[c][2])) = cuts[c][2] - cuts[c][1]
             /\ cuts[c][2] - cuts[c][1] \in 1..maximum
             /\ \A k \in (cuts[c][1] + 1)..cuts[c][2] :
                  SubSeq(places, cuts[c][1] + 1, cuts[c][2])[k - cuts[c][1]] = places[k]
  <2>1. PICK from \in Nat : from = cuts[c][1]
    BY <1>3 DEF Cuts
  <2>2. PICK to \in Nat : to = cuts[c][2]
    BY <1>3 DEF Cuts
  <2>3. from < to /\ to <= Len(places) /\ to - from <= maximum
    BY <1>1, <1>3, <2>1, <2>2 DEF Cuts
  <2>4. PICK s : s = SubSeq(places, from + 1, to)
    OBVIOUS
  <2>5. \A i \in (from + 1)..to : places[i] \in Nat
    BY <2>3
  <2>6. /\ s \in Seq(Nat) /\ Len(s) = to - (from + 1) + 1
        /\ \A i \in 1..(to - (from + 1) + 1) : s[i] = places[(from + 1) + i - 1]
    BY <2>3, <2>4, <2>5, SubSeqProperties
  <2>7. ASSUME NEW k \in (from + 1)..to PROVE s[k - from] = places[k]
    <3>1. k - from \in 1..(to - (from + 1) + 1) /\ (from + 1) + (k - from) - 1 = k
      OBVIOUS
    <3> QED BY <3>1, <2>6
  <2>8. Len(s) = to - from /\ to - from \in 1..maximum
    BY <2>3, <2>6
  <2> QED BY <2>1, <2>2, <2>4, <2>6, <2>7, <2>8
<1>5. ASSUME NEW c \in 1..Len(cuts)
      PROVE  Piece(b, SubSeq(places, cuts[c][1] + 1, cuts[c][2])) \in FitPieces(b, maximum)
  <2>1. PICK s \in Seq(Nat) : s = SubSeq(places, cuts[c][1] + 1, cuts[c][2]) /\ Len(s) \in 1..maximum
    BY <1>4
  <2>2. [block |-> b, places |-> s] \in FitPieces(b, maximum)
    BY <2>1 DEF FitPieces
  <2> QED BY <2>1, <2>2 DEF Piece
<1>6. cut \in Seq(FitPieces(b, maximum)) /\ Len(cut) = Len(cuts)
  <2>1. cut = [c \in 1..Len(cuts) |-> Piece(b, SubSeq(places, cuts[c][1] + 1, cuts[c][2]))]
    BY <1>3
  <2> QED BY <1>3, <1>5, <2>1
<1>7. ASSUME NEW k \in 1..Len(places) PROVE Takes(cut, places[k])
  <2>1. PICK c \in 1..Len(cuts) : k \in (cuts[c][1] + 1)..cuts[c][2]
    BY <1>2
  <2>2. cut[c].places = SubSeq(places, cuts[c][1] + 1, cuts[c][2])
    BY <1>3 DEF Piece
  <2>3. k - cuts[c][1] \in 1..Len(cut[c].places) /\ cut[c].places[k - cuts[c][1]] = places[k]
    <3>1. PICK from : from = cuts[c][1]
      OBVIOUS
    <3>2. PICK to : to = cuts[c][2]
      OBVIOUS
    <3>3. PICK s : s = SubSeq(places, cuts[c][1] + 1, cuts[c][2])
      OBVIOUS
    <3>4. /\ from \in Nat /\ to \in Nat /\ Len(s) = to - from /\ k \in (from + 1)..to
          /\ s[k - from] = places[k]
      BY <1>4, <2>1, <3>1, <3>2, <3>3, Zenon
    <3>5. k - from \in 1..Len(s)
      BY <3>4
    <3> QED BY <2>2, <3>1, <3>3, <3>4, <3>5, Zenon
  <2>4. c \in 1..Len(cut)
    BY <1>6
  <2> QED BY <2>3, <2>4 DEF Takes
<1> QED
  BY <1>6, <1>7

LEMMA OnePieceHolds ==
    ASSUME NEW b, NEW maximum, NEW places \in Seq(Nat), Len(places) \in 1..maximum
    PROVE  /\ <<Piece(b, places)>> \in Seq(FitPieces(b, maximum))
           /\ \A k \in 1..Len(places) : Takes(<<Piece(b, places)>>, places[k])
<1>1. PICK p : p = Piece(b, places)
  OBVIOUS
<1>2. p \in FitPieces(b, maximum) /\ p.places = places
  BY <1>1 DEF FitPieces, Piece
<1>3. <<p>> \in Seq(FitPieces(b, maximum)) /\ Len(<<p>>) = 1 /\ <<p>>[1] = p
  BY <1>2
<1>4. ASSUME NEW k \in 1..Len(places) PROVE Takes(<<p>>, places[k])
  <2>1. 1 \in 1..Len(<<p>>) /\ k \in 1..Len(<<p>>[1].places) /\ <<p>>[1].places[k] = places[k]
    BY <1>2, <1>3
  <2> QED BY <2>1 DEF Takes
<1> QED
  BY <1>1, <1>3, <1>4

LEMMA HoldsInEither ==
    ASSUME NEW S, NEW p \in Seq(S), NEW q \in Seq(S), NEW i, Takes(p, i) \/ Takes(q, i)
    PROVE  Takes(p \o q, i)
<1>1. PICK u : u = p \o q
  OBVIOUS
<1>2. /\ Len(u) = Len(p) + Len(q) /\ Len(p) \in Nat /\ Len(q) \in Nat
      /\ \A c \in 1..Len(p) : u[c] = p[c]
      /\ \A c \in 1..Len(q) : u[Len(p) + c] = q[c]
  BY <1>1, Concatenated
<1>3. CASE Takes(p, i)
  <2>1. PICK c \in 1..Len(p) : \E k \in 1..Len(p[c].places) : p[c].places[k] = i
    BY <1>3 DEF Takes
  <2>2. c \in 1..Len(u) /\ u[c] = p[c]
    BY <1>2
  <2> QED BY <2>1, <2>2, <1>1 DEF Takes
<1>4. CASE Takes(q, i)
  <2>1. PICK c \in 1..Len(q) : \E k \in 1..Len(q[c].places) : q[c].places[k] = i
    BY <1>4 DEF Takes
  <2>2. Len(p) + c \in 1..Len(u) /\ u[Len(p) + c] = q[c]
    BY <1>2
  <2> QED BY <2>1, <2>2, <1>1 DEF Takes
<1> QED
  BY <1>3, <1>4

(* The rows first to last are in what is cut from them, or are line breaks.   *)
InRows(block, i, first, last) ==
    i <= block.prefix \/ \E r \in first..last : i \in (RowEnd(block, r - 1) + 1)..RowEnd(block, r)
HoldsRows(block, pieces, first, last) ==
    \A i \in 1..Len(block.text) : InRows(block, i, first, last) => block.text[i] = "space" \/ Takes(pieces, i)

(* Rows that are rendered are held.                                           *)
LEMMA RenderedRows ==
    ASSUME NEW block \in ChunkBlocks, NEW first \in 1..Len(block.rows), NEW last \in first..Len(block.rows),
           NEW pieces, \A k \in 1..Len(Render(block, first, last)) : Takes(pieces, Render(block, first, last)[k])
    PROVE  HoldsRows(block, pieces, first, last)
<1>1. SUFFICES ASSUME NEW i \in 1..Len(block.text), InRows(block, i, first, last)
               PROVE  block.text[i] = "space" \/ Takes(pieces, i)
  BY DEF HoldsRows
<1>2. i <= block.prefix \/ i \in (RowEnd(block, first - 1) + 1)..RowEnd(block, last)
  <2>1. SUFFICES ASSUME NEW r \in first..last, i \in (RowEnd(block, r - 1) + 1)..RowEnd(block, r)
                 PROVE  i \in (RowEnd(block, first - 1) + 1)..RowEnd(block, last)
    BY <1>1 DEF InRows
  <2>2. Len(block.rows) \in Nat
    BY DEF ChunkBlocks
  <2>3. /\ first - 1 \in 0..Len(block.rows) /\ r - 1 \in (first - 1)..Len(block.rows) /\ r - 1 \in 0..Len(block.rows)
        /\ r \in 0..Len(block.rows) /\ last \in r..Len(block.rows) /\ last \in 0..Len(block.rows)
    BY <2>2
  <2>4. RowEnd(block, first - 1) <= RowEnd(block, r - 1) /\ RowEnd(block, r) <= RowEnd(block, last)
    BY <2>3, RowsFollow
  <2>5. RowEnd(block, first - 1) \in Nat /\ RowEnd(block, r - 1) \in Nat /\ RowEnd(block, r) \in Nat /\ RowEnd(block, last) \in Nat
    BY <2>3, RowsEnd
  <2> QED BY <2>1, <2>4, <2>5
<1>3. block.text[i] = "space" \/ \E k \in 1..Len(Render(block, first, last)) : Render(block, first, last)[k] = i
  BY <1>2, RowsAreRendered
<1> QED
  BY <1>3

LEMMA RowsAreHeld ==
    ASSUME NEW block \in ChunkBlocks, NEW S, NEW p \in Seq(S), NEW q \in Seq(S), NEW first \in Nat, NEW next \in Nat,
           NEW last \in Nat, first < next, HoldsRows(block, p, first, next - 1), next <= last => HoldsRows(block, q, next, last)
    PROVE  HoldsRows(block, p \o q, first, last)
<1>1. SUFFICES ASSUME NEW i \in 1..Len(block.text), InRows(block, i, first, last)
               PROVE  block.text[i] = "space" \/ Takes(p \o q, i)
  BY DEF HoldsRows
<1>2. InRows(block, i, first, next - 1) \/ (next <= last /\ InRows(block, i, next, last))
  <2>1. CASE i <= block.prefix
    BY <2>1 DEF InRows
  <2>2. ASSUME NEW r \in first..last, i \in (RowEnd(block, r - 1) + 1)..RowEnd(block, r)
        PROVE  InRows(block, i, first, next - 1) \/ (next <= last /\ InRows(block, i, next, last))
    <3>1. r \in first..(next - 1) \/ (next <= last /\ r \in next..last)
      OBVIOUS
    <3> QED BY <3>1, <2>2 DEF InRows
  <2> QED BY <1>1, <2>1, <2>2 DEF InRows
<1>3. block.text[i] = "space" \/ Takes(p, i) \/ Takes(q, i)
  BY <1>2 DEF HoldsRows
<1> QED
  BY <1>3, HoldsInEither

(* A table is split into pieces that fit and hold all of its text but line    *)
(* breaks.                                                                    *)
LEMMA TablesAreSplit ==
    ASSUME NEW maximum \in Nat \ {0}, NEW b, blocks[b] \in ChunkBlocks, blocks[b].rows # << >>
    PROVE  /\ SplitTable(b, maximum) \in Seq(FitPieces(b, maximum))
           /\ \A i \in 1..Len(blocks[b].text) : blocks[b].text[i] = "space" \/ Takes(SplitTable(b, maximum), i)
<1> DEFINE rows == 1..Len(blocks[b].rows)
           Fits(first, last) == Len(Render(blocks[b], first, last)) <= maximum
           LastOf(first) == Max({first} \cup {last \in rows : last >= first /\ \A l \in first..last : Fits(first, l)})
           Split(r) == LET places == Render(blocks[b], r, r)
                           raw == [i \in DOMAIN places |-> blocks[b].text[places[i]]]
                           cuts == SafeSplitPoints(raw, maximum) IN
                       [c \in DOMAIN cuts |-> Piece(b, SubSeq(places, cuts[c][1] + 1, cuts[c][2]))]
           groups[r \in 1..(Len(blocks[b].rows) + 1)] ==
             IF r > Len(blocks[b].rows) THEN << >>
             ELSE IF Fits(r, r) THEN <<Piece(b, Render(blocks[b], r, LastOf(r)))>> \o groups[LastOf(r) + 1]
             ELSE Split(r) \o groups[r + 1]
           head(r) == IF Fits(r, r) THEN <<Piece(b, Render(blocks[b], r, LastOf(r)))>> ELSE Split(r)
           follows(r) == IF Fits(r, r) THEN LastOf(r) + 1 ELSE r + 1
<1>1. SplitTable(b, maximum) = groups[1]
  BY Zenon DEF SplitTable
<1>2. PICK n \in Nat \ {0} : n = Len(blocks[b].rows)
  BY DEF ChunkBlocks
<1>3. ASSUME NEW r \in 1..n
      PROVE  /\ follows(r) \in (r + 1)..(n + 1)
             /\ head(r) \in Seq(FitPieces(b, maximum))
             /\ HoldsRows(blocks[b], head(r), r, follows(r) - 1)
  <2>1. CASE Fits(r, r)
    <3> DEFINE T == {r} \cup {last \in rows : last >= r /\ \A l \in r..last : Fits(r, l)}
    <3>1. T \in SUBSET Int /\ T # {} /\ (\A t \in T : t <= n) /\ T \subseteq r..n
      BY <1>2
    <3>2. ASSUME NEW t \in T PROVE Fits(r, t)
      BY <2>1
    <3> HIDE DEF T
    <3>3. Max(T) \in T
      <4>1. n \in Int
        OBVIOUS
      <4> QED BY <3>1, <4>1, MaxIsGreatest, Zenon
    <3>4. PICK last \in r..n : last = LastOf(r) /\ Fits(r, last)
      <4>1. LastOf(r) = Max(T)
        BY Zenon DEF T
      <4> QED BY <3>1, <3>2, <3>3, <4>1, Zenon
    <3>5. PICK places : places = Render(blocks[b], r, last)
      OBVIOUS
    <3>6. places \in Seq(Nat) \ {<< >>} /\ Len(places) <= maximum
      BY <1>2, <3>4, <3>5, RowsAreRendered
    <3>7. Len(places) \in 1..maximum
      BY <3>6
    <3>8. <<Piece(b, places)>> \in Seq(FitPieces(b, maximum)) /\ \A k \in 1..Len(places) : Takes(<<Piece(b, places)>>, places[k])
      BY <3>6, <3>7, OnePieceHolds
    <3>9. head(r) = <<Piece(b, places)>> /\ follows(r) = last + 1
      BY <2>1, <3>4, <3>5, Zenon
    <3> HIDE DEF head, follows
    <3>10. HoldsRows(blocks[b], head(r), r, last)
      BY <1>2, <3>5, <3>8, <3>9, RenderedRows
    <3> QED BY <3>8, <3>9, <3>10
  <2>2. CASE ~ Fits(r, r)
    <3>1. PICK places : places = Render(blocks[b], r, r)
      OBVIOUS
    <3>2. places \in Seq(Nat) \ {<< >>}
      BY <1>2, <3>1, RowsAreRendered
    <3>3. PICK raw : raw = [i \in DOMAIN places |-> blocks[b].text[places[i]]]
      OBVIOUS
    <3>4. Len(raw) = Len(places)
      BY <3>2, <3>3
    <3>5. PICK cuts : cuts = SafeSplitPoints(raw, maximum)
      OBVIOUS
    <3>6. PICK cut : cut = [c \in DOMAIN cuts |-> Piece(b, SubSeq(places, cuts[c][1] + 1, cuts[c][2]))]
      OBVIOUS
    <3>7. cut \in Seq(FitPieces(b, maximum)) /\ \A k \in 1..Len(places) : Takes(cut, places[k])
      BY <3>2, <3>4, <3>5, <3>6, PlacesAreCut
    <3>8. head(r) = cut /\ follows(r) = r + 1
      BY <2>2, <3>1, <3>3, <3>5, <3>6, Zenon
    <3> HIDE DEF head, follows
    <3>9. HoldsRows(blocks[b], head(r), r, r)
      BY <1>2, <3>1, <3>7, <3>8, RenderedRows
    <3> QED BY <3>7, <3>8, <3>9
  <2> QED BY <2>1, <2>2
<1> DEFINE S == Seq(FitPieces(b, maximum))
           next == [r \in 1..n |-> follows(r)]
           step == [x \in (1..n) \X S |-> head(x[1]) \o x[2]]
<1>4. PICK f : f \in [1..(n + 1) -> S] /\ Recurs(f, 1, n + 1, << >>, next, step)
  <2> HIDE DEF head, follows
  <2>1. (n + 1) - 1 = n
    OBVIOUS
  <2>2. \A i \in 1..((n + 1) - 1) : next[i] \in (i + 1)..(n + 1)
    BY <1>3, <2>1
  <2>3. step \in [(1..((n + 1) - 1)) \X S -> S]
    <3>1. ASSUME NEW x \in (1..n) \X S PROVE head(x[1]) \o x[2] \in S
      <4>1. head(x[1]) \in S /\ x[2] \in S
        BY <1>3
      <4> QED BY <4>1
    <3> QED BY <2>1, <3>1
  <2>4. << >> \in S /\ 1 \in Nat /\ n + 1 \in Nat /\ 1 <= n + 1
    OBVIOUS
  <2> HIDE DEF S, next, step
  <2> QED BY <2>2, <2>3, <2>4, RecursionsCompute
<1>5. f[n + 1] = << >> /\ \A r \in 1..n : f[r] = head(r) \o f[follows(r)]
  <2> HIDE DEF head, follows, S
  <2>1. ASSUME NEW r \in 1..n PROVE f[r] = head(r) \o f[follows(r)]
    <3>1. next[r] = follows(r) /\ follows(r) \in 1..(n + 1)
      BY <1>3
    <3>2. f[follows(r)] \in S
      BY <1>4, <3>1
    <3>3. f[r] = step[<<r, f[next[r]]>>]
      <4>1. r \in 1..((n + 1) - 1)
        OBVIOUS
      <4> HIDE DEF next, step
      <4> QED BY <1>4, <4>1 DEF Recurs
    <3>4. step[<<r, f[follows(r)]>>] = head(r) \o f[follows(r)]
      BY <3>2
    <3> QED BY <3>1, <3>3, <3>4
  <2> QED BY <1>4, <2>1 DEF Recurs
<1>6. f = [r \in 1..(Len(blocks[b].rows) + 1) |->
             IF r > Len(blocks[b].rows) THEN << >>
             ELSE IF Fits(r, r) THEN <<Piece(b, Render(blocks[b], r, LastOf(r)))>> \o f[LastOf(r) + 1]
             ELSE Split(r) \o f[r + 1]]
  <2>1. ASSUME NEW r \in 1..(n + 1)
        PROVE  f[r] = IF r > n THEN << >>
                      ELSE IF Fits(r, r) THEN <<Piece(b, Render(blocks[b], r, LastOf(r)))>> \o f[LastOf(r) + 1]
                      ELSE Split(r) \o f[r + 1]
    <3> HIDE DEF LastOf, Split, Fits
    <3>1. CASE r > n
      <4>1. r = n + 1
        BY <3>1
      <4> QED BY <3>1, <4>1, <1>5
    <3>2. CASE ~ (r > n)
      <4>1. r \in 1..n
        BY <3>2
      <4>2. f[r] = head(r) \o f[follows(r)]
        BY <1>5, <4>1
      <4> QED BY <3>2, <4>2, Zenon
    <3> QED BY <3>1, <3>2
  <2> HIDE DEF LastOf, Split, Fits, S
  <2> QED BY <1>2, <1>4, <2>1
<1>7. groups = [r \in 1..(Len(blocks[b].rows) + 1) |->
                  IF r > Len(blocks[b].rows) THEN << >>
                  ELSE IF Fits(r, r) THEN <<Piece(b, Render(blocks[b], r, LastOf(r)))>> \o groups[LastOf(r) + 1]
                  ELSE Split(r) \o groups[r + 1]]
  <2> HIDE DEF LastOf, Split, Fits
  <2> QED BY <1>6, Zenon
<1> HIDE DEF groups, S, next, step
<1>8. groups[n + 1] = << >> /\ \A r \in 1..n : groups[r] = head(r) \o groups[follows(r)]
  <2> HIDE DEF LastOf, Split, Fits
  <2>1. n + 1 \in 1..(Len(blocks[b].rows) + 1) /\ n + 1 > Len(blocks[b].rows)
    BY <1>2
  <2>2. groups[n + 1] = << >>
    BY <2>1, <1>7, Zenon
  <2>3. ASSUME NEW r \in 1..n PROVE groups[r] = head(r) \o groups[follows(r)]
    <3>1. r \in 1..(Len(blocks[b].rows) + 1) /\ ~ (r > Len(blocks[b].rows))
      BY <1>2
    <3> QED BY <3>1, <1>7, Zenon
  <2> QED BY <2>2, <2>3
<1> HIDE DEF head, follows, LastOf, Split, Fits
<1> DEFINE Sound(r) == groups[r] \in S /\ (r <= n => HoldsRows(blocks[b], groups[r], r, n))
           T == {r \in 1..(n + 1) : Sound(r)}
<1>9. n + 1 \in T
  <2>1. << >> \in S
    BY DEF S
  <2> QED BY <1>8, <2>1
<1>10. ASSUME NEW r \in 1..((n + 1) - 1), \A j \in (r + 1)..(n + 1) : j \in T PROVE r \in T
  <2>1. r \in 1..n /\ (n + 1) - 1 = n
    OBVIOUS
  <2>2. PICK m \in (r + 1)..(n + 1) : m = follows(r)
    BY <1>3, <2>1
  <2>3. Sound(m)
    BY <1>10
  <2> HIDE DEF T, Sound
  <2>4. groups[m] \in Seq(FitPieces(b, maximum)) /\ (m <= n => HoldsRows(blocks[b], groups[m], m, n))
    BY <2>3 DEF Sound, S
  <2>5. head(r) \in Seq(FitPieces(b, maximum)) /\ HoldsRows(blocks[b], head(r), r, m - 1)
    BY <1>3, <2>1, <2>2
  <2>6. groups[r] = head(r) \o groups[m]
    BY <1>8, <2>1, <2>2
  <2>7. head(r) \o groups[m] \in Seq(FitPieces(b, maximum))
    BY <2>4, <2>5, ConcatProperties
  <2>8. HoldsRows(blocks[b], head(r) \o groups[m], r, n)
    <3>1. r \in Nat /\ m \in Nat /\ n \in Nat /\ r < m
      OBVIOUS
    <3> QED BY <3>1, <2>4, <2>5, RowsAreHeld
  <2>9. Sound(r)
    BY <2>6, <2>7, <2>8 DEF Sound, S
  <2> QED BY <2>9 DEF T
<1>11. 1 \in T
  <2>1. 1 \in Nat /\ n + 1 \in Nat /\ 1 \in 1..(n + 1)
    OBVIOUS
  <2> HIDE DEF T, Sound
  <2> QED BY <1>9, <1>10, <2>1, CountingDown
<1>12. groups[1] \in S /\ HoldsRows(blocks[b], groups[1], 1, n)
  BY <1>11
<1>13. \A i \in 1..Len(blocks[b].text) : InRows(blocks[b], i, 1, n)
  BY <1>2, PlacesLieInRows DEF InRows
<1> QED
  BY <1>1, <1>12, <1>13 DEF HoldsRows, S

-----------------------------------------------------------------------------
(* The pieces structural packs: not empty, and of a length that fits but for  *)
(* the header of a table without rows.                                        *)
SoundPieces ==
    {p \in [block : 1..Len(blocks), places : Seq(Nat)] :
       /\ Len(p.places) > 0
       /\ Len(p.places) <= configuration.maximum \/ IsBareHeader(<<p>>)}
Keeps(pieces, b, i) ==
    \E c \in 1..Len(pieces) : pieces[c].block = b /\ \E k \in 1..Len(pieces[c].places) : pieces[c].places[k] = i

(* Pieces that fit are sound.                                                 *)
LEMMA FitPiecesAreSound ==
    ASSUME NEW b \in 1..Len(blocks)
    PROVE  Seq(FitPieces(b, configuration.maximum)) \subseteq Seq(SoundPieces)
<1>1. ASSUME NEW p \in FitPieces(b, configuration.maximum) PROVE p \in SoundPieces
  BY DEF FitPieces, SoundPieces
<1>2. FitPieces(b, configuration.maximum) \subseteq SoundPieces
  BY <1>1
<1> QED
  BY <1>2, SeqMonotonic

(* However a block is split, its pieces are sound and hold it.                *)
LEMMA BlocksAreExpanded ==
    ASSUME configuration.strategy_name = "structural", configuration.maximum \in Nat \ {0},
           blocks \in Seq(ChunkBlocks), NEW b \in 1..Len(blocks)
    PROVE  /\ Expand(b) \in Seq(SoundPieces)
           /\ \A c \in 1..Len(Expand(b)) : Expand(b)[c].block = b
           /\ \A i \in 1..Len(blocks[b].text) :
                (blocks[b].rows # << >> /\ blocks[b].text[i] = "space") \/ Takes(Expand(b), i)
<1>1. blocks[b] \in ChunkBlocks
  BY ElementOfSeq
<1>2. PICK text : text = blocks[b].text /\ text \in Seq(CharacterKinds) /\ text # << >> /\ Len(text) \in Nat \ {0}
  <2>1. blocks[b].text \in Seq(CharacterKinds) \ {<< >>}
    BY <1>1 DEF ChunkBlocks
  <2> QED BY <2>1, EmptySeq
<1>3. PICK maximum \in Nat \ {0} : maximum = configuration.maximum
  OBVIOUS
<1>4. PICK places \in Seq(Nat) : /\ places = Places(b) /\ Len(places) = Len(text)
                                 /\ \A k \in 1..Len(text) : places[k] = k
  <2>1. Places(b) = [i \in 1..Len(text) |-> i]
    BY <1>2 DEF Places
  <2>2. [i \in 1..Len(text) |-> i] \in Seq(Nat) /\ Len([i \in 1..Len(text) |-> i]) = Len(text)
    BY <1>2
  <2> QED BY <2>1, <2>2
<1>5. ASSUME NEW pieces \in Seq(FitPieces(b, maximum))
      PROVE  pieces \in Seq(SoundPieces) /\ \A c \in 1..Len(pieces) : pieces[c].block = b
  <2>1. pieces \in Seq(SoundPieces)
    BY <1>3, FitPiecesAreSound
  <2>2. ASSUME NEW c \in 1..Len(pieces) PROVE pieces[c].block = b
    <3>1. pieces[c] \in FitPieces(b, maximum)
      BY ElementOfSeq
    <3> QED BY <3>1 DEF FitPieces
  <2> QED BY <2>1, <2>2
<1> DEFINE Whole == <<Piece(b, Places(b))>>
<1>6. CASE Len(blocks[b].text) <= configuration.maximum
  <2>1. Expand(b) = Whole
    BY <1>6, Zenon DEF Expand
  <2>2. Len(places) \in 1..maximum
    BY <1>2, <1>3, <1>4, <1>6
  <2>3. Whole \in Seq(FitPieces(b, maximum)) /\ \A k \in 1..Len(text) : Takes(Whole, k)
    BY <1>4, <2>2, OnePieceHolds
  <2> HIDE DEF Whole
  <2> QED BY <1>2, <1>5, <2>1, <2>3
<1>7. CASE /\ ~ (Len(blocks[b].text) <= configuration.maximum)
           /\ blocks[b].type = "table" /\ configuration.preserve_tables /\ blocks[b].rows # << >>
  <2>1. Expand(b) = SplitTable(b, maximum)
    BY <1>3, <1>7, Zenon DEF Expand
  <2>2. /\ SplitTable(b, maximum) \in Seq(FitPieces(b, maximum))
        /\ \A i \in 1..Len(blocks[b].text) : blocks[b].text[i] = "space" \/ Takes(SplitTable(b, maximum), i)
    BY <1>1, <1>7, TablesAreSplit
  <2> QED BY <1>5, <1>7, <2>1, <2>2
<1>8. CASE /\ ~ (Len(blocks[b].text) <= configuration.maximum)
           /\ blocks[b].type = "table" /\ configuration.preserve_tables /\ blocks[b].rows = << >>
  <2>1. Expand(b) = SplitTable(b, maximum) /\ SplitTable(b, maximum) = Whole
    BY <1>3, <1>8, Zenon DEF Expand, SplitTable
  <2>2. PICK p : p = Piece(b, Places(b))
    OBVIOUS
  <2>3. p \in [block : 1..Len(blocks), places : Seq(Nat)] /\ p.block = b /\ p.places = places
    BY <1>4, <2>2 DEF Piece
  <2>4. IsBareHeader(<<p>>)
    BY <1>8, <2>3 DEF IsBareHeader
  <2>5. p \in SoundPieces
    BY <1>2, <1>4, <2>3, <2>4 DEF SoundPieces
  <2>6. Len(places) \in 1..Len(text)
    BY <1>2, <1>4
  <2>7. \A k \in 1..Len(text) : Takes(Whole, k)
    <3>1. \A k \in 1..Len(places) : Takes(<<Piece(b, places)>>, places[k])
      BY <2>6, OnePieceHolds, Zenon
    <3> QED BY <1>4, <3>1
  <2>8. <<p>> \in Seq(SoundPieces) /\ Len(<<p>>) = 1 /\ <<p>>[1] = p
    BY <2>5
  <2>9. Whole = <<p>>
    BY <2>2, Zenon
  <2> HIDE DEF Whole
  <2> QED BY <1>2, <2>1, <2>3, <2>7, <2>8, <2>9
<1>9. CASE /\ ~ (Len(blocks[b].text) <= configuration.maximum)
           /\ ~ (blocks[b].type = "table" /\ configuration.preserve_tables)
  <2>1. PICK cuts : cuts = SafeSplitPoints(text, maximum)
    OBVIOUS
  <2>2. PICK cut : cut = [c \in DOMAIN cuts |-> Piece(b, SubSeq(places, cuts[c][1] + 1, cuts[c][2]))]
    OBVIOUS
  <2>3. cut \in Seq(FitPieces(b, maximum)) /\ \A k \in 1..Len(places) : Takes(cut, places[k])
    <3>1. Len(text) = Len(places) /\ maximum \in Nat \ {0} /\ places \in Seq(Nat)
      BY <1>4
    <3> QED BY <2>1, <2>2, <3>1, PlacesAreCut, Zenon
  <2>4. ASSUME NEW c \in DOMAIN cuts PROVE Slice(b, cuts[c][1], cuts[c][2]) = cut[c]
    <3>1. c \in 1..Len(cuts) /\ cuts[c] \in Cuts(Len(text), maximum)
      <4>1. cuts \in Seq(Cuts(Len(text), maximum))
        BY <1>2, <2>1, TextsAreSplit
      <4> QED BY <4>1
    <3>2. PICK from \in Nat : from = cuts[c][1]
      BY <3>1 DEF Cuts
    <3>3. PICK to \in Nat : to = cuts[c][2]
      BY <3>1 DEF Cuts
    <3>4. from < to /\ to <= Len(text)
      BY <3>1, <3>2, <3>3 DEF Cuts
    <3>5. PICK s : s = SubSeq(places, from + 1, to)
      OBVIOUS
    <3>6. \A i \in (from + 1)..to : places[i] \in Nat /\ places[i] = i
      BY <1>2, <1>4, <3>4
    <3>7. /\ s \in Seq(Nat) /\ Len(s) = to - (from + 1) + 1
          /\ \A i \in 1..(to - (from + 1) + 1) : s[i] = places[(from + 1) + i - 1]
      BY <3>4, <3>5, <3>6, SubSeqProperties
    <3>8. ASSUME NEW i \in 1..(to - from) PROVE s[i] = from + i
      <4>1. i \in 1..(to - (from + 1) + 1) /\ (from + 1) + i - 1 = from + i /\ from + i \in (from + 1)..to
        OBVIOUS
      <4> QED BY <3>6, <3>7, <4>1
    <3>9. [i \in 1..(to - from) |-> from + i] \in Seq(Nat) /\ Len([i \in 1..(to - from) |-> from + i]) = to - from
      <4>1. to - from \in Nat
        BY <3>4
      <4> QED BY <4>1
    <3>10. s = [i \in 1..(to - from) |-> from + i]
      <4>1. PICK t \in Seq(Nat) : t = [i \in 1..(to - from) |-> from + i] /\ Len(t) = to - from
        BY <3>9
      <4>2. Len(s) = Len(t) /\ \A i \in 1..Len(s) : s[i] = t[i]
        BY <3>4, <3>7, <3>8, <4>1
      <4>3. s = t
        BY <3>7, <4>2, SeqEqual
      <4> QED BY <4>1, <4>3
    <3> QED BY <2>2, <3>2, <3>3, <3>5, <3>10 DEF Slice
  <2>5. Expand(b) = [c \in DOMAIN cuts |-> Slice(b, cuts[c][1], cuts[c][2])]
    BY <1>2, <1>3, <1>9, <2>1, Zenon DEF Expand
  <2>6. Expand(b) = cut
    BY <2>2, <2>4, <2>5
  <2> QED BY <1>2, <1>4, <1>5, <2>3, <2>6
<1> QED
  BY <1>6, <1>7, <1>8, <1>9

(* The pieces of all blocks hold every block.                                 *)
LEMMA ExpandedBlocks ==
    ASSUME configuration.strategy_name = "structural", configuration.maximum \in Nat \ {0},
           blocks \in Seq(ChunkBlocks), NEW all, all = FlattenSeq([b \in DOMAIN blocks |-> Expand(b)])
    PROVE  /\ all \in Seq(SoundPieces)
           /\ \A b \in 1..Len(blocks) : \A i \in 1..Len(blocks[b].text) :
                (blocks[b].rows # << >> /\ blocks[b].text[i] = "space") \/ Keeps(all, b, i)
<1>1. PICK pieces : pieces = [b \in 1..Len(blocks) |-> Expand(b)]
  OBVIOUS
<1>2. \A b \in 1..Len(blocks) : pieces[b] = Expand(b) /\ pieces[b] \in Seq(SoundPieces)
  BY <1>1, BlocksAreExpanded
<1>3. pieces \in Seq(Seq(SoundPieces)) /\ Len(pieces) = Len(blocks)
  <2>1. Len(blocks) \in Nat
    BY LenProperties
  <2> QED BY <1>1, <1>2, <2>1
<1>4. DOMAIN blocks = 1..Len(blocks)
  BY LenProperties
<1>5. all = FlattenSeq(pieces)
  BY <1>1, <1>4
<1>6. all \in Seq(SoundPieces)
  BY <1>3, <1>5, FlattenTyped
<1>7. ASSUME NEW b \in 1..Len(blocks), NEW i \in 1..Len(blocks[b].text),
             ~ (blocks[b].rows # << >> /\ blocks[b].text[i] = "space")
      PROVE  Keeps(all, b, i)
  <2>1. Takes(pieces[b], i) /\ \A c \in 1..Len(pieces[b]) : pieces[b][c].block = b
    BY <1>2, <1>7, BlocksAreExpanded
  <2>2. PICK c \in 1..Len(pieces[b]) : \E k \in 1..Len(pieces[b][c].places) : pieces[b][c].places[k] = i
    BY <2>1 DEF Takes
  <2>3. b \in 1..Len(pieces)
    BY <1>3
  <2>4. \E k \in 1..Len(FlattenSeq(pieces)) : FlattenSeq(pieces)[k] = pieces[b][c]
    BY <1>3, <2>3, FlattenHolds
  <2> QED BY <1>5, <2>1, <2>2, <2>4 DEF Keeps
<1> QED
  BY <1>6, <1>7

-----------------------------------------------------------------------------
(* The length of a candidate grows by its pieces and the separators.          *)
AllPieces == [block : Nat, places : Seq(Nat)]
Line(pieces, i) == (IF i = 1 THEN << >> ELSE <<<<0, 0>>, <<0, 0>>>>) \o CharactersOf(pieces[i])

(* A candidate's text is the lines of its pieces, put one after the other.    *)
LEMMA LinesOfPieces ==
    ASSUME NEW pieces \in Seq(AllPieces), NEW i \in 1..Len(pieces)
    PROVE  /\ Line(pieces, i) \in Seq(Nat \X Nat)
           /\ Len(Line(pieces, i)) = Len(pieces[i].places) + (IF i = 1 THEN 0 ELSE 2)
<1>0. pieces[i] \in AllPieces
  BY ElementOfSeq
<1>1. PICK places \in Seq(Nat) : places = pieces[i].places
  BY <1>0 DEF AllPieces
<1>2. PICK b \in Nat : b = pieces[i].block
  BY <1>0 DEF AllPieces
<1>3. Len(places) \in Nat /\ DOMAIN places = 1..Len(places) /\ \A k \in 1..Len(places) : places[k] \in Nat
  OBVIOUS
<1>4. PICK shown : shown = CharactersOf(pieces[i]) /\ shown \in Seq(Nat \X Nat) /\ Len(shown) = Len(places)
  <2>1. CharactersOf(pieces[i]) = [k \in 1..Len(places) |-> <<b, places[k]>>]
    BY <1>1, <1>2, <1>3 DEF CharactersOf
  <2>2. [k \in 1..Len(places) |-> <<b, places[k]>>] \in Seq(Nat \X Nat) /\ Len([k \in 1..Len(places) |-> <<b, places[k]>>]) = Len(places)
    BY <1>3
  <2> QED BY <2>1, <2>2
<1>5. PICK separator : /\ separator = <<<<0, 0>>, <<0, 0>>>>
                       /\ separator \in Seq(Nat \X Nat) /\ Len(separator) = 2
  <2>1. PICK none \in Nat \X Nat : none = <<0, 0>>
    OBVIOUS
  <2>2. <<none, none>> \in Seq(Nat \X Nat) /\ Len(<<none, none>>) = 2
    OBVIOUS
  <2> QED BY <2>1, <2>2
<1>6. CASE i = 1
  <2>1. Line(pieces, i) = << >> \o shown
    BY <1>4, <1>6, Zenon DEF Line
  <2>2. << >> \o shown = shown
    BY <1>4, ConcatEmptySeq
  <2> QED BY <1>1, <1>3, <1>4, <1>6, <2>1, <2>2
<1>7. CASE i # 1
  <2>1. Line(pieces, i) = separator \o shown
    BY <1>4, <1>5, <1>7, Zenon DEF Line
  <2>2. separator \o shown \in Seq(Nat \X Nat) /\ Len(separator \o shown) = 2 + Len(places)
    <3>1. separator \o shown \in Seq(Nat \X Nat) /\ Len(separator \o shown) = Len(separator) + Len(shown)
      BY <1>4, <1>5, ConcatProperties
    <3> QED BY <1>4, <1>5, <3>1
  <2> QED BY <1>1, <1>3, <1>7, <2>1, <2>2
<1> QED
  BY <1>6, <1>7

LEMMA CandidatesHaveText ==
    ASSUME NEW pieces \in Seq(AllPieces), NEW lines, lines = [i \in DOMAIN pieces |-> Line(pieces, i)]
    PROVE  /\ lines \in Seq(Seq(Nat \X Nat)) /\ Len(lines) = Len(pieces) /\ \A i \in 1..Len(pieces) : lines[i] = Line(pieces, i)
           /\ CandidateText(pieces) = FlattenSeq(lines)
           /\ CandidateText(pieces) \in Seq(Nat \X Nat)
<1>1. Len(pieces) \in Nat /\ DOMAIN pieces = 1..Len(pieces)
  BY LenProperties
<1>2. lines \in Seq(Seq(Nat \X Nat)) /\ Len(lines) = Len(pieces) /\ \A i \in 1..Len(pieces) : lines[i] = Line(pieces, i)
  <2>1. \A i \in 1..Len(pieces) : Line(pieces, i) \in Seq(Nat \X Nat)
    BY LinesOfPieces
  <2> QED BY <1>1, <2>1
<1>3. CandidateText(pieces) = FlattenSeq(lines)
  BY Zenon DEF CandidateText, Line
<1> QED
  BY <1>2, <1>3, FlattenTyped

(* A piece that is appended adds its length, and a separator if it is not the *)
(* first.                                                                     *)
LEMMA TextsGrow ==
    ASSUME NEW pieces \in Seq(AllPieces), NEW p \in AllPieces
    PROVE  /\ CandidateText(Append(pieces, p)) \in Seq(Nat \X Nat)
           /\ CandidateText(pieces) \in Seq(Nat \X Nat)
           /\ Len(CandidateText(Append(pieces, p)))
                = Len(CandidateText(pieces)) + Len(p.places) + (IF pieces = << >> THEN 0 ELSE 2)
<1>1. PICK more \in Seq(AllPieces) : /\ more = Append(pieces, p) /\ Len(more) = Len(pieces) + 1
                                     /\ more[Len(pieces) + 1] = p /\ \A i \in 1..Len(pieces) : more[i] = pieces[i]
  <2>1. PICK m : m = Append(pieces, p)
    OBVIOUS
  <2> QED BY <2>1, AppendProperties
<1>2. PICK lines : lines = [i \in DOMAIN pieces |-> Line(pieces, i)]
  OBVIOUS
<1>3. PICK all : all = [i \in DOMAIN more |-> Line(more, i)]
  OBVIOUS
<1>4. /\ lines \in Seq(Seq(Nat \X Nat)) /\ Len(lines) = Len(pieces) /\ \A i \in 1..Len(pieces) : lines[i] = Line(pieces, i)
      /\ CandidateText(pieces) = FlattenSeq(lines) /\ CandidateText(pieces) \in Seq(Nat \X Nat)
  BY <1>2, CandidatesHaveText
<1>5. /\ all \in Seq(Seq(Nat \X Nat)) /\ Len(all) = Len(more) /\ \A i \in 1..Len(more) : all[i] = Line(more, i)
      /\ CandidateText(more) = FlattenSeq(all) /\ CandidateText(more) \in Seq(Nat \X Nat)
  BY <1>3, CandidatesHaveText
<1>6. Len(pieces) \in Nat /\ Len(more) = Len(pieces) + 1 /\ Len(more) \in 1..Len(more)
      /\ (pieces = << >> <=> Len(more) = 1) /\ Len(p.places) \in Nat
  BY <1>1 DEF AllPieces
<1>7. \A i \in 1..Len(pieces) : Line(more, i) = Line(pieces, i)
  BY <1>1 DEF Line
<1>8. Len(all) = Len(lines) + 1 /\ \A i \in 1..Len(lines) : all[i] = lines[i]
  BY <1>4, <1>5, <1>6, <1>7
<1>9. FlattenSeq(all) = FlattenSeq(lines) \o all[Len(all)]
  BY <1>4, <1>5, <1>8, FlattenExtended
<1>10. PICK last : /\ last = all[Len(all)] /\ last \in Seq(Nat \X Nat)
                   /\ Len(last) = Len(p.places) + (IF pieces = << >> THEN 0 ELSE 2)
  <2>1. all[Len(all)] = Line(more, Len(more)) /\ more[Len(more)] = p
    BY <1>1, <1>5, <1>6
  <2>2. Line(more, Len(more)) \in Seq(Nat \X Nat) /\ Len(Line(more, Len(more))) = Len(p.places) + (IF Len(more) = 1 THEN 0 ELSE 2)
    BY <1>6, <2>1, LinesOfPieces
  <2> QED BY <1>6, <2>1, <2>2
<1>11. PICK text \in Seq(Nat \X Nat) : text = CandidateText(pieces)
  BY <1>4
<1>12. CandidateText(more) = text \o last
  BY <1>4, <1>5, <1>9, <1>10, <1>11
<1>13. Len(text \o last) = Len(text) + Len(last) /\ Len(text) \in Nat
  <2>1. Len(text) \in Nat
    BY <1>11, LenProperties
  <2> QED BY <1>10, <2>1, ConcatProperties
<1>14. Len(CandidateText(more)) = Len(text) + Len(p.places) + (IF pieces = << >> THEN 0 ELSE 2)
  <2>1. PICK n \in Nat : n = Len(p.places)
    BY <1>6
  <2>2. PICK m \in Nat : m = Len(text)
    BY <1>13
  <2>3. Len(CandidateText(more)) = m + (n + (IF pieces = << >> THEN 0 ELSE 2))
    BY <1>10, <1>12, <1>13, <2>1, <2>2, Zenon
  <2>4. m + (n + (IF pieces = << >> THEN 0 ELSE 2)) = m + n + (IF pieces = << >> THEN 0 ELSE 2)
    OBVIOUS
  <2> QED BY <2>1, <2>2, <2>3, <2>4, Zenon
<1> QED
  BY <1>1, <1>4, <1>5, <1>11, <1>14

LEMMA NoText == CandidateText(<< >>) = << >>
<1>1. PICK lines : lines = [i \in DOMAIN << >> |-> (IF i = 1 THEN << >> ELSE <<<<0, 0>>, <<0, 0>>>>) \o CharactersOf(<< >>[i])]
  OBVIOUS
<1>2. CandidateText(<< >>) = FlattenSeq(lines)
  BY <1>1, Zenon DEF CandidateText
<1>3. lines = << >>
  BY <1>1
<1> QED
  BY <1>2, <1>3, FlattenEmpty

-----------------------------------------------------------------------------
(* The blocks lie in the flattened text one after the other, two characters   *)
(* apart.                                                                     *)
LEMMA LengthsAdd ==
    ASSUME NEW S, NEW n \in Nat, NEW lines, lines \in Seq(S), Len(lines) = n + 1, S = Seq(CharacterKinds),
           NEW fewer, fewer = [a \in 1..n |-> lines[a]]
    PROVE  /\ FlattenSeq(lines) \in Seq(CharacterKinds) /\ FlattenSeq(fewer) \in Seq(CharacterKinds)
           /\ Len(FlattenSeq(lines)) = Len(FlattenSeq(fewer)) + Len(lines[n + 1])
<1>1. \A a \in 1..(n + 1) : lines[a] \in S
  BY ElementOfSeq
<1>2. fewer \in Seq(S) /\ Len(fewer) = n /\ \A a \in 1..n : fewer[a] = lines[a]
  BY <1>1
<1>3. lines \in Seq(Seq(CharacterKinds)) /\ fewer \in Seq(Seq(CharacterKinds))
  BY <1>2
<1>4. FlattenSeq(lines) = FlattenSeq(fewer) \o lines[Len(lines)]
  BY <1>2, <1>3, FlattenExtended
<1>5. FlattenSeq(lines) \in Seq(CharacterKinds) /\ FlattenSeq(fewer) \in Seq(CharacterKinds)
  BY <1>3, FlattenTyped
<1>6. PICK f \in Seq(CharacterKinds) : f = FlattenSeq(fewer)
  BY <1>5
<1>7. PICK g \in Seq(CharacterKinds) : g = lines[n + 1]
  BY <1>1
<1>8. Len(f \o g) = Len(f) + Len(g)
  BY ConcatProperties
<1> QED
  BY <1>4, <1>5, <1>6, <1>7, <1>8

LEMMA BlocksAreLaidOut ==
    ASSUME blocks \in Seq(ChunkBlocks), blocks # << >>, Flatten
    PROVE  /\ flat \in Seq(CharacterKinds) /\ Len(blocks) \in Nat \ {0}
           /\ \A b \in 1..Len(blocks) : /\ Len(blocks[b].text) \in Nat \ {0} /\ BlockStart(b) \in Nat
                                        /\ BlockEnd(b) = BlockStart(b) + Len(blocks[b].text)
           /\ BlockStart(1) = 0
           /\ \A b \in 1..(Len(blocks) - 1) : BlockStart(b + 1) = BlockEnd(b) + 2
           /\ Len(flat) = BlockEnd(Len(blocks))
<1>1. Len(blocks) \in Nat \ {0} /\ DOMAIN blocks = 1..Len(blocks)
  BY EmptySeq, LenProperties
<1>2. \A b \in 1..Len(blocks) : /\ blocks[b].text \in Seq(CharacterKinds) /\ Len(blocks[b].text) \in Nat \ {0}
  <2>1. ASSUME NEW b \in 1..Len(blocks)
        PROVE  blocks[b].text \in Seq(CharacterKinds) /\ Len(blocks[b].text) \in Nat \ {0}
    <3>1. blocks[b] \in ChunkBlocks
      BY ElementOfSeq
    <3>2. blocks[b].text \in Seq(CharacterKinds) \ {<< >>}
      BY <3>1 DEF ChunkBlocks
    <3> QED BY <3>2, EmptySeq
  <2> QED BY <2>1
<1>3. PICK separator \in Seq(CharacterKinds) : separator = Separator /\ Len(separator) = 2
  <2>1. <<"space", "space">> \in Seq(CharacterKinds) /\ Len(<<"space", "space">>) = 2
    BY DEF CharacterKinds
  <2> QED BY <2>1 DEF Separator
<1> DEFINE line(a) == (IF a = 1 THEN << >> ELSE Separator) \o blocks[a].text
           Lines(n) == [a \in 1..n |-> line(a)]
           padded(a) == blocks[a].text \o Separator
           Padded(n) == [a \in 1..n |-> padded(a)]
<1>4. ASSUME NEW a \in 1..Len(blocks)
      PROVE  /\ line(a) \in Seq(CharacterKinds)
             /\ Len(line(a)) = Len(blocks[a].text) + (IF a = 1 THEN 0 ELSE 2)
             /\ padded(a) \in Seq(CharacterKinds)
             /\ Len(padded(a)) = Len(blocks[a].text) + 2
  <2>1. PICK text \in Seq(CharacterKinds) : text = blocks[a].text
    BY <1>2
  <2>2. << >> \o text = text
    BY ConcatEmptySeq
  <2>3. separator \o text \in Seq(CharacterKinds) /\ Len(separator \o text) = Len(separator) + Len(text)
    BY ConcatProperties
  <2>4. text \o separator \in Seq(CharacterKinds) /\ Len(text \o separator) = Len(text) + Len(separator)
    BY ConcatProperties
  <2>5. Len(text) \in Nat
    BY LenProperties
  <2>6. padded(a) \in Seq(CharacterKinds) /\ Len(padded(a)) = Len(text) + 2
    BY <1>3, <2>1, <2>4
  <2>7. CASE a = 1
    <3>1. line(a) = text
      BY <2>1, <2>2, <2>7, Zenon
    <3> HIDE DEF line, padded
    <3> QED BY <2>1, <2>5, <2>6, <2>7, <3>1
  <2>8. CASE a # 1
    <3>1. line(a) = separator \o text
      BY <1>3, <2>1, <2>8, Zenon
    <3> HIDE DEF line, padded
    <3> QED BY <1>3, <2>1, <2>3, <2>5, <2>6, <2>8, <3>1
  <2> QED BY <2>7, <2>8
<1>5. flat = FlattenSeq(Lines(Len(blocks)))
  BY <1>1, Zenon DEF Flatten
<1>6. ASSUME NEW b \in 1..Len(blocks) PROVE BlockStart(b) = Len(FlattenSeq(Padded(b - 1)))
  <2>1. mappings = [c \in DOMAIN blocks |-> Len(FlattenSeq([a \in 1..(c - 1) |-> blocks[a].text \o Separator]))]
    BY Zenon DEF Flatten
  <2> QED BY <1>1, <2>1, Zenon DEF BlockStart
<1> HIDE DEF line, padded
<1>7. ASSUME NEW n \in 0..(Len(blocks) - 1)
      PROVE  /\ FlattenSeq(Lines(n)) \in Seq(CharacterKinds) /\ FlattenSeq(Lines(n + 1)) \in Seq(CharacterKinds)
             /\ Len(FlattenSeq(Lines(n + 1))) = Len(FlattenSeq(Lines(n))) + Len(line(n + 1))
             /\ FlattenSeq(Padded(n)) \in Seq(CharacterKinds)
             /\ Len(FlattenSeq(Padded(n + 1))) = Len(FlattenSeq(Padded(n))) + Len(padded(n + 1))
  <2>1. n \in Nat /\ n + 1 \in 1..(n + 1) /\ \A a \in 1..(n + 1) : a \in 1..Len(blocks)
    BY <1>1
  <2>2. PICK S : S = Seq(CharacterKinds)
    OBVIOUS
  <2>3. \A a \in 1..(n + 1) : line(a) \in S /\ padded(a) \in S
    BY <1>4, <2>1, <2>2
  <2>4. PICK lines : lines = Lines(n + 1)
    OBVIOUS
  <2>5. lines \in Seq(S) /\ Len(lines) = n + 1 /\ Lines(n) = [a \in 1..n |-> lines[a]] /\ lines[n + 1] = line(n + 1)
    BY <2>1, <2>3, <2>4
  <2>6. PICK pads : pads = Padded(n + 1)
    OBVIOUS
  <2>7. pads \in Seq(S) /\ Len(pads) = n + 1 /\ Padded(n) = [a \in 1..n |-> pads[a]] /\ pads[n + 1] = padded(n + 1)
    BY <2>1, <2>3, <2>6
  <2> HIDE DEF Lines, Padded
  <2>8. /\ FlattenSeq(lines) \in Seq(CharacterKinds) /\ FlattenSeq(Lines(n)) \in Seq(CharacterKinds)
        /\ Len(FlattenSeq(lines)) = Len(FlattenSeq(Lines(n))) + Len(lines[n + 1])
    BY <2>1, <2>2, <2>5, LengthsAdd
  <2>9. /\ FlattenSeq(Padded(n)) \in Seq(CharacterKinds)
        /\ Len(FlattenSeq(pads)) = Len(FlattenSeq(Padded(n))) + Len(pads[n + 1])
    BY <2>1, <2>2, <2>7, LengthsAdd
  <2> QED BY <2>4, <2>5, <2>6, <2>7, <2>8, <2>9
<1>8. Lines(0) = << >> /\ Padded(0) = << >>
  OBVIOUS
<1> HIDE DEF Lines, Padded
<1>9. Len(FlattenSeq(Lines(0))) = 0 /\ Len(FlattenSeq(Padded(0))) = 0
  BY <1>8, FlattenEmpty, EmptySeq
<1>10. flat \in Seq(CharacterKinds)
  <2>1. Len(blocks) - 1 \in 0..(Len(blocks) - 1) /\ (Len(blocks) - 1) + 1 = Len(blocks)
    BY <1>1
  <2> QED BY <1>5, <1>7, <2>1
<1>11. ASSUME NEW b \in 1..Len(blocks)
       PROVE  /\ BlockStart(b) \in Nat /\ BlockEnd(b) = BlockStart(b) + Len(blocks[b].text)
  <2>1. b - 1 \in 0..(Len(blocks) - 1)
    BY <1>1
  <2>2. FlattenSeq(Padded(b - 1)) \in Seq(CharacterKinds)
    BY <1>7, <2>1
  <2>3. BlockStart(b) \in Nat
    BY <1>6, <2>2, LenProperties
  <2> QED BY <2>3 DEF BlockStart, BlockEnd
<1>12. BlockStart(1) = 0
  <2>1. 1 \in 1..Len(blocks) /\ 1 - 1 = 0
    BY <1>1
  <2> QED BY <1>6, <1>9, <2>1
<1>13. ASSUME NEW b \in 1..(Len(blocks) - 1) PROVE BlockStart(b + 1) = BlockEnd(b) + 2
  <2>1. /\ b \in 1..Len(blocks) /\ b + 1 \in 1..Len(blocks) /\ (b + 1) - 1 = b
        /\ b - 1 \in 0..(Len(blocks) - 1) /\ (b - 1) + 1 = b
    BY <1>1
  <2>2. Len(FlattenSeq(Padded(b))) = Len(FlattenSeq(Padded(b - 1))) + Len(padded(b))
    BY <1>7, <2>1
  <2>3. PICK n \in Nat : n = Len(blocks[b].text)
    BY <1>2, <2>1
  <2>4. Len(padded(b)) = n + 2
    BY <1>4, <2>1, <2>3
  <2>5. PICK m \in Nat : m = BlockStart(b)
    BY <1>11, <2>1
  <2>6. BlockStart(b + 1) = m + (n + 2) /\ BlockEnd(b) = m + n
    BY <1>6, <1>11, <2>1, <2>2, <2>3, <2>4, <2>5
  <2> QED BY <2>6
<1>14. Len(flat) = BlockEnd(Len(blocks))
  <2> DEFINE T == {n \in Nat : n + 1 <= Len(blocks) => Len(FlattenSeq(Lines(n + 1))) = BlockEnd(n + 1)}
  <2>1. 0 \in T
    <3>1. 0 \in 0..(Len(blocks) - 1) /\ 0 + 1 = 1 /\ 1 \in 1..Len(blocks)
      BY <1>1
    <3>2. Len(FlattenSeq(Lines(1))) = Len(FlattenSeq(Lines(0))) + Len(line(1))
      BY <1>7, <3>1
    <3>3. Len(line(1)) = Len(blocks[1].text) + 0 /\ Len(blocks[1].text) \in Nat
      BY <1>2, <1>4, <3>1
    <3>4. Len(FlattenSeq(Lines(1))) = Len(blocks[1].text)
      BY <1>9, <3>2, <3>3
    <3>5. BlockEnd(1) = Len(blocks[1].text)
      BY <1>2, <1>11, <1>12, <3>1
    <3> QED BY <3>1, <3>4, <3>5
  <2>2. ASSUME NEW n \in Nat, n \in T PROVE n + 1 \in T
    <3>1. SUFFICES ASSUME (n + 1) + 1 <= Len(blocks)
                   PROVE  Len(FlattenSeq(Lines((n + 1) + 1))) = BlockEnd((n + 1) + 1)
      OBVIOUS
    <3>2. PICK b \in 1..(Len(blocks) - 1) : b = n + 1
      BY <1>1, <3>1
    <3>3. Len(FlattenSeq(Lines(b))) = BlockEnd(b)
      BY <2>2, <3>1, <3>2
    <3>4. b \in 0..(Len(blocks) - 1) /\ b + 1 \in 1..Len(blocks) /\ b + 1 # 1 /\ b \in 1..Len(blocks)
      BY <1>1
    <3>5. Len(FlattenSeq(Lines(b + 1))) = Len(FlattenSeq(Lines(b))) + Len(line(b + 1))
      BY <1>7, <3>4
    <3>6. PICK m \in Nat : m = Len(blocks[b + 1].text)
      BY <1>2, <3>4
    <3>7. Len(line(b + 1)) = m + 2
      BY <1>4, <3>4, <3>6
    <3>8. PICK e \in Nat : e = BlockEnd(b)
      BY <1>2, <1>11, <3>4
    <3>9. BlockEnd(b + 1) = (e + 2) + m
      BY <1>11, <1>13, <3>4, <3>6, <3>8
    <3>10. Len(FlattenSeq(Lines(b + 1))) = e + (m + 2)
      BY <3>3, <3>5, <3>7, <3>8
    <3> QED BY <3>2, <3>9, <3>10
  <2> HIDE DEF T
  <2>3. Len(blocks) - 1 \in T
    <3>1. Len(blocks) - 1 \in Nat
      BY <1>1
    <3> QED BY <2>1, <2>2, <3>1, Counting
  <2>4. (Len(blocks) - 1) + 1 = Len(blocks) /\ Len(blocks) <= Len(blocks)
    BY <1>1
  <2> QED BY <1>5, <2>3, <2>4 DEF T
<1> QED
  BY <1>1, <1>2, <1>10, <1>11, <1>12, <1>13, <1>14

-----------------------------------------------------------------------------
(* A window takes its part of the blocks it meets.                            *)
LaidOut ==
    /\ Len(blocks) \in Nat \ {0} /\ DOMAIN blocks = 1..Len(blocks)
    /\ \A b \in 1..Len(blocks) : /\ Len(blocks[b].text) \in Nat \ {0} /\ BlockStart(b) \in Nat
                                 /\ BlockEnd(b) = BlockStart(b) + Len(blocks[b].text)
    /\ BlockStart(1) = 0
    /\ \A b \in 1..(Len(blocks) - 1) : BlockStart(b + 1) = BlockEnd(b) + 2
    /\ Len(flat) = BlockEnd(Len(blocks))

Inside(b, from, to) == BlockStart(b) < to /\ from < BlockEnd(b)
PieceOf(b, from, to) ==
    Slice(b, (IF from > BlockStart(b) THEN from - BlockStart(b) ELSE 0), AtMost(to, BlockEnd(b)) - BlockStart(b))
InWindow(b, from, to) == IF Inside(b, from, to) THEN <<PieceOf(b, from, to)>> ELSE << >>

TakesItsPlaces(b, from, to) ==
    \A i \in 1..Len(blocks[b].text) : from < BlockStart(b) + i /\ BlockStart(b) + i <= to =>
      \E k \in 1..Len(PieceOf(b, from, to).places) : PieceOf(b, from, to).places[k] = i

(* What a window takes of a block it meets is not empty and within the        *)
(* window.                                                                    *)
LEMMA WindowsTakeTheirPart ==
    ASSUME LaidOut, NEW b \in 1..Len(blocks), NEW from \in Nat, NEW to \in Nat, from < to, Inside(b, from, to)
    PROVE  /\ PieceOf(b, from, to) \in AllPieces /\ PieceOf(b, from, to).block = b
           /\ Len(PieceOf(b, from, to).places) \in 1..(AtMost(to, BlockEnd(b)) - from)
           /\ Len(PieceOf(b, from, to).places) <= AtMost(to, BlockEnd(b)) - BlockStart(b)
           /\ TakesItsPlaces(b, from, to)
<1>1. PICK n \in Nat \ {0} : n = Len(blocks[b].text)
  BY DEF LaidOut
<1>2. PICK s \in Nat : s = BlockStart(b)
  BY DEF LaidOut
<1>3. BlockEnd(b) = s + n
  BY <1>1, <1>2 DEF LaidOut
<1>4. s < to /\ from < s + n
  BY <1>2, <1>3 DEF Inside
<1>5. PICK f \in Nat : f = IF from > s THEN from - s ELSE 0
  <2>1. (IF from > s THEN from - s ELSE 0) \in Nat
    OBVIOUS
  <2> QED BY <2>1
<1>6. PICK t \in Nat : t = AtMost(to, s + n) - s
  BY <1>4 DEF AtMost
<1>7. PieceOf(b, from, to) = Slice(b, f, t)
  BY <1>2, <1>3, <1>5, <1>6, Zenon DEF PieceOf
<1>8. f < t /\ t - f \in 1..(AtMost(to, s + n) - from) /\ t - f <= AtMost(to, s + n) - s
  BY <1>4, <1>5, <1>6 DEF AtMost
<1>9. PICK p : p = Slice(b, f, t)
  OBVIOUS
<1>10. p \in AllPieces /\ p.block = b /\ Len(p.places) = t - f /\ \A i \in 1..(t - f) : p.places[i] = f + i
  <2>1. PICK m \in Nat : m = t - f
    BY <1>8
  <2>2. PICK places : places = [i \in 1..m |-> f + i]
    OBVIOUS
  <2>3. places \in Seq(Nat) /\ Len(places) = m /\ \A i \in 1..m : places[i] = f + i
    BY <2>2
  <2>4. p = [block |-> b, places |-> places]
    BY <1>9, <2>1, <2>2 DEF Slice, Piece
  <2>5. b \in Nat
    BY DEF LaidOut
  <2> QED BY <2>1, <2>3, <2>4, <2>5 DEF AllPieces
<1>11. ASSUME NEW i \in 1..n, from < s + i, s + i <= to PROVE \E k \in 1..Len(p.places) : p.places[k] = i
  <2>1. PICK k \in 1..(t - f) : k = i - f
    <3>1. f < i
      BY <1>5, <1>11
    <3>2. i <= t
      BY <1>6, <1>11 DEF AtMost
    <3>3. i - f \in 1..(t - f)
      BY <3>1, <3>2
    <3> QED BY <3>3
  <2>2. f + k = i
    BY <2>1
  <2>3. p.places[k] = i
    BY <1>10, <2>2
  <2> QED BY <1>10, <2>3
<1> QED
  BY <1>1, <1>2, <1>3, <1>7, <1>8, <1>9, <1>10, <1>11 DEF TakesItsPlaces

KeepsWindow(pieces, from, to) ==
    \A b \in 1..Len(blocks) : \A i \in 1..Len(blocks[b].text) :
      from < BlockStart(b) + i /\ BlockStart(b) + i <= to => Keeps(pieces, b, i)

(* The pieces of a window are no longer than it and keep all of its           *)
(* characters.                                                                *)
LEMMA WindowsHavePieces ==
    ASSUME LaidOut, NEW from \in Nat, NEW to \in Nat, from < to
    PROVE  /\ PiecesFor(from, to) \in Seq(AllPieces)
           /\ PiecesFor(from, to) # << >> => Len(CandidateText(PiecesFor(from, to))) \in 1..(to - from)
           /\ KeepsWindow(PiecesFor(from, to), from, to)
<1> DEFINE Parts(n) == [b \in 1..n |-> InWindow(b, from, to)]
           Text(n) == CandidateText(FlattenSeq(Parts(n)))
<1>1. Len(blocks) \in Nat \ {0} /\ DOMAIN blocks = 1..Len(blocks)
  BY DEF LaidOut
<1>2. PiecesFor(from, to) = FlattenSeq([b \in DOMAIN blocks |-> InWindow(b, from, to)])
  BY Zenon DEF PiecesFor, InWindow, Inside, PieceOf
<1>3. PiecesFor(from, to) = FlattenSeq(Parts(Len(blocks)))
  BY <1>1, <1>2, Zenon
<1>4. ASSUME NEW b \in 1..Len(blocks)
      PROVE  /\ InWindow(b, from, to) \in Seq(AllPieces)
             /\ Inside(b, from, to) => Len(InWindow(b, from, to)) = 1 /\ InWindow(b, from, to)[1] = PieceOf(b, from, to)
  <2>1. CASE Inside(b, from, to)
    <3>1. PICK p \in AllPieces : p = PieceOf(b, from, to)
      BY <2>1, WindowsTakeTheirPart
    <3>2. <<p>> \in Seq(AllPieces) /\ Len(<<p>>) = 1 /\ <<p>>[1] = p
      OBVIOUS
    <3> QED BY <2>1, <3>1, <3>2 DEF InWindow
  <2>2. CASE ~ Inside(b, from, to)
    <3>1. InWindow(b, from, to) = << >>
      BY <2>2, Zenon DEF InWindow
    <3>2. << >> \in Seq(AllPieces)
      BY EmptySeq
    <3> QED BY <2>2, <3>1, <3>2
  <2> QED BY <2>1, <2>2
<1>5. ASSUME NEW n \in 0..Len(blocks)
      PROVE  Parts(n) \in Seq(Seq(AllPieces)) /\ Len(Parts(n)) = n /\ FlattenSeq(Parts(n)) \in Seq(AllPieces)
  <2>1. PICK parts : parts = Parts(n)
    OBVIOUS
  <2>2. \A b \in 1..n : InWindow(b, from, to) \in Seq(AllPieces)
    BY <1>1, <1>4
  <2>3. parts \in Seq(Seq(AllPieces)) /\ Len(parts) = n
    BY <2>1, <2>2
  <2> HIDE DEF Parts
  <2> QED BY <2>1, <2>3, FlattenTyped
<1>6. ASSUME NEW n \in 0..(Len(blocks) - 1)
      PROVE  FlattenSeq(Parts(n + 1)) = FlattenSeq(Parts(n)) \o InWindow(n + 1, from, to)
  <2>1. n \in 0..Len(blocks) /\ n + 1 \in 0..Len(blocks) /\ n + 1 \in 1..(n + 1)
    BY <1>1
  <2>2. PICK fewer : fewer = Parts(n)
    OBVIOUS
  <2>3. PICK parts : parts = Parts(n + 1)
    OBVIOUS
  <2>4. /\ parts[n + 1] = InWindow(n + 1, from, to) /\ \A b \in 1..n : parts[b] = fewer[b]
    BY <2>1, <2>2, <2>3
  <2> HIDE DEF Parts
  <2>5. /\ fewer \in Seq(Seq(AllPieces)) /\ Len(fewer) = n /\ parts \in Seq(Seq(AllPieces)) /\ Len(parts) = n + 1
    BY <1>5, <2>1, <2>2, <2>3
  <2>6. FlattenSeq(parts) = FlattenSeq(fewer) \o parts[Len(parts)]
    BY <2>4, <2>5, FlattenExtended
  <2> QED BY <2>2, <2>3, <2>4, <2>5, <2>6
<1>7. FlattenSeq(Parts(0)) = << >>
  <2>1. Parts(0) = << >>
    OBVIOUS
  <2> QED BY <2>1, FlattenEmpty
<1> HIDE DEF Parts, Text
<1> DEFINE Fit(n) == FlattenSeq(Parts(n)) # << >> => n >= 1 /\ Len(Text(n)) \in 1..(AtMost(to, BlockEnd(n)) - from)
           T == {n \in Nat : n <= Len(blocks) => Fit(n)}
<1>8. 0 \in T
  BY <1>7
<1>9. ASSUME NEW n \in Nat, n \in T PROVE n + 1 \in T
  <2>1. SUFFICES ASSUME n + 1 <= Len(blocks), FlattenSeq(Parts(n + 1)) # << >>
                 PROVE  Len(Text(n + 1)) \in 1..(AtMost(to, BlockEnd(n + 1)) - from)
    OBVIOUS
  <2>2. n \in 0..(Len(blocks) - 1) /\ n \in 0..Len(blocks) /\ n + 1 \in 1..Len(blocks)
    BY <1>1, <2>1
  <2>3. Fit(n)
    BY <1>9, <2>1
  <2>4. PICK s \in Nat : s = BlockStart(n + 1)
    BY <2>2 DEF LaidOut
  <2>5. PICK e \in Nat : e = BlockEnd(n + 1) /\ s < e
    BY <2>2, <2>4 DEF LaidOut
  <2>6. PICK pieces \in Seq(AllPieces) : pieces = FlattenSeq(Parts(n))
    BY <1>5, <2>2
  <2>7. n >= 1 => BlockEnd(n) \in Nat /\ s = BlockEnd(n) + 2
    <3>1. ASSUME n >= 1 PROVE BlockEnd(n) \in Nat /\ s = BlockEnd(n) + 2
      <4>1. n \in 1..(Len(blocks) - 1) /\ n \in 1..Len(blocks)
        BY <2>2, <3>1
      <4>2. BlockStart(n + 1) = BlockEnd(n) + 2
        BY <4>1 DEF LaidOut
      <4>3. BlockEnd(n) \in Nat
        BY <4>1 DEF LaidOut
      <4> QED BY <2>4, <4>2, <4>3
    <3> QED BY <3>1
  <2> HIDE DEF T, Fit
  <2>8. CASE ~ Inside(n + 1, from, to)
    <3>1. FlattenSeq(Parts(n + 1)) = pieces
      <4>1. InWindow(n + 1, from, to) = << >>
        BY <2>8, Zenon DEF InWindow
      <4> QED BY <1>6, <2>2, <2>6, <4>1, ConcatEmptySeq
    <3>2. PICK m : m = Len(Text(n))
      OBVIOUS
    <3>3. n >= 1 /\ m \in 1..(AtMost(to, BlockEnd(n)) - from) /\ Len(Text(n + 1)) = m
      BY <2>1, <2>3, <2>6, <3>1, <3>2 DEF Fit, Text
    <3>4. AtMost(to, BlockEnd(n)) <= AtMost(to, e) /\ AtMost(to, BlockEnd(n)) \in Nat /\ AtMost(to, e) \in Nat
      BY <2>5, <2>7, <3>3 DEF AtMost
    <3>5. m \in 1..(AtMost(to, e) - from)
      BY <3>3, <3>4
    <3> QED BY <2>5, <3>3, <3>5
  <2>9. CASE Inside(n + 1, from, to)
    <3>1. PICK p \in AllPieces : p = PieceOf(n + 1, from, to)
      BY <2>2, <2>9, WindowsTakeTheirPart
    <3>2. PICK size : size = Len(p.places)
      OBVIOUS
    <3>3. size \in 1..(AtMost(to, e) - from) /\ size <= AtMost(to, e) - s
      BY <2>2, <2>4, <2>5, <2>9, <3>1, <3>2, WindowsTakeTheirPart
    <3>4. FlattenSeq(Parts(n + 1)) = Append(pieces, p)
      <4>1. InWindow(n + 1, from, to) = <<p>>
        BY <2>9, <3>1, Zenon DEF InWindow
      <4> QED BY <1>6, <2>2, <2>6, <4>1, AppendIsConcat
    <3>5. PICK m : m = Len(CandidateText(pieces))
      OBVIOUS
    <3>6. Len(Text(n + 1)) = m + size + (IF pieces = << >> THEN 0 ELSE 2)
      BY <3>2, <3>4, <3>5, TextsGrow DEF Text
    <3>7. CASE pieces = << >>
      <4>1. m = 0
        BY <3>5, <3>7, NoText, EmptySeq
      <4>2. Len(Text(n + 1)) = size
        BY <3>3, <3>6, <3>7, <4>1
      <4> QED BY <2>5, <3>3, <4>2
    <3>8. CASE pieces # << >>
      <4>1. n >= 1 /\ m \in 1..(AtMost(to, BlockEnd(n)) - from)
        BY <2>3, <2>6, <3>5, <3>8 DEF Fit, Text
      <4>2. PICK d \in Nat : d = BlockEnd(n) /\ s = d + 2
        BY <2>7, <4>1
      <4>3. m <= d - from
        BY <4>1, <4>2 DEF AtMost
      <4>4. Len(Text(n + 1)) = m + size + 2
        BY <3>6, <3>8
      <4>5. m + size + 2 \in 1..(AtMost(to, e) - from)
        BY <3>3, <4>1, <4>2, <4>3 DEF AtMost
      <4> QED BY <2>5, <4>4, <4>5
    <3> QED BY <3>7, <3>8
  <2> QED BY <2>8, <2>9
<1>10. Len(blocks) \in T
  <2> HIDE DEF T
  <2> QED BY <1>1, <1>8, <1>9, Counting
<1>11. Fit(Len(blocks)) /\ Len(blocks) \in 0..Len(blocks) /\ Len(blocks) \in 1..Len(blocks)
  BY <1>1, <1>10
<1>12. FlattenSeq(Parts(Len(blocks))) # << >> => Len(Text(Len(blocks))) \in 1..(to - from)
  <2>1. AtMost(to, BlockEnd(Len(blocks))) <= to /\ AtMost(to, BlockEnd(Len(blocks))) \in Nat
    BY <1>11 DEF LaidOut, AtMost
  <2> HIDE DEF T
  <2> QED BY <1>11, <2>1
<1>13. ASSUME NEW b \in 1..Len(blocks), NEW i \in 1..Len(blocks[b].text), from < BlockStart(b) + i, BlockStart(b) + i <= to
       PROVE  Keeps(PiecesFor(from, to), b, i)
  <2>1. Inside(b, from, to)
    <3>1. PICK s \in Nat : s = BlockStart(b)
      BY DEF LaidOut
    <3>2. PICK n \in Nat : n = Len(blocks[b].text)
      BY DEF LaidOut
    <3>3. BlockEnd(b) = s + n
      BY <3>1, <3>2 DEF LaidOut
    <3> QED BY <1>13, <3>1, <3>2, <3>3 DEF Inside
  <2>2. PICK p : p = PieceOf(b, from, to) /\ p.block = b /\ \E k \in 1..Len(p.places) : p.places[k] = i
    <3>1. PieceOf(b, from, to).block = b
      BY <2>1, WindowsTakeTheirPart
    <3>2. \E k \in 1..Len(PieceOf(b, from, to).places) : PieceOf(b, from, to).places[k] = i
      <4>1. TakesItsPlaces(b, from, to)
        BY <2>1, WindowsTakeTheirPart
      <4> QED BY <1>13, <4>1 DEF TakesItsPlaces
    <3> QED BY <3>1, <3>2
  <2>3. Len(InWindow(b, from, to)) = 1 /\ InWindow(b, from, to)[1] = p
    BY <1>4, <2>1, <2>2
  <2>4. PICK parts : parts = Parts(Len(blocks))
    OBVIOUS
  <2>5. parts \in Seq(Seq(AllPieces)) /\ Len(parts) = Len(blocks) /\ parts[b] = InWindow(b, from, to)
    BY <1>5, <1>11, <2>4 DEF Parts
  <2>6. b \in 1..Len(parts) /\ 1 \in 1..Len(parts[b])
    <3>1. b \in 1..Len(parts)
      BY <2>5
    <3>2. Len(parts[b]) = 1
      BY <2>3, <2>5
    <3> QED BY <3>1, <3>2
  <2>7. \E k \in 1..Len(FlattenSeq(parts)) : FlattenSeq(parts)[k] = parts[b][1]
    BY <2>5, <2>6, FlattenHolds
  <2> QED BY <1>3, <2>2, <2>3, <2>4, <2>5, <2>7 DEF Keeps
<1> QED
  BY <1>3, <1>5, <1>11, <1>12, <1>13 DEF Text, KeepsWindow

-----------------------------------------------------------------------------
(* A window ends behind its start, and no more than maximum_size behind it.   *)
Numbers(k) ==
    /\ k.target \in Nat \ {0} /\ k.maximum \in Nat \ {0} /\ k.minimum \in Nat /\ k.overlap \in Nat
    /\ k.target <= k.maximum /\ k.minimum <= k.target /\ k.overlap < k.target

(* The sizes of a valid configuration.                                        *)
LEMMA SizesAreValid ==
    ASSUME NEW k \in ChunkConfigurations
    PROVE  Numbers(k)
BY ConfigurationsAssumption DEF ValidSizes, Numbers

LEMMA PointsAreNumbers ==
    ASSUME LaidOut, Numbers(configuration), start \in Nat, Len(flat) \in Nat, NEW maximum \in Nat,
           NEW preference \in {"section", "paragraph", "sentence", "whitespace", "character"}
    PROVE  Points(preference, maximum) \subseteq Int
<1>1. Boundaries(TRUE) \subseteq Int /\ Boundaries(FALSE) \subseteq Int
  <2>1. \A b \in DOMAIN blocks : BlockEnd(b) \in Int
    BY DEF LaidOut
  <2> QED BY <2>1 DEF Boundaries
<1>2. WhitespaceEnds(flat, start, maximum) \subseteq Int /\ SentenceEnds(flat, start, maximum) \subseteq Int
  BY DEF WhitespaceEnds, SentenceEnds
<1>3. {Preferred} \subseteq Int
  BY DEF Preferred, AtMost, Numbers
<1> QED
  BY <1>1, <1>2, <1>3 DEF Points

(* Whatever boundary is chosen, the window ends behind its start, within the  *)
(* text and within maximum_size.                                              *)
LEMMA WindowsEnd ==
    ASSUME LaidOut, Len(flat) \in Nat, configuration \in ChunkConfigurations, start \in Nat, start < Len(flat)
    PROVE  /\ ChooseEnd \in (start + 1)..Len(flat)
           /\ ChooseEnd - start <= configuration.maximum
<1> DEFINE maximum == start + configuration.maximum
           Usable(preference) ==
             {p \in Points(preference, maximum) : start + configuration.minimum <= p /\ p <= maximum}
           first == SelectInSeq(configuration.boundary_preference, LAMBDA f : Usable(f) # {})
           usable == Usable(configuration.boundary_preference[first])
           before == {p \in usable : p <= Preferred}
           end == IF before # {} THEN Max(before) ELSE Min(usable)
           preferences == {"section", "paragraph", "sentence", "whitespace", "character"}
<1>1. ChooseEnd = IF maximum >= Len(flat) THEN Len(flat) ELSE IF end <= start THEN maximum ELSE end
  BY Zenon DEF ChooseEnd
<1>2. Numbers(configuration)
  BY SizesAreValid
<1>3. PICK size \in Nat \ {0} : size = configuration.maximum
  BY <1>2 DEF Numbers
<1>4. CASE maximum >= Len(flat)
  <2>1. ChooseEnd = Len(flat)
    BY <1>1, <1>4, Zenon
  <2> HIDE DEF end
  <2> QED BY <1>3, <1>4, <2>1
<1>5. CASE ~ (maximum >= Len(flat))
  <2>1. \A f \in preferences : Usable(f) \subseteq Int /\ \A p \in Usable(f) : p <= maximum
    <3>1. maximum \in Nat
      BY <1>3
    <3> HIDE DEF maximum
    <3>2. \A f \in preferences : Points(f, maximum) \subseteq Int
      BY <1>2, <3>1, PointsAreNumbers
    <3> QED BY <3>2
  <2>2. Usable("character") # {}
    <3>1. Preferred = start + configuration.target
      BY <1>2, <1>5 DEF Preferred, AtMost, Numbers
    <3>2. start + configuration.minimum <= Preferred /\ Preferred <= maximum
      BY <1>2, <3>1 DEF Numbers
    <3>3. Preferred \in Points("character", maximum)
      BY DEF Points
    <3> QED BY <3>2, <3>3
  <2>3. /\ configuration.boundary_preference \in Seq(preferences)
        /\ \E i \in DOMAIN configuration.boundary_preference : configuration.boundary_preference[i] = "character"
    BY ConfigurationsAssumption
  <2> HIDE DEF Usable, preferences
  <2>4. PICK n \in 1..Len(configuration.boundary_preference) : n = first /\ Usable(configuration.boundary_preference[n]) # {}
    <3> DEFINE I == {i \in 1..Len(configuration.boundary_preference) : Usable(configuration.boundary_preference[i]) # {}}
    <3>1. first = IF I # {} THEN Min(I) ELSE 0
      BY Zenon DEF SelectInSeq
    <3>2. I # {} /\ I \in SUBSET Nat
      <4>1. PICK i \in DOMAIN configuration.boundary_preference : configuration.boundary_preference[i] = "character"
        BY <2>3
      <4>2. i \in 1..Len(configuration.boundary_preference)
        BY <2>3, LenProperties
      <4>3. i \in I
        BY <2>2, <4>1, <4>2
      <4>4. I \in SUBSET Nat
        OBVIOUS
      <4> HIDE DEF I
      <4> QED BY <4>3, <4>4
    <3>3. Min(I) \in I
      BY <3>2, MinIsLeast
    <3> QED BY <3>1, <3>2, <3>3
  <2>5. PICK preference \in preferences : preference = configuration.boundary_preference[n]
    BY <2>3, ElementOfSeq
  <2>6. usable = Usable(preference)
    BY <2>4, <2>5, Zenon
  <2>7. usable # {} /\ usable \in SUBSET Int /\ \A p \in usable : p <= maximum
    BY <2>1, <2>4, <2>5, <2>6
  <2>8. \A p \in usable : start <= p
    <3>1. usable = {p \in Points(preference, maximum) : start + configuration.minimum <= p /\ p <= maximum}
      BY <2>6, Zenon DEF Usable
    <3> HIDE DEF usable, maximum
    <3>2. PICK minimum \in Nat : minimum = configuration.minimum
      BY <1>2 DEF Numbers
    <3> QED BY <2>7, <3>1, <3>2
  <2> HIDE DEF usable, first
  <2>9. end \in usable
    <3>1. CASE before # {}
      <4>1. before \in SUBSET Int /\ maximum \in Int /\ \A p \in before : p <= maximum
        <5>1. before \subseteq usable
          OBVIOUS
        <5>2. maximum \in Int
          BY <1>3
        <5> HIDE DEF before, maximum
        <5> QED BY <2>7, <5>1, <5>2
      <4>2. Max(before) \in before
        <5> HIDE DEF before, maximum
        <5> QED BY <3>1, <4>1, MaxIsGreatest
      <4> QED BY <3>1, <4>2
    <3>2. CASE before = {}
      <4>1. usable \in SUBSET Nat
        BY <2>7, <2>8
      <4>2. Min(usable) \in usable
        BY <2>7, <4>1, MinIsLeast
      <4> QED BY <3>2, <4>2
    <3> QED BY <3>1, <3>2
  <2>10. ChooseEnd = IF end <= start THEN maximum ELSE end
    BY <1>1, <1>5, Zenon
  <2>11. end \in Int /\ end <= maximum
    BY <2>7, <2>9
  <2> HIDE DEF end
  <2> QED BY <1>3, <1>5, <2>10, <2>11
<1> QED
  BY <1>4, <1>5

(* The next window starts behind the last start and reaches back by no more   *)
(* than the overlap.                                                          *)
LEMMA WindowsAdvance ==
    ASSUME Numbers(configuration), start \in Nat, NEW end \in Nat, start < end
    PROVE  /\ NextStart(end) \in (start + 1)..end
           /\ end - NextStart(end) <= configuration.overlap
BY DEF Numbers, NextStart, AtMost

-----------------------------------------------------------------------------
(* The inductive invariant.  A candidate is sound when it fits and keeps      *)
(* sections apart; the candidates of a window strategy hold every character   *)
(* up to the end of the last window, those of structural and the pieces not   *)
(* yet packed every character.                                                *)
Together(pieces) ==
    \A i \in 1..Len(pieces) :
      /\ IsPrefix(PathOf(pieces[1]), PathOf(pieces[i]))
      /\ blocks[pieces[i].block].type # "section" => PathOf(pieces[i]) = PathOf(pieces[1])
PiecesFit(pieces) ==
    /\ Len(CandidateText(pieces)) > 0
    /\ Len(CandidateText(pieces)) <= configuration.maximum \/ IsBareHeader(pieces)
SoundCandidates ==
    {c \in [pieces : Seq(AllPieces), overlap : Nat] :
       /\ PiecesFit(c.pieces) /\ c.overlap <= configuration.overlap
       /\ configuration.strategy_name = "structural" => Together(c.pieces)}
KeptIn(cut, b, i) == \E c \in 1..Len(cut) : Keeps(cut[c].pieces, b, i)

InputsSound ==
    /\ blocks \in Seq(ChunkBlocks) /\ blocks # << >> /\ configuration \in ChunkConfigurations
    /\ flat \in Seq(CharacterKinds) /\ LaidOut

HeldUpTo(cut, end) ==
    \A b \in 1..Len(blocks) : \A i \in 1..Len(blocks[b].text) : BlockStart(b) + i <= end => KeptIn(cut, b, i)
WindowsSlide ==
    /\ start \in Nat /\ previousEnd \in Nat
    /\ start <= previousEnd /\ previousEnd - start <= configuration.overlap
    /\ Len(candidates) <= start /\ Len(candidates) <= Len(flat)
    /\ HeldUpTo(candidates, previousEnd)
    /\ pc = "done" => Len(flat) <= previousEnd

IsLineBreak(b, i) == blocks[b].rows # << >> /\ blocks[b].text[i] = "space"
AllHeld(cut, waiting, packed) ==
    \A b \in 1..Len(blocks) : \A i \in 1..Len(blocks[b].text) :
      IsLineBreak(b, i) \/ KeptIn(cut, b, i) \/ Keeps(waiting, b, i) \/ Keeps(packed, b, i)
PiecesPack ==
    /\ expanded \in Seq(SoundPieces) /\ current \in Seq(SoundPieces)
    /\ Together(current)
    /\ currentSize = Len(CandidateText(current))
    /\ current # << >> => currentSize \in 1..configuration.maximum
    /\ AllHeld(candidates, expanded, current)
    /\ pc = "done" => expanded = << >> /\ current = << >>

CuttingInv ==
    /\ InputsSound
    /\ candidates \in Seq(SoundCandidates)
    /\ configuration.strategy_name = "fixed_window" => WindowsSlide
    /\ configuration.strategy_name = "structural" => PiecesPack
    /\ pc = "done" => configuration.strategy_name \in {"fixed_window", "structural"}

(* What is said of the input alone stays true as long as the input stays.     *)
LEMMA InputsStay ==
    ASSUME UNCHANGED input
    PROVE  /\ InputsSound' <=> InputsSound
           /\ SoundCandidates' = SoundCandidates
           /\ SoundPieces' = SoundPieces
           /\ configuration' = configuration
           /\ \A pieces : Together(pieces)' <=> Together(pieces)
           /\ \A cut, end : HeldUpTo(cut, end)' <=> HeldUpTo(cut, end)
           /\ \A cut, waiting, packed : AllHeld(cut, waiting, packed)' <=> AllHeld(cut, waiting, packed)
<1>1. blocks' = blocks /\ configuration' = configuration /\ flat' = flat /\ mappings' = mappings
  BY DEF input
<1>2. \A b : (BlockStart(b))' = BlockStart(b) /\ (BlockEnd(b))' = BlockEnd(b)
  BY <1>1 DEF BlockStart, BlockEnd
<1>3. InputsSound' <=> InputsSound
  BY <1>1, Zenon DEF InputsSound, LaidOut, BlockStart, BlockEnd
<1>4. \A pieces : Together(pieces)' <=> Together(pieces)
  BY <1>1, Zenon DEF Together, PathOf
<1>5. \A pieces : IsBareHeader(pieces)' <=> IsBareHeader(pieces)
  BY <1>1 DEF IsBareHeader
<1>6. SoundPieces' = SoundPieces
  BY <1>1, Zenon DEF SoundPieces, IsBareHeader
<1>7. SoundCandidates' = SoundCandidates
  BY <1>1, Zenon DEF SoundCandidates, PiecesFit, IsBareHeader, Together, PathOf
<1>8. \A cut, end : HeldUpTo(cut, end)' <=> HeldUpTo(cut, end)
  BY <1>1, <1>2 DEF HeldUpTo
<1>9. \A cut, waiting, packed : AllHeld(cut, waiting, packed)' <=> AllHeld(cut, waiting, packed)
  BY <1>1, Zenon DEF AllHeld, IsLineBreak
<1> QED
  BY <1>1, <1>3, <1>4, <1>6, <1>7, <1>8, <1>9

(* A sound candidate is added, and loses nothing kept before.                 *)
LEMMA CandidatesAreAdded ==
    ASSUME NEW cut \in Seq(SoundCandidates), NEW pieces \in Seq(AllPieces), NEW overlap \in Nat,
           PiecesFit(pieces), overlap <= configuration.overlap,
           configuration.strategy_name = "structural" => Together(pieces)
    PROVE  /\ Append(cut, Candidate(pieces, overlap)) \in Seq(SoundCandidates)
           /\ Len(Append(cut, Candidate(pieces, overlap))) = Len(cut) + 1
           /\ \A b, i : KeptIn(cut, b, i) \/ Keeps(pieces, b, i) =>
                KeptIn(Append(cut, Candidate(pieces, overlap)), b, i)
<1>1. PICK c : c = Candidate(pieces, overlap)
  OBVIOUS
<1>2. c \in SoundCandidates /\ c.pieces = pieces
  BY <1>1 DEF Candidate, SoundCandidates
<1>3. PICK more : more = Append(cut, c)
  OBVIOUS
<1>4. /\ more \in Seq(SoundCandidates) /\ Len(more) = Len(cut) + 1 /\ more[Len(cut) + 1] = c
      /\ \A k \in 1..Len(cut) : more[k] = cut[k]
  BY <1>2, <1>3, AppendProperties
<1>5. Len(cut) \in Nat
  BY LenProperties
<1>6. ASSUME NEW b, NEW i, KeptIn(cut, b, i) \/ Keeps(pieces, b, i) PROVE KeptIn(more, b, i)
  <2>1. CASE KeptIn(cut, b, i)
    <3>1. PICK k \in 1..Len(cut) : Keeps(cut[k].pieces, b, i)
      BY <2>1 DEF KeptIn
    <3>2. k \in 1..Len(more) /\ more[k] = cut[k]
      BY <1>4, <1>5
    <3> QED BY <3>1, <3>2 DEF KeptIn
  <2>2. CASE Keeps(pieces, b, i)
    <3>1. Len(cut) + 1 \in 1..Len(more) /\ more[Len(cut) + 1].pieces = pieces
      BY <1>2, <1>4, <1>5
    <3> QED BY <2>2, <3>1 DEF KeptIn
  <2> QED BY <1>6, <2>1, <2>2
<1> QED
  BY <1>1, <1>3, <1>4, <1>6

LEMMA PathsBegin ==
    ASSUME blocks \in Seq(ChunkBlocks), NEW piece \in SoundPieces
    PROVE  \E path : path = PathOf(piece) /\ IsPrefix(path, path)
<1>1. PICK b \in ChunkBlocks : b = blocks[piece.block]
  BY DEF SoundPieces
<1>2. PICK path \in Seq(Names) : path = b.heading_context
  BY DEF ChunkBlocks
<1>3. IsPrefix(path, path)
  BY DEF IsPrefix
<1> QED
  BY <1>1, <1>2, <1>3 DEF PathOf

LEMMA SoundPiecesArePieces ==
    ASSUME InputsSound
    PROVE  SoundPieces \subseteq AllPieces
BY DEF InputsSound, LaidOut, SoundPieces, AllPieces

(* A piece that moves from one sequence to another is still kept.             *)
LEMMA KeepsMore ==
    ASSUME NEW S, NEW pieces \in Seq(S), NEW p \in S, NEW b, NEW i
    PROVE  /\ Keeps(pieces, b, i) => Keeps(Append(pieces, p), b, i)
           /\ pieces # << >> /\ Keeps(pieces, b, i) => Keeps(Tail(pieces), b, i) \/ Keeps(<<Head(pieces)>>, b, i)
           /\ Keeps(<<p>>, b, i) => Keeps(Append(pieces, p), b, i)
<1>1. Len(pieces) \in Nat
  BY LenProperties
<1>2. PICK more : /\ more = Append(pieces, p) /\ Len(more) = Len(pieces) + 1
                  /\ more[Len(pieces) + 1] = p /\ \A c \in 1..Len(pieces) : more[c] = pieces[c]
  <2>1. PICK m : m = Append(pieces, p)
    OBVIOUS
  <2> QED BY <2>1, AppendProperties
<1>3. ASSUME Keeps(pieces, b, i) PROVE Keeps(more, b, i)
  <2>1. PICK c \in 1..Len(pieces) : pieces[c].block = b /\ \E k \in 1..Len(pieces[c].places) : pieces[c].places[k] = i
    BY <1>3 DEF Keeps
  <2>2. c \in 1..Len(more) /\ more[c] = pieces[c]
    BY <1>1, <1>2
  <2> QED BY <2>1, <2>2 DEF Keeps
<1>4. ASSUME Keeps(<<p>>, b, i) PROVE Keeps(more, b, i)
  <2>1. p.block = b /\ \E k \in 1..Len(p.places) : p.places[k] = i
    <3>1. Len(<<p>>) = 1 /\ <<p>>[1] = p
      OBVIOUS
    <3> QED BY <1>4, <3>1 DEF Keeps
  <2>2. Len(pieces) + 1 \in 1..Len(more) /\ more[Len(pieces) + 1] = p
    BY <1>1, <1>2
  <2> QED BY <2>1, <2>2 DEF Keeps
<1>5. ASSUME pieces # << >>, Keeps(pieces, b, i) PROVE Keeps(Tail(pieces), b, i) \/ Keeps(<<Head(pieces)>>, b, i)
  <2>1. PICK c \in 1..Len(pieces) : pieces[c].block = b /\ \E k \in 1..Len(pieces[c].places) : pieces[c].places[k] = i
    BY <1>5 DEF Keeps
  <2>2. PICK rest : rest = Tail(pieces) /\ Len(rest) = Len(pieces) - 1 /\ \A d \in 1..Len(rest) : rest[d] = pieces[d + 1]
    BY <1>5, HeadTailProperties
  <2>3. CASE c = 1
    <3>1. PICK h : h = Head(pieces) /\ h = pieces[1]
      BY <1>5
    <3>2. Len(<<h>>) = 1 /\ <<h>>[1] = h
      OBVIOUS
    <3>3. Keeps(<<h>>, b, i)
      BY <2>1, <2>3, <3>1, <3>2 DEF Keeps
    <3> QED BY <3>1, <3>3
  <2>4. CASE c # 1
    <3>1. PICK d \in 1..Len(rest) : d + 1 = c
      <4>1. c - 1 \in 1..Len(rest) /\ (c - 1) + 1 = c
        BY <1>1, <2>2, <2>4
      <4> QED BY <4>1
    <3>2. rest[d] = pieces[c]
      BY <2>2, <3>1
    <3>3. Keeps(rest, b, i)
      BY <2>1, <3>2 DEF Keeps
    <3> QED BY <2>2, <3>3
  <2> QED BY <2>3, <2>4
<1> QED
  BY <1>2, <1>3, <1>4, <1>5

-----------------------------------------------------------------------------
(* The first state: a file is parse, sorted and, for structural, expanded.   *)
LEMMA NothingIsCut ==
    ASSUME CuttingInit
    PROVE  CuttingInv
<1>1. document \in Documents /\ blocks # << >> /\ configuration \in ChunkConfigurations /\ Flatten /\ pc = "cutting"
      /\ candidates = << >> /\ start = 0 /\ previousEnd = 0 /\ current = << >> /\ currentSize = 0
  BY DEF CuttingInit
<1>2. blocks \in Seq(ChunkBlocks)
  <2>1. blocks = CanonicalBlocks(ElementsOf(document), TitleOf(document), configuration)
    BY DEF CuttingInit
  <2>2. TitleOf(document) \in Seq(Headings) /\ ElementsOf(document) \in Seq(PlacedBlocks)
    BY <1>1, FilesHaveElements
  <2> QED BY <2>1, <2>2, BlocksAreFound
<1>3. LaidOut /\ flat \in Seq(CharacterKinds)
  <2>1. DOMAIN blocks = 1..Len(blocks)
    BY <1>2, LenProperties
  <2> QED BY <1>1, <1>2, <2>1, BlocksAreLaidOut DEF LaidOut
<1>4. InputsSound
  BY <1>1, <1>2, <1>3 DEF InputsSound
<1>5. Numbers(configuration)
  BY <1>1, SizesAreValid
<1>6. candidates \in Seq(SoundCandidates) /\ Len(candidates) = 0 /\ Len(flat) \in Nat
  BY <1>1, <1>3, EmptySeq, LenProperties
<1>7. HeldUpTo(candidates, previousEnd)
  <2>1. ASSUME NEW b \in 1..Len(blocks), NEW i \in 1..Len(blocks[b].text), BlockStart(b) + i <= previousEnd PROVE FALSE
    <3>1. BlockStart(b) \in Nat
      BY <1>3 DEF LaidOut
    <3> QED BY <1>1, <2>1, <3>1
  <2> QED BY <2>1 DEF HeldUpTo
<1>8. WindowsSlide
  BY <1>1, <1>5, <1>6, <1>7 DEF WindowsSlide, Numbers
<1>9. ASSUME configuration.strategy_name = "structural" PROVE PiecesPack
  <2>1. expanded = FlattenSeq([b \in DOMAIN blocks |-> Expand(b)])
    BY <1>9 DEF CuttingInit
  <2>2. configuration.maximum \in Nat \ {0}
    BY <1>5 DEF Numbers
  <2>3. /\ expanded \in Seq(SoundPieces)
        /\ \A b \in 1..Len(blocks) : \A i \in 1..Len(blocks[b].text) :
             (blocks[b].rows # << >> /\ blocks[b].text[i] = "space") \/ Keeps(expanded, b, i)
    BY <1>2, <1>9, <2>1, <2>2, ExpandedBlocks
  <2>4. AllHeld(candidates, expanded, current)
    BY <2>3 DEF AllHeld, IsLineBreak
  <2>5. current \in Seq(SoundPieces) /\ Together(current) /\ Len(CandidateText(current)) = 0
    <3>1. Len(<< >>) = 0 /\ << >> \in Seq(SoundPieces)
      BY EmptySeq
    <3>2. Together(<< >>)
      BY <3>1 DEF Together
    <3> QED BY <1>1, <3>1, <3>2, NoText
  <2> QED BY <1>1, <2>3, <2>4, <2>5 DEF PiecesPack
<1> QED
  BY <1>1, <1>4, <1>6, <1>8, <1>9 DEF CuttingInv

(* A window of fixed_window: it fits, its overlap is what it repeats, and it  *)
(* keeps what is behind the last one.                                         *)
LEMMA WindowsAreCut ==
    ASSUME CuttingInv, CutWindow
    PROVE  CuttingInv'
<1>1. /\ configuration.strategy_name = "fixed_window" /\ pc = "cutting" /\ start < Len(flat) /\ UNCHANGED input
      /\ UNCHANGED <<expanded, current, currentSize>>
  BY DEF CutWindow
<1>2. InputsSound /\ candidates \in Seq(SoundCandidates) /\ WindowsSlide
  BY <1>1 DEF CuttingInv
<1>3. LaidOut /\ Len(flat) \in Nat /\ configuration \in ChunkConfigurations /\ start \in Nat /\ previousEnd \in Nat
  BY <1>2, LenProperties DEF InputsSound, WindowsSlide
<1>4. Numbers(configuration)
  BY <1>3, SizesAreValid
<1>5. PICK end : end = ChooseEnd
  OBVIOUS
<1>6. end \in (start + 1)..Len(flat) /\ end - start <= configuration.maximum
  BY <1>1, <1>3, <1>5, WindowsEnd
<1>7. PICK pieces : pieces = PiecesFor(start, end)
  OBVIOUS
<1>8. /\ pieces \in Seq(AllPieces)
      /\ pieces # << >> => Len(CandidateText(pieces)) \in 1..(end - start)
      /\ KeepsWindow(pieces, start, end)
  <2>1. end \in Nat /\ start < end
    BY <1>3, <1>6
  <2> QED BY <1>3, <1>7, <2>1, WindowsHavePieces
<1>9. /\ InputsSound' /\ SoundCandidates' = SoundCandidates /\ configuration' = configuration /\ flat' = flat
      /\ \A cut, e : HeldUpTo(cut, e)' <=> HeldUpTo(cut, e)
  <2>1. flat' = flat
    BY <1>1 DEF input
  <2> QED BY <1>1, <1>2, <2>1, InputsStay
<1>10. CASE pieces = << >>
  <2>1. pc' = "failed" /\ UNCHANGED <<candidates, start, previousEnd>>
    BY <1>5, <1>7, <1>10, Zenon DEF CutWindow
  <2>2. candidates' \in Seq(SoundCandidates)' /\ pc' # "done" /\ configuration'.strategy_name # "structural"
    BY <1>1, <1>2, <1>9, <2>1
  <2>3. HeldUpTo(candidates, previousEnd)'
    BY <1>2, <1>9, <2>1 DEF WindowsSlide
  <2>4. WindowsSlide'
    BY <1>2, <1>9, <2>1, <2>2, <2>3 DEF WindowsSlide
  <2> QED BY <1>9, <2>2, <2>4 DEF CuttingInv
<1>11. CASE pieces # << >>
  <2>1. PICK overlap : overlap = IF AtMost(end, previousEnd) > start THEN AtMost(end, previousEnd) - start ELSE 0
    OBVIOUS
  <2>2. /\ candidates' = Append(candidates, Candidate(pieces, overlap))
        /\ pc' = IF end >= Len(flat) THEN "done" ELSE pc
        /\ previousEnd' = end /\ start' = NextStart(end)
    BY <1>5, <1>7, <1>11, <2>1, Zenon DEF CutWindow
  <2>3. overlap \in Nat /\ overlap <= configuration.overlap
    BY <1>2, <1>3, <1>4, <1>6, <2>1 DEF AtMost, WindowsSlide, Numbers
  <2>4. PiecesFit(pieces)
    <3>1. PICK m : m = Len(CandidateText(pieces))
      OBVIOUS
    <3>2. m \in 1..(end - start) /\ end - start \in Nat
      BY <1>3, <1>6, <1>8, <1>11, <3>1
    <3>3. m > 0 /\ m <= configuration.maximum
      BY <1>4, <1>6, <3>2 DEF Numbers
    <3> QED BY <3>1, <3>3 DEF PiecesFit
  <2>5. /\ candidates' \in Seq(SoundCandidates) /\ Len(candidates') = Len(candidates) + 1
        /\ \A b, i : KeptIn(candidates, b, i) \/ Keeps(pieces, b, i) => KeptIn(candidates', b, i)
    BY <1>1, <1>2, <1>8, <2>2, <2>3, <2>4, CandidatesAreAdded
  <2>6. start' \in (start + 1)..end /\ end - start' <= configuration.overlap
    BY <1>3, <1>4, <1>6, <2>2, WindowsAdvance
  <2>7. HeldUpTo(candidates', end)
    <3>1. ASSUME NEW b \in 1..Len(blocks), NEW i \in 1..Len(blocks[b].text), BlockStart(b) + i <= end
          PROVE  KeptIn(candidates', b, i)
      <4>1. BlockStart(b) + i \in Nat
        BY <1>3 DEF LaidOut
      <4>2. CASE BlockStart(b) + i <= previousEnd
        <5>1. KeptIn(candidates, b, i)
          BY <1>2, <4>2 DEF WindowsSlide, HeldUpTo
        <5> QED BY <2>5, <5>1
      <4>3. CASE ~ (BlockStart(b) + i <= previousEnd)
        <5>1. start < BlockStart(b) + i
          BY <1>2, <1>3, <4>1, <4>3 DEF WindowsSlide
        <5>2. Keeps(pieces, b, i)
          BY <1>8, <3>1, <5>1 DEF KeepsWindow
        <5> QED BY <2>5, <5>2
      <4> QED BY <4>2, <4>3
    <3> QED BY <3>1 DEF HeldUpTo
  <2>8. HeldUpTo(candidates, previousEnd)'
    BY <1>9, <2>2, <2>7
  <2>9. Len(candidates') <= start' /\ Len(candidates') <= Len(flat)
    <3>1. Len(candidates) \in Nat /\ Len(candidates) <= start
      BY <1>2, LenProperties DEF WindowsSlide
    <3> QED BY <1>1, <1>3, <2>5, <2>6, <3>1
  <2>10. pc' = "done" => Len(flat) <= end
    BY <1>1, <1>3, <1>6, <2>2
  <2>11. WindowsSlide'
    <3>1. start' \in Nat /\ end \in Nat /\ start' <= end
      BY <1>3, <1>6, <2>6
    <3> QED BY <1>9, <2>2, <2>6, <2>8, <2>9, <2>10, <3>1 DEF WindowsSlide
  <2>12. candidates' \in Seq(SoundCandidates)' /\ configuration'.strategy_name = "fixed_window"
    BY <1>1, <1>9, <2>5
  <2> QED BY <1>9, <2>11, <2>12 DEF CuttingInv
<1> QED
  BY <1>10, <1>11

(* A piece of structural: what is flushed fits and keeps its section, and the *)
(* piece is packed with what belongs to it.                                   *)
LEMMA PiecesArePacked ==
    ASSUME CuttingInv, PackPiece
    PROVE  CuttingInv'
<1>1. /\ configuration.strategy_name = "structural" /\ pc = "cutting" /\ expanded # << >> /\ UNCHANGED input
      /\ pc' = pc /\ expanded' = Tail(expanded)
  BY DEF PackPiece
<1>2. InputsSound /\ candidates \in Seq(SoundCandidates) /\ PiecesPack
  BY <1>1 DEF CuttingInv
<1>3. /\ expanded \in Seq(SoundPieces) /\ current \in Seq(SoundPieces) /\ Together(current)
      /\ currentSize = Len(CandidateText(current))
      /\ current # << >> => currentSize \in 1..configuration.maximum
      /\ AllHeld(candidates, expanded, current)
  BY <1>2 DEF PiecesPack
<1>4. Numbers(configuration)
  BY <1>2, SizesAreValid DEF InputsSound
<1>5. PICK maximum \in Nat \ {0} : maximum = configuration.maximum
  BY <1>4 DEF Numbers
<1>6. SoundPieces \subseteq AllPieces
  BY <1>2, SoundPiecesArePieces
<1>7. PICK piece \in SoundPieces : piece = Head(expanded)
  BY <1>1, <1>3, HeadTailProperties
<1>8. PICK long \in Nat \ {0} : long = Len(piece.places) /\ (long <= maximum \/ IsBareHeader(<<piece>>))
  BY <1>5 DEF SoundPieces
<1> DEFINE flush == current # << >> /\ (SectionChanged(piece) \/ Overflows(piece))
           kept == IF flush THEN << >> ELSE current
           size == Len(piece.places) + (IF kept = << >> THEN 0 ELSE currentSize + 2)
           full == size >= configuration.target \/ Len(piece.places) >= configuration.maximum
           before == IF flush THEN Flushed(current) ELSE candidates
<1>9. /\ candidates' = IF full THEN Append(before, Candidate(Append(kept, piece), 0)) ELSE before
      /\ current' = IF full THEN << >> ELSE Append(kept, piece)
      /\ currentSize' = IF full THEN 0 ELSE size
  BY <1>7, Zenon DEF PackPiece
<1>10. /\ InputsSound' /\ SoundCandidates' = SoundCandidates /\ SoundPieces' = SoundPieces /\ configuration' = configuration
       /\ \A pieces : Together(pieces)' <=> Together(pieces)
       /\ \A cut, waiting, packed : AllHeld(cut, waiting, packed)' <=> AllHeld(cut, waiting, packed)
  BY <1>1, <1>2, InputsStay
<1>11. kept \in Seq(SoundPieces) /\ Together(kept) /\ (kept = << >> \/ (~ flush /\ kept = current /\ current # << >>))
  <2>1. << >> \in Seq(SoundPieces) /\ Together(<< >>)
    BY EmptySeq DEF Together
  <2> HIDE DEF flush
  <2> QED BY <1>3, <2>1
<1>12. PICK packed \in Seq(SoundPieces) : /\ packed = Append(kept, piece) /\ packed # << >> /\ Len(packed) = Len(kept) + 1
                                          /\ packed[Len(kept) + 1] = piece
                                          /\ \A c \in 1..Len(kept) : packed[c] = kept[c]
  <2> HIDE DEF kept
  <2>1. PICK p : p = Append(kept, piece)
    OBVIOUS
  <2> QED BY <1>11, <2>1, AppendProperties
<1>13. Together(packed)
  <2>0. PICK path : path = PathOf(piece) /\ IsPrefix(path, path)
    BY <1>2, PathsBegin DEF InputsSound
  <2>1. CASE kept = << >>
    <3>1. Len(packed) = 1 /\ packed[1] = piece
      BY <1>12, <2>1, EmptySeq
    <3> QED BY <2>0, <3>1 DEF Together
  <2>2. CASE kept # << >>
    <3>1. ~ SectionChanged(piece) /\ kept = current
      BY <1>11, <2>2
    <3> HIDE DEF kept
    <3>2. Len(kept) \in Nat \ {0}
      BY <1>11, <2>2, EmptySeq
    <3>3. packed[1] = kept[1]
      BY <1>12, <3>2
    <3>4. \/ PathOf(piece) = PathOf(packed[1])
          \/ blocks[piece.block].type = "section" /\ IsPrefix(PathOf(packed[1]), PathOf(piece))
      <4>1. PathOf(current[1]) = PathOf(packed[1])
        BY <3>1, <3>3
      <4> QED BY <3>1, <4>1, Zenon DEF SectionChanged
    <3>5. /\ IsPrefix(PathOf(packed[1]), PathOf(piece))
          /\ blocks[piece.block].type # "section" => PathOf(piece) = PathOf(packed[1])
      BY <2>0, <3>4, Zenon
    <3>6. ASSUME NEW c \in 1..Len(packed)
          PROVE  /\ IsPrefix(PathOf(packed[1]), PathOf(packed[c]))
                 /\ blocks[packed[c].block].type # "section" => PathOf(packed[c]) = PathOf(packed[1])
      <4>1. CASE c = Len(kept) + 1
        BY <1>12, <3>5, <4>1, Zenon
      <4>2. CASE c # Len(kept) + 1
        <5>1. c \in 1..Len(kept) /\ packed[c] = kept[c]
          BY <1>12, <3>2, <4>2
        <5> QED BY <1>11, <3>3, <5>1, Zenon DEF Together
      <4> QED BY <4>1, <4>2
    <3> QED BY <3>6, Zenon DEF Together
  <2> QED BY <2>1, <2>2
<1>14. kept # << >> => /\ currentSize \in 1..maximum /\ currentSize = Len(CandidateText(kept))
                       /\ currentSize + 2 + long <= maximum
  <2>1. SUFFICES ASSUME kept # << >>
                 PROVE  currentSize \in 1..maximum /\ currentSize = Len(CandidateText(kept)) /\ currentSize + 2 + long <= maximum
    OBVIOUS
  <2>2. ~ Overflows(piece) /\ kept = current /\ current # << >>
    BY <1>11, <2>1
  <2> HIDE DEF kept
  <2>3. currentSize \in 1..configuration.maximum
    BY <1>3, <2>2, Zenon
  <2>4. currentSize = Len(CandidateText(kept))
    BY <1>3, <2>2, Zenon
  <2>5. currentSize \in 1..maximum
    BY <1>5, <2>3, Zenon
  <2>6. ~ (currentSize + 2 + long > maximum)
    BY <1>5, <1>8, <2>2 DEF Overflows
  <2>7. currentSize + 2 + long <= maximum
    <3>1. PICK n \in 1..maximum : n = currentSize
      BY <2>5
    <3>2. ~ (n + 2 + long > maximum)
      BY <2>6, <3>1, Zenon
    <3>3. n + 2 + long <= maximum
      BY <3>2
    <3> QED BY <3>1, <3>3, Zenon
  <2> QED BY <2>4, <2>5, <2>7
<1>15. size \in Nat \ {0} /\ size = Len(CandidateText(packed)) /\ (size <= maximum \/ IsBareHeader(packed))
  <2>1. Len(CandidateText(packed)) = Len(CandidateText(kept)) + long + (IF kept = << >> THEN 0 ELSE 2)
    <3>1. kept \in Seq(AllPieces) /\ piece \in AllPieces
      BY <1>6, <1>11, SeqMonotonic
    <3> HIDE DEF kept
    <3> QED BY <1>8, <1>12, <3>1, TextsGrow
  <2>2. CASE kept = << >>
    <3>1. Len(CandidateText(kept)) = 0
      BY <2>2, NoText, EmptySeq
    <3>2. size = long + 0
      BY <1>8, <2>2, Zenon
    <3>3. packed = <<piece>>
      <4>1. Append(<< >>, piece) = <<piece>>
        OBVIOUS
      <4>2. packed = Append(<< >>, piece)
        BY <1>12, <2>2, Zenon
      <4> QED BY <4>1, <4>2, Zenon
    <3> HIDE DEF size, kept
    <3>4. Len(CandidateText(packed)) = 0 + long + 0
      BY <2>1, <2>2, <3>1, Zenon
    <3>5. size = long /\ Len(CandidateText(packed)) = long
      <4>1. long + 0 = long /\ 0 + long + 0 = long
        OBVIOUS
      <4> QED BY <3>2, <3>4, <4>1, Zenon
    <3>6. long \in Nat \ {0} /\ (long <= maximum \/ IsBareHeader(packed))
      BY <1>8, <3>3, Zenon
    <3> QED BY <3>5, <3>6, Zenon
  <2>3. CASE kept # << >>
    <3>1. size = long + (currentSize + 2)
      BY <1>8, <2>3, Zenon
    <3>2. PICK m \in Nat \ {0} : m = currentSize /\ m = Len(CandidateText(kept)) /\ m + 2 + long <= maximum
      BY <1>14, <2>3
    <3> HIDE DEF size, kept
    <3>3. Len(CandidateText(packed)) = m + long + 2 /\ size = long + (m + 2)
      BY <2>1, <2>3, <3>1, <3>2, Zenon
    <3>4. PICK n \in Nat : n = m + long + 2
      OBVIOUS
    <3>5. n = long + (m + 2) /\ n \in Nat \ {0} /\ n <= maximum
      BY <3>2, <3>4
    <3> QED BY <3>3, <3>4, <3>5, Zenon
  <2> QED BY <2>2, <2>3
<1>16. /\ before \in Seq(SoundCandidates)
       /\ \A b, i : KeptIn(candidates, b, i) => KeptIn(before, b, i)
       /\ \A b, i : Keeps(current, b, i) => KeptIn(before, b, i) \/ Keeps(kept, b, i)
  <2>1. CASE flush
    <3>1. current # << >> /\ PiecesFit(current)
      <4>1. current # << >>
        BY <2>1
      <4>2. PICK m \in 1..maximum : m = Len(CandidateText(current))
        BY <1>3, <1>5, <4>1, Zenon
      <4>3. m > 0 /\ m <= maximum
        OBVIOUS
      <4> QED BY <1>5, <4>1, <4>2, <4>3, Zenon DEF PiecesFit
    <3>2. current \in Seq(AllPieces)
      BY <1>3, <1>6, SeqMonotonic
    <3>3. before = Append(candidates, Candidate(current, 0))
      <4>1. before = Flushed(current)
        BY <2>1, Zenon
      <4> QED BY <3>1, <4>1, Zenon DEF Flushed
    <3>4. 0 \in Nat /\ 0 <= configuration.overlap
      BY <1>4 DEF Numbers
    <3> HIDE DEF before
    <3> QED BY <1>2, <1>3, <3>1, <3>2, <3>3, <3>4, CandidatesAreAdded
  <2>2. CASE ~ flush
    <3>1. before = candidates /\ kept = current
      BY <2>2, Zenon
    <3> HIDE DEF before, kept
    <3> QED BY <1>2, <3>1
  <2> QED BY <2>1, <2>2
<1>17. \A b, i : /\ Keeps(kept, b, i) => Keeps(packed, b, i)
                 /\ Keeps(expanded, b, i) => Keeps(Tail(expanded), b, i) \/ Keeps(packed, b, i)
  <2>1. Tail(expanded) \in Seq(SoundPieces)
    BY <1>1, <1>3, HeadTailProperties
  <2> HIDE DEF kept
  <2>2. ASSUME NEW b, NEW i PROVE Keeps(kept, b, i) => Keeps(packed, b, i)
    BY <1>11, <1>12, KeepsMore
  <2>3. ASSUME NEW b, NEW i PROVE Keeps(expanded, b, i) => Keeps(Tail(expanded), b, i) \/ Keeps(<<piece>>, b, i)
    BY <1>1, <1>3, <1>7, KeepsMore
  <2>4. ASSUME NEW b, NEW i PROVE Keeps(<<piece>>, b, i) => Keeps(packed, b, i)
    BY <1>11, <1>12, KeepsMore
  <2> QED BY <2>2, <2>3, <2>4
<1>18. Tail(expanded) \in Seq(SoundPieces)
  BY <1>1, <1>3, HeadTailProperties
<1>19. ASSUME NEW cut, NEW packing,
              \A b, i : KeptIn(before, b, i) => KeptIn(cut, b, i),
              \A b, i : Keeps(packed, b, i) => KeptIn(cut, b, i) \/ Keeps(packing, b, i)
       PROVE  AllHeld(cut, Tail(expanded), packing)
  <2> HIDE DEF before, kept
  <2> QED BY <1>3, <1>16, <1>17, <1>19, Zenon DEF AllHeld
<1> HIDE DEF before, kept, size
<1>20. CASE full
  <2>1. candidates' = Append(before, Candidate(packed, 0)) /\ current' = << >> /\ currentSize' = 0
    BY <1>9, <1>12, <1>20
  <2>2. packed \in Seq(AllPieces)
    BY <1>6, <1>12, SeqMonotonic
  <2>3. PiecesFit(packed)
    BY <1>5, <1>15 DEF PiecesFit
  <2>4. 0 \in Nat /\ 0 <= configuration.overlap
    BY <1>4 DEF Numbers
  <2>5. /\ candidates' \in Seq(SoundCandidates)
        /\ \A b, i : KeptIn(before, b, i) \/ Keeps(packed, b, i) => KeptIn(candidates', b, i)
    BY <1>13, <1>16, <2>1, <2>2, <2>3, <2>4, CandidatesAreAdded
  <2>6. AllHeld(candidates', Tail(expanded), << >>)
    BY <1>19, <2>5
  <2>7. << >> \in Seq(SoundPieces) /\ Together(<< >>) /\ Len(CandidateText(<< >>)) = 0
    BY EmptySeq, NoText DEF Together
  <2>8. PiecesPack'
    BY <1>1, <1>10, <1>18, <2>1, <2>6, <2>7 DEF PiecesPack
  <2> QED BY <1>1, <1>10, <2>5, <2>8 DEF CuttingInv
<1>21. CASE ~ full
  <2>1. candidates' = before /\ current' = packed /\ currentSize' = size
    BY <1>9, <1>12, <1>21
  <2>2. size <= maximum
    BY <1>4, <1>5, <1>15, <1>21 DEF Numbers
  <2>3. AllHeld(candidates', Tail(expanded), packed)
    BY <1>19, <2>1
  <2>4. PiecesPack'
    BY <1>1, <1>5, <1>10, <1>12, <1>13, <1>15, <1>18, <2>1, <2>2, <2>3 DEF PiecesPack
  <2> QED BY <1>1, <1>10, <1>16, <2>1, <2>4 DEF CuttingInv
<1> QED
  BY <1>20, <1>21

(* The end of structural: the rest is flushed.                                *)
LEMMA TheRestIsFlushed ==
    ASSUME CuttingInv, FlushRest
    PROVE  CuttingInv'
<1>1. /\ configuration.strategy_name = "structural" /\ expanded = << >> /\ UNCHANGED input
      /\ candidates' = Flushed(current) /\ pc' = "done" /\ current' = << >> /\ currentSize' = 0 /\ expanded' = expanded
  BY DEF FlushRest
<1>2. InputsSound /\ candidates \in Seq(SoundCandidates) /\ PiecesPack
  BY <1>1 DEF CuttingInv
<1>3. /\ current \in Seq(SoundPieces) /\ Together(current)
      /\ currentSize = Len(CandidateText(current))
      /\ current # << >> => currentSize \in 1..configuration.maximum
      /\ AllHeld(candidates, expanded, current)
  BY <1>2 DEF PiecesPack
<1>4. Numbers(configuration)
  BY <1>2, SizesAreValid DEF InputsSound
<1>5. /\ InputsSound' /\ SoundCandidates' = SoundCandidates /\ SoundPieces' = SoundPieces /\ configuration' = configuration
      /\ \A pieces : Together(pieces)' <=> Together(pieces)
      /\ \A cut, waiting, packed : AllHeld(cut, waiting, packed)' <=> AllHeld(cut, waiting, packed)
  BY <1>1, <1>2, InputsStay
<1>6. << >> \in Seq(SoundPieces) /\ Together(<< >>) /\ Len(CandidateText(<< >>)) = 0 /\ \A b, i : ~ Keeps(<< >>, b, i)
  BY EmptySeq, NoText DEF Together, Keeps
<1>7. /\ candidates' \in Seq(SoundCandidates)
      /\ \A b, i : KeptIn(candidates, b, i) \/ Keeps(current, b, i) => KeptIn(candidates', b, i)
  <2>1. CASE current = << >>
    BY <1>1, <1>2, <1>6, <2>1 DEF Flushed
  <2>2. CASE current # << >>
    <3>1. candidates' = Append(candidates, Candidate(current, 0))
      BY <1>1, <2>2, Zenon DEF Flushed
    <3>2. PiecesFit(current)
      <4>1. PICK maximum \in Nat : maximum = configuration.maximum
        BY <1>4 DEF Numbers
      <4>2. PICK m \in 1..maximum : m = Len(CandidateText(current))
        BY <1>3, <2>2, <4>1, Zenon
      <4>3. m > 0 /\ m <= maximum
        OBVIOUS
      <4> QED BY <4>1, <4>2, <4>3, Zenon DEF PiecesFit
    <3>3. current \in Seq(AllPieces)
      BY <1>2, <1>3, SoundPiecesArePieces, SeqMonotonic
    <3>4. 0 \in Nat /\ 0 <= configuration.overlap
      BY <1>4 DEF Numbers
    <3> QED BY <1>2, <1>3, <3>1, <3>2, <3>3, <3>4, CandidatesAreAdded
  <2> QED BY <2>1, <2>2
<1>8. AllHeld(candidates', << >>, << >>)
  BY <1>1, <1>3, <1>6, <1>7, Zenon DEF AllHeld
<1>9. PiecesPack'
  BY <1>1, <1>5, <1>6, <1>8 DEF PiecesPack
<1> QED
  BY <1>1, <1>5, <1>7, <1>9 DEF CuttingInv

-----------------------------------------------------------------------------
(* One step of either strategy keeps the invariant.                           *)
LEMMA CuttingHolds ==
    ASSUME CuttingInv, [CuttingNext]_cuttingVars
    PROVE  CuttingInv'
<1>1. CASE CutWindow
  BY <1>1, WindowsAreCut
<1>2. CASE PackPiece
  BY <1>2, PiecesArePacked
<1>3. CASE FlushRest
  BY <1>3, TheRestIsFlushed
<1>4. CASE UNCHANGED cuttingVars
  <2>1. /\ UNCHANGED input /\ pc' = pc /\ candidates' = candidates /\ start' = start /\ previousEnd' = previousEnd
        /\ expanded' = expanded /\ current' = current /\ currentSize' = currentSize
    BY <1>4 DEF cuttingVars
  <2>2. /\ InputsSound' <=> InputsSound
        /\ SoundCandidates' = SoundCandidates /\ SoundPieces' = SoundPieces /\ configuration' = configuration
        /\ flat' = flat
        /\ \A pieces : Together(pieces)' <=> Together(pieces)
        /\ \A cut, end : HeldUpTo(cut, end)' <=> HeldUpTo(cut, end)
        /\ \A cut, waiting, packed : AllHeld(cut, waiting, packed)' <=> AllHeld(cut, waiting, packed)
    <3>1. flat' = flat
      BY <2>1 DEF input
    <3> QED BY <2>1, <3>1, InputsStay
  <2>3. WindowsSlide' <=> WindowsSlide
    BY <2>1, <2>2 DEF WindowsSlide
  <2>4. PiecesPack' <=> PiecesPack
    BY <2>1, <2>2 DEF PiecesPack
  <2> QED BY <2>1, <2>2, <2>3, <2>4 DEF CuttingInv
<1> QED
  BY <1>1, <1>2, <1>3, <1>4 DEF CuttingNext

(* For every file and every valid configuration, each turn of a strategy's    *)
(* loop keeps the invariant: the windows of fixed_window slide forward and    *)
(* hold the text up to the last end, and structural's candidates, the piece   *)
(* being packed and the pieces waiting hold it all.                           *)
THEOREM CuttingInvariant == CuttingSpec => []CuttingInv
<1>1. CuttingInit => CuttingInv
  BY NothingIsCut
<1>2. CuttingInv /\ [CuttingNext]_cuttingVars => CuttingInv'
  BY CuttingHolds
<1> QED
  BY <1>1, <1>2, PTL DEF CuttingSpec

(* What chunk() of either strategy yields is not empty and not longer than    *)
(* maximum_size, but for the header of a table without rows, and a window     *)
(* repeats no more than overlap_size of the one before it: what               *)
(* validate_chunk_candidates asks of sizes, for every file and every valid    *)
(* configuration.                                                             *)
THEOREM ChunksFitTheirSizes == CuttingSpec => []ChunksFit
<1>1. ASSUME CuttingInv PROVE ChunksFit
  <2>1. DOMAIN candidates = 1..Len(candidates) /\ \A c \in 1..Len(candidates) : candidates[c] \in SoundCandidates
    BY <1>1, LenProperties, ElementOfSeq DEF CuttingInv
  <2> QED BY <2>1, Zenon DEF ChunksFit, SoundCandidates, PiecesFit
<1> QED
  BY <1>1, CuttingInvariant, PTL

(* A chunk of structural with text has one section, however headings nest and *)
(* whatever is split or flushed between: all in it lies under the headings of *)
(* its text or further down, and the heading_context stored with the chunk    *)
(* begins with them.                                                          *)
THEOREM SectionsAreKeptApart == CuttingSpec => []SectionsStayApart
<1>1. ASSUME CuttingInv, configuration.strategy_name = "structural",
             NEW c \in DOMAIN candidates, NEW i \in DOMAIN candidates[c].pieces,
             blocks[candidates[c].pieces[i].block].type # "section"
      PROVE  /\ \A j \in DOMAIN candidates[c].pieces :
                   IsPrefix(PathOf(candidates[c].pieces[i]), PathOf(candidates[c].pieces[j]))
             /\ IsPrefix(PathOf(candidates[c].pieces[i]), HeadingContext(candidates[c].pieces))
  <2>1. DOMAIN candidates = 1..Len(candidates) /\ candidates[c] \in SoundCandidates
    BY <1>1, LenProperties, ElementOfSeq DEF CuttingInv
  <2>2. PICK pieces \in Seq(AllPieces) : pieces = candidates[c].pieces /\ Together(pieces)
    BY <1>1, <2>1 DEF SoundCandidates
  <2>3. Len(pieces) \in Nat /\ DOMAIN pieces = 1..Len(pieces) /\ i \in 1..Len(pieces)
    BY <1>1, <2>2, LenProperties
  <2>4. PICK path : path = PathOf(pieces[i])
    OBVIOUS
  <2>5. path = PathOf(pieces[1])
    BY <1>1, <2>2, <2>3, <2>4, Zenon DEF Together
  <2>6. \A j \in 1..Len(pieces) : IsPrefix(path, PathOf(pieces[j]))
    BY <2>2, <2>5, Zenon DEF Together
  <2>7. IsPrefix(path, HeadingContext(pieces))
    <3> DEFINE named == {j \in DOMAIN pieces : PathOf(pieces[j]) # << >>}
    <3>1. CASE named = {}
      <4>1. path = << >>
        BY <2>3, <2>4, <3>1
      <4>2. HeadingContext(pieces) = << >>
        BY <3>1, Zenon DEF HeadingContext
      <4>3. IsPrefix(path, path)
        BY <2>3, <2>4, <2>6, Zenon
      <4> QED BY <4>1, <4>2, <4>3
    <3>2. CASE named # {}
      <4>1. named \in SUBSET Int /\ Len(pieces) \in Int /\ \A j \in named : j <= Len(pieces)
        BY <2>3
      <4>2. named \subseteq 1..Len(pieces)
        BY <2>3
      <4>3. HeadingContext(pieces) = PathOf(pieces[Max(named)])
        BY <3>2, Zenon DEF HeadingContext
      <4> HIDE DEF named
      <4>4. Max(named) \in named
        BY <3>2, <4>1, MaxIsGreatest
      <4> QED BY <2>6, <4>2, <4>3, <4>4
    <3> QED BY <3>1, <3>2
  <2> QED BY <2>2, <2>3, <2>4, <2>6, <2>7, Zenon
<1>2. CuttingInv => SectionsStayApart
  BY <1>1, Zenon DEF SectionsStayApart
<1> QED
  BY <1>2, CuttingInvariant, PTL

(* The loop of fixed_window ends: it cuts no more windows than the flattened  *)
(* text has characters, wherever boundaries and overlap put its ends.         *)
THEOREM CuttingEnds == CuttingSpec => []ChunkingEnds
<1>1. CuttingInv => ChunkingEnds
  BY DEF CuttingInv, WindowsSlide, ChunkingEnds
<1> QED
  BY <1>1, CuttingInvariant, PTL

(* No block ends behind the flattened text.                                   *)
LEMMA BlocksEndInside ==
    ASSUME LaidOut, NEW b \in 1..Len(blocks)
    PROVE  BlockEnd(b) <= Len(flat)
<1>1. PICK n \in Nat \ {0} : n = Len(blocks)
  BY DEF LaidOut
<1>2. ASSUME NEW a \in 1..n PROVE BlockEnd(a) \in Nat
  <2>1. PICK m \in Nat : m = Len(blocks[a].text)
    BY <1>1 DEF LaidOut
  <2>2. PICK s \in Nat : s = BlockStart(a)
    BY <1>1 DEF LaidOut
  <2> QED BY <1>1, <2>1, <2>2 DEF LaidOut
<1>3. \A a \in 1..(n - 1) : BlockEnd(a) <= BlockEnd(a + 1)
  <2>1. ASSUME NEW a \in 1..(n - 1) PROVE BlockEnd(a) <= BlockEnd(a + 1)
    <3>1. a \in 1..n /\ a + 1 \in 1..n
      BY <1>1
    <3>2. PICK e \in Nat : e = BlockEnd(a)
      BY <1>2, <3>1
    <3>3. PICK m \in Nat \ {0} : m = Len(blocks[a + 1].text)
      BY <1>1, <3>1 DEF LaidOut
    <3>4. BlockEnd(a + 1) = (e + 2) + m
      BY <1>1, <3>1, <3>2, <3>3 DEF LaidOut
    <3> QED BY <3>2, <3>4
  <2> QED BY <2>1
<1> DEFINE T == {k \in Nat : k < n => BlockEnd(n - k) <= BlockEnd(n)}
<1>4. 0 \in T
  BY <1>1, <1>2
<1>5. ASSUME NEW k \in Nat, k \in T PROVE k + 1 \in T
  <2>1. SUFFICES ASSUME k + 1 < n PROVE BlockEnd(n - (k + 1)) <= BlockEnd(n)
    OBVIOUS
  <2>2. PICK a \in 1..(n - 1) : a = n - (k + 1)
    <3>1. n - (k + 1) \in 1..(n - 1)
      BY <2>1
    <3> QED BY <3>1
  <2>3. a + 1 = n - k /\ k < n
    BY <2>1, <2>2
  <2>4. BlockEnd(a + 1) <= BlockEnd(n) /\ BlockEnd(a) <= BlockEnd(a + 1)
    BY <1>3, <1>5, <2>3
  <2>5. BlockEnd(a) \in Nat /\ BlockEnd(a + 1) \in Nat /\ BlockEnd(n) \in Nat
    BY <1>1, <1>2
  <2> QED BY <2>2, <2>4, <2>5
<1> HIDE DEF T
<1>6. \A k \in Nat : k \in T
  BY <1>4, <1>5, Counting
<1>7. PICK k \in Nat : b = n - k /\ k < n
  <2>1. n - b \in Nat /\ b = n - (n - b) /\ n - b < n
    BY <1>1
  <2> QED BY <2>1
<1> QED
  BY <1>1, <1>6, <1>7 DEF T, LaidOut

(* What is kept in the sense of the invariant is in a candidate.              *)
LEMMA KeptIsKept ==
    ASSUME candidates \in Seq(SoundCandidates), NEW b, NEW i, KeptIn(candidates, b, i)
    PROVE  \E c \in DOMAIN candidates : <<b, i>> \in KeptOf(candidates[c])
<1>1. PICK c \in 1..Len(candidates) : Keeps(candidates[c].pieces, b, i)
  BY DEF KeptIn
<1>2. DOMAIN candidates = 1..Len(candidates) /\ candidates[c] \in SoundCandidates
  BY LenProperties, ElementOfSeq
<1>3. PICK pieces \in Seq(AllPieces) : pieces = candidates[c].pieces
  BY <1>2 DEF SoundCandidates
<1>4. PICK p \in 1..Len(pieces) : pieces[p].block = b /\ \E k \in 1..Len(pieces[p].places) : pieces[p].places[k] = i
  BY <1>1, <1>3 DEF Keeps
<1>5. PICK k \in 1..Len(pieces[p].places) : pieces[p].places[k] = i
  BY <1>4
<1>6. p \in DOMAIN pieces /\ k \in DOMAIN pieces[p].places
  <2>1. DOMAIN pieces = 1..Len(pieces) /\ pieces[p] \in AllPieces
    BY <1>3, LenProperties, ElementOfSeq
  <2>2. PICK places \in Seq(Nat) : places = pieces[p].places
    BY <2>1 DEF AllPieces
  <2>3. DOMAIN places = 1..Len(places)
    BY <2>2, LenProperties
  <2> QED BY <2>1, <2>2, <2>3
<1>7. <<b, i>> \in Range(CharactersOf(pieces[p]))
  <2>1. PICK text : text = CharactersOf(pieces[p])
    OBVIOUS
  <2>2. k \in DOMAIN text /\ text[k] = <<b, i>>
    BY <1>4, <1>5, <1>6, <2>1 DEF CharactersOf
  <2> QED BY <2>1, <2>2 DEF Range
<1>8. <<b, i>> \in KeptOf(candidates[c])
  BY <1>3, <1>6, <1>7 DEF KeptOf
<1> QED
  BY <1>2, <1>8

(* When a strategy is done, every character of every block is in a chunk but  *)
(* for the line breaks between the rows of a table: neither the boundaries    *)
(* nor the overlap nor the splits of _split_table and safe_split_points drop  *)
(* a passage.                                                                 *)
THEOREM NoCharacterIsDropped == CuttingSpec => []BlocksAreKept
<1>1. ASSUME CuttingInv, pc = "done", NEW b \in 1..Len(blocks), NEW i \in 1..Len(blocks[b].text)
      PROVE  IsLineBreak(b, i) \/ KeptIn(candidates, b, i)
  <2>1. InputsSound /\ candidates \in Seq(SoundCandidates) /\ LaidOut
    BY <1>1 DEF CuttingInv, InputsSound
  <2>2. CASE configuration.strategy_name = "fixed_window"
    <3>1. previousEnd \in Nat /\ Len(flat) <= previousEnd /\ HeldUpTo(candidates, previousEnd)
      BY <1>1, <2>2 DEF CuttingInv, WindowsSlide
    <3>2. PICK n \in Nat : n = Len(blocks[b].text)
      BY <2>1 DEF LaidOut
    <3>3. PICK s \in Nat : s = BlockStart(b)
      BY <2>1 DEF LaidOut
    <3>4. s + n <= Len(flat)
      BY <2>1, <3>2, <3>3, BlocksEndInside DEF LaidOut
    <3>5. Len(flat) \in Nat
      BY <2>1, LenProperties DEF InputsSound
    <3>6. s + i <= previousEnd
      BY <3>1, <3>2, <3>4, <3>5
    <3> QED BY <3>1, <3>3, <3>6 DEF HeldUpTo
  <2>3. CASE configuration.strategy_name = "structural"
    <3>1. AllHeld(candidates, << >>, << >>)
      BY <1>1, <2>3 DEF CuttingInv, PiecesPack
    <3>2. ~ Keeps(<< >>, b, i)
      BY EmptySeq DEF Keeps
    <3> QED BY <3>1, <3>2 DEF AllHeld
  <2> QED BY <1>1, <2>2, <2>3 DEF CuttingInv
<1>2. ASSUME CuttingInv, pc = "done", NEW b \in DOMAIN blocks, NEW i \in DOMAIN blocks[b].text
      PROVE  \/ <<b, i>> \in UNION {KeptOf(candidates[c]) : c \in DOMAIN candidates}
             \/ blocks[b].rows # << >> /\ blocks[b].text[i] = "space"
  <2>1. candidates \in Seq(SoundCandidates) /\ blocks \in Seq(ChunkBlocks)
    BY <1>2 DEF CuttingInv, InputsSound
  <2>2. DOMAIN blocks = 1..Len(blocks) /\ blocks[b] \in ChunkBlocks
    BY <2>1, LenProperties, ElementOfSeq
  <2>3. PICK text \in Seq(CharacterKinds) : text = blocks[b].text
    BY <2>2 DEF ChunkBlocks
  <2>4. i \in 1..Len(blocks[b].text)
    BY <2>3, LenProperties
  <2>5. IsLineBreak(b, i) \/ KeptIn(candidates, b, i)
    BY <1>1, <1>2, <2>2, <2>4
  <2> QED BY <2>1, <2>5, KeptIsKept DEF IsLineBreak
<1>3. CuttingInv => BlocksAreKept
  BY <1>2, Zenon DEF BlocksAreKept
<1> QED
  BY <1>3, CuttingInvariant, PTL
=============================================================================
