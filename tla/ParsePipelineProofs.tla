------------------------- MODULE ParsePipelineProofs -------------------------
(* That the parse pipeline keeps the execution log, for any files, jobs and  *)
(* requests.  Nothing a request looks at says which execution is its own but *)
(* the number it remembers: what makes the argument inductive is that no two *)
(* requests remember the same execution of a file, and that one that parses  *)
(* or persists remembers one that runs.                                      *)
EXTENDS ParsePipeline, SequenceTheorems, TLAPS

Steps == {"idle", "start", "read", "begin", "parse", "persist", "complete",
          "failing", "settle", "done", "crashed", "unrecorded"}
RowType == [status : ResultStatuses \cup {"absent"}, content : Contents \cup {None}]
RequestType == [pc : Steps, file : Files \cup {None}, job : Jobs \cup {None}, force : BOOLEAN,
                copy : RowType, copied : BOOLEAN, execution : Nat, document : Contents \cup {None}]

Types ==
    /\ result \in [Files -> RowType]
    /\ executions \in [Files -> Seq(ExecutionStatuses)]
    /\ request \in [Requests -> RequestType]

Aims(q) == q.pc \in {"start", "read", "begin", "parse", "persist", "complete", "failing"}
Works(q) == q.pc \in {"parse", "persist"}

(* What a request remembers is an execution of its file, and if it works one *)
(* that runs.                                                                *)
Remembers(q, log) == q.execution # 0 => q.file \in Files /\ q.execution \in DOMAIN log[q.file]
Holds(q, log) == q.execution # 0 /\ log[q.file][q.execution] = "running"

Owned ==
    /\ \A r \in Requests : Aims(request[r]) => request[r].file \in Files
    /\ \A r \in Requests : Remembers(request[r], executions)
    /\ \A r \in Requests : Works(request[r]) => Holds(request[r], executions)
    /\ \A r, q \in Requests :
         /\ request[r].execution # 0
         /\ request[r].execution = request[q].execution
         /\ request[r].file = request[q].file
         => r = q

IInv == Types /\ Owned

-----------------------------------------------------------------------------
(* What a request becomes when it goes on or ends.                           *)
LEMMA Going ==
    ASSUME Types, NEW r \in Requests, NEW c \in Steps, Goto(r, c)
    PROVE  \E w \in RequestType : /\ request' = [request EXCEPT ![r] = w] /\ w.pc = c
                                  /\ w.file = request[r].file /\ w.job = request[r].job
                                  /\ w.execution = request[r].execution
                                  /\ w.copy = request[r].copy /\ w.copied = request[r].copied
<1> DEFINE w == [request[r] EXCEPT !.pc = c]
<1>1. request[r] \in RequestType BY DEF Types
<1>2. /\ w \in RequestType /\ w.pc = c /\ w.file = request[r].file /\ w.job = request[r].job
      /\ w.execution = request[r].execution
      /\ w.copy = request[r].copy /\ w.copied = request[r].copied
    BY <1>1 DEF RequestType
<1>3. request' = [request EXCEPT ![r] = w] BY DEF Goto, Types
<1> QED BY <1>2, <1>3

LEMMA IdleType == Idle \in RequestType /\ Idle.pc = "idle" /\ Idle.file = None /\ Idle.execution = 0
<1>1. Row("absent", None) \in RowType BY DEF Row, RowType
<1> QED BY <1>1 DEF Idle, RequestType, Steps

LEMMA Ending ==
    ASSUME Types, NEW r \in Requests, End(r)
    PROVE  \E w \in RequestType : request' = [request EXCEPT ![r] = w] /\ w.pc = "done" /\ w.execution = 0
<1> DEFINE w == [Idle EXCEPT !.pc = "done"]
<1>1. w \in RequestType /\ w.pc = "done" /\ w.execution = 0
    BY IdleType DEF RequestType, Steps
<1>2. request' = [request EXCEPT ![r] = w] BY DEF End
<1> QED BY <1>1, <1>2

(* A request goes on without beginning or finishing an execution.            *)
LEMMA OnlyMoves ==
    ASSUME IInv, NEW r \in Requests, NEW w \in RequestType, request' = [request EXCEPT ![r] = w],
           Aims(w) => w.file \in Files,
           Works(w) => Works(request[r]) /\ w.execution # 0,
           w.execution = 0 \/ (w.file = request[r].file /\ w.execution = request[r].execution),
           result' \in [Files -> RowType], executions' = executions
    PROVE  IInv'
<1>1. /\ request' \in [Requests -> RequestType]
      /\ request'[r] = w
      /\ \A q \in Requests : q # r => request'[q] = request[q]
    BY DEF IInv, Types
<1>2. Types' BY <1>1 DEF IInv, Types
<1>3. \A q \in Requests : Aims(request'[q]) => request'[q].file \in Files
    BY <1>1 DEF IInv, Owned
<1>4. \A q \in Requests : Remembers(request'[q], executions')
    BY <1>1 DEF IInv, Owned, Remembers
<1>5. \A q \in Requests : Works(request'[q]) => Holds(request'[q], executions')
    BY <1>1 DEF IInv, Owned, Holds
<1>6. \A p, q \in Requests :
         request'[p].execution # 0 /\ request'[p].execution = request'[q].execution
         /\ request'[p].file = request'[q].file => p = q
    BY <1>1 DEF IInv, Owned
<1>7. Owned' BY <1>3, <1>4, <1>5, <1>6 DEF Owned
<1> QED BY <1>2, <1>7 DEF IInv

(* A request finishes the execution it remembers and works on it no longer.  *)
LEMMA Finishes ==
    ASSUME IInv, NEW r \in Requests, NEW f, f = request[r].file, NEW n, n = request[r].execution,
           f \in Files, n \in RunningExecutions(f), NEW x \in {"succeeded", "failed"},
           executions' = [executions EXCEPT ![f][n] = x],
           NEW c \in {"complete", "settle"}, Goto(r, c), result' \in [Files -> RowType]
    PROVE  IInv'
<1>1. PICK w \in RequestType : /\ request' = [request EXCEPT ![r] = w] /\ w.pc = c
                               /\ w.file = f /\ w.execution = n
    <2>1. c \in Steps BY DEF Steps
    <2> QED BY <2>1, Going DEF IInv
<1>2. /\ request' \in [Requests -> RequestType]
      /\ request'[r] = w
      /\ \A q \in Requests : q # r => request'[q] = request[q]
    BY <1>1 DEF IInv, Types
<1>3. executions[f] \in Seq(ExecutionStatuses) /\ n \in DOMAIN executions[f]
    BY DEF IInv, Types, RunningExecutions
<1>4. [executions[f] EXCEPT ![n] = x] \in Seq(ExecutionStatuses)
    BY <1>3 DEF ExecutionStatuses
<1>5. /\ executions' \in [Files -> Seq(ExecutionStatuses)]
      /\ executions'[f] = [executions[f] EXCEPT ![n] = x]
      /\ \A g \in Files : g # f => executions'[g] = executions[g]
    BY <1>4 DEF IInv, Types
<1>6. /\ DOMAIN executions'[f] = DOMAIN executions[f]
      /\ \A k \in DOMAIN executions[f] : k # n => executions'[f][k] = executions[f][k]
    BY <1>5
<1>7. Types' BY <1>2, <1>5 DEF IInv, Types
<1>8. \A q \in Requests : Aims(request'[q]) => request'[q].file \in Files
    BY <1>1, <1>2 DEF IInv, Owned
<1>9. \A q \in Requests : Remembers(request'[q], executions')
    BY <1>1, <1>2, <1>5, <1>6 DEF IInv, Owned, Remembers
<1>10. ASSUME NEW q \in Requests, Works(request'[q])
       PROVE  Holds(request'[q], executions')
    <2>1. q # r BY <1>1, <1>2, <1>10 DEF Works
    <2>2. request'[q] = request[q] /\ Works(request[q]) BY <2>1, <1>2, <1>10
    <2>3. /\ Holds(request[q], executions) /\ Remembers(request[q], executions)
          /\ ~(request[q].execution = n /\ request[q].file = f)
        BY <2>1, <2>2 DEF IInv, Owned, Holds
    <2> QED BY <2>2, <2>3, <1>5, <1>6 DEF Holds, Remembers
<1>11. \A p, q \in Requests :
          request'[p].execution # 0 /\ request'[p].execution = request'[q].execution
          /\ request'[p].file = request'[q].file => p = q
    BY <1>1, <1>2 DEF IInv, Owned
<1>12. Owned' BY <1>8, <1>9, <1>10, <1>11 DEF Owned
<1> QED BY <1>7, <1>12 DEF IInv

-----------------------------------------------------------------------------
(* The steps that neither begin nor finish an execution.                     *)
LEMMA ResolveStep ==
    ASSUME IInv, NEW r \in Requests, NEW f \in Files, NEW j \in Jobs, NEW force \in BOOLEAN,
           Resolve(r, f, j, force)
    PROVE  IInv'
<1>1. PICK c \in {"start", "read"} :
        request' = [request EXCEPT ![r] = [Idle EXCEPT !.pc = c, !.file = f, !.job = j, !.force = force]]
    BY DEF Resolve
<1> DEFINE w == [Idle EXCEPT !.pc = c, !.file = f, !.job = j, !.force = force]
<1>2. w \in RequestType /\ w.pc = c /\ w.file = f /\ w.execution = 0
    BY <1>1, IdleType DEF RequestType, Steps
<1>3. request' = [request EXCEPT ![r] = w] BY <1>1
<1>4. result' \in [Files -> RowType] /\ executions' = executions
    BY DEF Resolve, rows, IInv, Types
<1> HIDE DEF w
<1>5. ~Works(w) BY <1>1, <1>2 DEF Works
<1> QED BY <1>2, <1>3, <1>4, <1>5, OnlyMoves

LEMMA GotoStep ==
    ASSUME IInv, NEW r \in Requests,
           \/ Goto(r, "read") /\ At(r, "start")
           \/ Goto(r, "failing") /\ request[r].pc \in {"read", "begin", "parse", "persist", "complete"}
           \/ Goto(r, "settle") \/ Goto(r, "crashed") \/ Goto(r, "unrecorded")
           \/ End(r),
           result' \in [Files -> RowType], executions' = executions
    PROVE  IInv'
<1>1. CASE End(r)
    <2>1. PICK w \in RequestType : request' = [request EXCEPT ![r] = w] /\ w.pc = "done" /\ w.execution = 0
        BY <1>1, Ending DEF IInv
    <2>2. ~Works(w) /\ ~Aims(w) BY <2>1 DEF Works, Aims
    <2> QED BY <2>1, <2>2, OnlyMoves
<1>2. CASE ~End(r)
    <2>1. PICK c \in {"read", "failing", "settle", "crashed", "unrecorded"} :
            Goto(r, c) /\ (c \in {"read", "failing"} => Aims(request[r]))
        BY <1>2 DEF At, Aims
    <2>2. c \in Steps BY <2>1 DEF Steps
    <2>3. PICK w \in RequestType : /\ request' = [request EXCEPT ![r] = w] /\ w.pc = c
                                   /\ w.file = request[r].file /\ w.execution = request[r].execution
        BY <2>1, <2>2, Going DEF IInv
    <2>4. ~Works(w) BY <2>1, <2>3 DEF Works
    <2>5. Aims(w) => w.file \in Files BY <2>1, <2>3 DEF Aims, IInv, Owned
    <2> QED BY <2>3, <2>4, <2>5, OnlyMoves
<1> QED BY <1>1, <1>2

LEMMA OpenStep ==
    ASSUME IInv, NEW r \in Requests, OpenResult(r)
    PROVE  IInv'
<1>1. PICK f, x : f = request[r].file /\ x = result'[f] OBVIOUS
<1>2. f \in Files /\ request[r] \in RequestType
    BY <1>1 DEF IInv, Owned, Types, Aims, OpenResult, At
<1>3. result' = IF result[f].status = "absent" THEN [result EXCEPT ![f] = Row("pending", None)] ELSE result
    BY <1>1 DEF OpenResult, FileOf
<1>4. Row("pending", None) \in RowType BY DEF Row, RowType, ResultStatuses
<1>5. result' \in [Files -> RowType] /\ x \in RowType
    BY <1>1, <1>2, <1>3, <1>4 DEF IInv, Types
<1>6. PICK c \in {"complete", "begin"}, b \in BOOLEAN :
        request' = [request EXCEPT ![r].copy = x, ![r].copied = b, ![r].pc = c]
    BY <1>1 DEF OpenResult, FileOf
<1> DEFINE w == [request[r] EXCEPT !.copy = x, !.copied = b, !.pc = c]
<1>7. w \in RequestType /\ w.pc = c /\ w.file = f /\ w.execution = request[r].execution
    BY <1>1, <1>2, <1>5, <1>6 DEF RequestType, Steps
<1>8. request' = [request EXCEPT ![r] = w] BY <1>6 DEF IInv, Types
<1>9. executions' = executions BY DEF OpenResult
<1> HIDE DEF w
<1>10. ~Works(w) BY <1>6, <1>7 DEF Works
<1> QED BY <1>1, <1>2, <1>5, <1>7, <1>8, <1>9, <1>10, OnlyMoves

LEMMA ParseStep ==
    ASSUME IInv, NEW r \in Requests, Parse(r)
    PROVE  IInv'
<1>1. result' \in [Files -> RowType] /\ executions' = executions
    BY DEF Parse, rows, IInv, Types
<1>2. CASE Goto(r, "failing") BY <1>1, <1>2, GotoStep DEF Parse, At
<1>3. CASE \E d \in Contents : request' = [request EXCEPT ![r].document = d, ![r].pc = "persist"]
    <2>1. PICK d \in Contents : request' = [request EXCEPT ![r].document = d, ![r].pc = "persist"]
        BY <1>3
    <2>2. request[r] \in RequestType /\ Works(request[r]) /\ request[r].file \in Files
        BY DEF IInv, Types, Owned, Parse, At, Works, Aims
    <2> DEFINE w == [request[r] EXCEPT !.document = d, !.pc = "persist"]
    <2>3. w \in RequestType /\ w.file = request[r].file /\ w.execution = request[r].execution
        BY <2>2 DEF RequestType, Steps
    <2>4. request' = [request EXCEPT ![r] = w] BY <2>1 DEF IInv, Types
    <2> HIDE DEF w
    <2>5. w.execution # 0 BY <2>2, <2>3 DEF IInv, Owned, Holds
    <2> QED BY <1>1, <2>2, <2>3, <2>4, <2>5, OnlyMoves
<1> QED BY <1>2, <1>3 DEF Parse

-----------------------------------------------------------------------------
(* The executions of a file after one more has begun.                        *)
LEMMA BeginStep ==
    ASSUME IInv, NEW r \in Requests, BeginExecution(r)
    PROVE  IInv'
<1>1. PICK f, e : f = request[r].file /\ e = executions[f] OBVIOUS
<1>2. /\ f \in Files /\ request[r] \in RequestType /\ request[r].copy \in RowType
      /\ e \in Seq(ExecutionStatuses)
    BY <1>1 DEF IInv, Owned, Types, Aims, BeginExecution, At, RequestType
<1>3. CASE Goto(r, "failing") /\ UNCHANGED <<result, executions>>
    <2>1. result' \in [Files -> RowType] /\ executions' = executions
        BY <1>3 DEF IInv, Types
    <2> QED BY <1>3, <2>1, GotoStep DEF BeginExecution, At
<1>4. CASE /\ executions' = [executions EXCEPT ![f] = Append(@, "running")]
           /\ result' \in {result, [result EXCEPT ![f].status = "parsing"]}
           /\ \E x \in ResultStatuses \cup {"absent"} :
                request' = [request EXCEPT ![r].pc = "parse", ![r].execution = Len(e) + 1, ![r].copy.status = x]
    <2>1. PICK x \in ResultStatuses \cup {"absent"} :
            request' = [request EXCEPT ![r].pc = "parse", ![r].execution = Len(e) + 1, ![r].copy.status = x]
        BY <1>4
    <2> DEFINE w == [request[r] EXCEPT !.pc = "parse", !.execution = Len(e) + 1, !.copy.status = x]
    <2>2. [request[r].copy EXCEPT !.status = x] \in RowType BY <1>2 DEF RowType
    <2>3. w \in RequestType /\ w.pc = "parse" /\ w.file = f /\ w.execution = Len(e) + 1
        <3>1. Len(e) + 1 \in Nat BY <1>2
        <3>2. "parse" \in Steps BY DEF Steps
        <3> QED BY <1>1, <1>2, <2>2, <3>1, <3>2 DEF RequestType
    <2>4. request' = [request EXCEPT ![r] = w] BY <2>1 DEF IInv, Types
    <2> HIDE DEF w
    <2>5. /\ request' \in [Requests -> RequestType]
          /\ request'[r] = w
          /\ \A q \in Requests : q # r => request'[q] = request[q]
        BY <2>3, <2>4 DEF IInv, Types
    <2>6. /\ Append(e, "running") \in Seq(ExecutionStatuses)
          /\ DOMAIN Append(e, "running") = 1..(Len(e) + 1)
          /\ Append(e, "running")[Len(e) + 1] = "running"
          /\ DOMAIN e = 1..Len(e) /\ Len(e) \in Nat
          /\ \A k \in 1..Len(e) : Append(e, "running")[k] = e[k]
        BY <1>2 DEF ExecutionStatuses
    <2>7. /\ executions' \in [Files -> Seq(ExecutionStatuses)]
          /\ executions'[f] = Append(e, "running")
          /\ \A g \in Files : g # f => executions'[g] = executions[g]
        BY <1>1, <1>2, <1>4, <2>6 DEF IInv, Types
    <2>8. result' \in [Files -> RowType]
        <3>1. [result[f] EXCEPT !.status = "parsing"] \in RowType
            BY <1>2 DEF IInv, Types, RowType, ResultStatuses
        <3> QED BY <1>4, <3>1 DEF IInv, Types
    <2>9. Types' BY <2>5, <2>7, <2>8 DEF Types
    <2>10. ASSUME NEW q \in Requests, q # r
           PROVE  /\ request'[q] = request[q]
                  /\ Remembers(request'[q], executions')
                  /\ Works(request'[q]) => Holds(request'[q], executions')
                  /\ request[q].file = f => request[q].execution # Len(e) + 1
        <3>1. request'[q] = request[q] /\ request[q] \in RequestType BY <2>5, <2>10 DEF IInv, Types
        <3>2. Remembers(request[q], executions) BY DEF IInv, Owned
        <3>3. Works(request[q]) => Holds(request[q], executions) BY DEF IInv, Owned
        <3>4. Remembers(request[q], executions') BY <3>2, <2>6, <2>7, <1>1 DEF Remembers
        <3>5. Holds(request[q], executions) => Holds(request[q], executions')
            <4>1. CASE request[q].file = f BY <4>1, <3>2, <2>6, <2>7, <1>1 DEF Remembers, Holds
            <4>2. CASE request[q].file # f BY <4>2, <3>2, <2>7 DEF Remembers, Holds
            <4> QED BY <4>1, <4>2
        <3>6. request[q].file = f => request[q].execution # Len(e) + 1
            BY <3>2, <2>6, <1>1 DEF Remembers
        <3> QED BY <3>1, <3>3, <3>4, <3>5, <3>6
    <2>11. Remembers(w, executions') /\ Holds(w, executions')
        BY <1>2, <2>3, <2>6, <2>7 DEF Remembers, Holds
    <2>12. \A q \in Requests : Aims(request'[q]) => request'[q].file \in Files
        BY <1>2, <2>3, <2>5 DEF IInv, Owned
    <2>13. \A q \in Requests : Remembers(request'[q], executions')
        BY <2>5, <2>10, <2>11
    <2>14. \A q \in Requests : Works(request'[q]) => Holds(request'[q], executions')
        BY <2>5, <2>10, <2>11
    <2>15. \A p, q \in Requests :
              request'[p].execution # 0 /\ request'[p].execution = request'[q].execution
              /\ request'[p].file = request'[q].file => p = q
        BY <2>3, <2>5, <2>10 DEF IInv, Owned
    <2>16. Owned' BY <2>12, <2>13, <2>14, <2>15 DEF Owned
    <2> QED BY <2>9, <2>16 DEF IInv
<1>5. CASE ~(Goto(r, "failing") /\ UNCHANGED <<result, executions>>)
    <2>1. /\ executions' = [executions EXCEPT ![f] = Append(@, "running")]
          /\ result' \in {result, [result EXCEPT ![f].status = "parsing"]}
        BY <1>1, <1>5 DEF BeginExecution, FileOf
    <2>2. request' = [request EXCEPT ![r].pc = "parse", ![r].execution = Len(e) + 1,
                        ![r].copy.status = IF @ = "succeeded" THEN @ ELSE "parsing"]
        BY <1>1, <1>5 DEF BeginExecution, FileOf
    <2>3. request[r].copy.status \in ResultStatuses \cup {"absent"} /\ "parsing" \in ResultStatuses
        BY <1>2 DEF RowType, ResultStatuses
    <2>4. \E x \in ResultStatuses \cup {"absent"} :
             request' = [request EXCEPT ![r].pc = "parse", ![r].execution = Len(e) + 1, ![r].copy.status = x]
        <3>1. CASE request[r].copy.status = "succeeded"
            BY <3>1, <2>2, <2>3 DEF IInv, Types
        <3>2. CASE request[r].copy.status # "succeeded"
            BY <3>2, <2>2, <2>3 DEF IInv, Types
        <3> QED BY <3>1, <3>2
    <2> QED BY <1>4, <2>1, <2>4
<1> QED BY <1>3, <1>5

LEMMA PersistStep ==
    ASSUME IInv, NEW r \in Requests, PersistResult(r)
    PROVE  IInv' /\ \E f \in Files : \E n \in RunningExecutions(f), x \in {"succeeded", "failed"} :
                       executions' = [executions EXCEPT ![f][n] = x]
<1>1. PICK f, n : f = request[r].file /\ n = request[r].execution OBVIOUS
<1>2. request[r].pc = "persist" BY DEF PersistResult, At
<1>3. f \in Files /\ request[r] \in RequestType
    BY <1>1, <1>2 DEF IInv, Owned, Types, Aims
<1>4. Works(request[r]) BY <1>2 DEF Works
<1>5. n \in RunningExecutions(f)
    BY <1>1, <1>4 DEF IInv, Owned, Remembers, Holds, RunningExecutions
<1>6. executions' = [executions EXCEPT ![f][n] = "succeeded"] /\ Goto(r, "complete")
    BY <1>1 DEF PersistResult, FileOf
<1>7. result' \in {result, [result EXCEPT ![f] = Row("succeeded", request[r].document)]}
    BY <1>1 DEF PersistResult, FileOf
<1>8. Row("succeeded", request[r].document) \in RowType
    BY <1>3 DEF Row, RowType, RequestType, ResultStatuses
<1>9. result' \in [Files -> RowType]
    BY <1>7, <1>8 DEF IInv, Types
<1>10. IInv' BY <1>1, <1>3, <1>5, <1>6, <1>9, Finishes
<1> QED BY <1>3, <1>5, <1>6, <1>10

LEMMA FailStep ==
    ASSUME IInv, NEW r \in Requests, FailExecution(r)
    PROVE  /\ IInv'
           /\ \/ executions' = executions
              \/ \E f \in Files : \E n \in RunningExecutions(f), x \in {"succeeded", "failed"} :
                    executions' = [executions EXCEPT ![f][n] = x]
<1>1. PICK f, n : f = request[r].file /\ n = request[r].execution OBVIOUS
<1>2. f \in Files /\ Goto(r, "settle")
    BY <1>1 DEF FailExecution, At, IInv, Owned, Aims
<1>3. CASE n \in RunningExecutions(f)
    <2>1. /\ executions' = [executions EXCEPT ![f][n] = "failed"]
          /\ result' \in {result, [result EXCEPT ![f].status = "failed"]}
        BY <1>1, <1>3 DEF FailExecution, FileOf
    <2>2. result' \in [Files -> RowType]
        BY <1>2, <2>1 DEF IInv, Types, RowType, ResultStatuses
    <2>3. IInv' BY <1>1, <1>2, <1>3, <2>1, <2>2, Finishes
    <2> QED BY <1>2, <1>3, <2>1, <2>3
<1>4. CASE n \notin RunningExecutions(f)
    <2>1. executions' = executions /\ result' = result
        BY <1>1, <1>4 DEF FailExecution, FileOf
    <2>2. result' \in [Files -> RowType] BY <2>1 DEF IInv, Types
    <2> QED BY <1>2, <2>1, <2>2, GotoStep
<1> QED BY <1>3, <1>4

LEMMA InvalidateStep ==
    ASSUME IInv, NEW f \in Files, InvalidateResult(f)
    PROVE  IInv'
<1>1. result' \in [Files -> RowType]
    BY DEF InvalidateResult, IInv, Types, RowType, ResultStatuses
<1> QED BY <1>1 DEF InvalidateResult, IInv, Types, Owned

LEMMA Untouched ==
    ASSUME IInv, UNCHANGED <<rows, request>>
    PROVE  IInv'
BY DEF IInv, Types, Owned, rows

-----------------------------------------------------------------------------
LEMMA InitHolds == Init => IInv
<1> SUFFICES ASSUME Init PROVE IInv
    OBVIOUS
<1>1. << >> \in Seq(ExecutionStatuses) OBVIOUS
<1>2. Row("absent", None) \in RowType BY DEF Row, RowType
<1>3. Types BY <1>1, <1>2, IdleType DEF Init, Types
<1>4. \A r \in Requests : request[r].pc = "idle" /\ request[r].execution = 0
    BY IdleType DEF Init
<1>5. Owned BY <1>4 DEF Owned, Aims, Works, Remembers
<1> QED BY <1>3, <1>5 DEF IInv

(* The steps that leave the executions alone.                                *)
LEMMA QuietStep ==
    ASSUME IInv, NEW r \in Requests,
           \/ StartJob(r) \/ ContentRefused(r) \/ RefuseDifference(r) \/ CompleteJob(r)
           \/ SettleJob(r) \/ FailToPersist(r) \/ Crash(r)
    PROVE  IInv' /\ executions' = executions
<1>1. UNCHANGED rows
    BY DEF StartJob, ContentRefused, RefuseDifference, CompleteJob, SettleJob, FailToPersist, Crash
<1>2. result' \in [Files -> RowType] /\ executions' = executions BY <1>1 DEF rows, IInv, Types
<1>3. \/ Goto(r, "read") /\ At(r, "start")
      \/ Goto(r, "failing") /\ request[r].pc \in {"read", "begin", "parse", "persist", "complete"}
      \/ Goto(r, "settle") \/ Goto(r, "crashed") \/ Goto(r, "unrecorded")
      \/ End(r)
    BY DEF StartJob, ContentRefused, RefuseDifference, CompleteJob, SettleJob, FailToPersist, Crash, At
<1> QED BY <1>2, <1>3, GotoStep

(* Every step keeps the invariant and takes the log a step on, or none.      *)
LEMMA StepHolds ==
    ASSUME IInv, [Next]_vars
    PROVE  IInv' /\ [Log!Next]_executions
<1>1. ASSUME NEW r \in Requests, NEW f \in Files, NEW j \in Jobs, NEW force \in BOOLEAN, Resolve(r, f, j, force)
      PROVE  IInv' /\ executions' = executions
    BY <1>1, ResolveStep DEF Resolve, rows
<1>2. ASSUME NEW r \in Requests,
             \/ StartJob(r) \/ ContentRefused(r) \/ RefuseDifference(r) \/ CompleteJob(r)
             \/ SettleJob(r) \/ FailToPersist(r) \/ Crash(r)
      PROVE  IInv' /\ executions' = executions
    BY <1>2, QuietStep
<1>3. ASSUME NEW r \in Requests, OpenResult(r) PROVE IInv' /\ executions' = executions
    BY <1>3, OpenStep DEF OpenResult
<1>4. ASSUME NEW r \in Requests, Parse(r) PROVE IInv' /\ executions' = executions
    BY <1>4, ParseStep DEF Parse, rows
<1>5. ASSUME NEW j \in Jobs, JobMoves(j) PROVE IInv' /\ executions' = executions
    BY <1>5, Untouched DEF JobMoves, rows
<1>6. ASSUME NEW f \in Files, InvalidateResult(f) PROVE IInv' /\ executions' = executions
    BY <1>6, InvalidateStep DEF InvalidateResult
<1>7. CASE UNCHANGED vars BY <1>7, Untouched DEF vars, rows
<1>8. ASSUME NEW r \in Requests, BeginExecution(r) PROVE IInv' /\ [Log!Next]_executions
    <2>1. IInv' BY <1>8, BeginStep
    <2>2. PICK f : f = request[r].file OBVIOUS
    <2>3. f \in Files BY <1>8, <2>2 DEF BeginExecution, At, IInv, Owned, Aims
    <2>4. CASE executions' = executions BY <2>1, <2>4
    <2>5. CASE executions' # executions
        <3>1. Log!Begin(f)
            BY <1>8, <2>2, <2>5 DEF BeginExecution, FileOf, RunningExecutions, Log!Begin, Log!Running
        <3> QED BY <2>1, <2>3, <3>1 DEF Log!Next
    <2> QED BY <2>4, <2>5
<1>9. ASSUME NEW r \in Requests, PersistResult(r) \/ FailExecution(r) PROVE IInv' /\ [Log!Next]_executions
    <2>1. /\ IInv'
          /\ \/ executions' = executions
             \/ \E f \in Files : \E n \in RunningExecutions(f), x \in {"succeeded", "failed"} :
                   executions' = [executions EXCEPT ![f][n] = x]
        BY <1>9, PersistStep, FailStep
    <2>2. ASSUME NEW f \in Files, NEW n \in RunningExecutions(f), NEW x \in {"succeeded", "failed"},
                 executions' = [executions EXCEPT ![f][n] = x]
          PROVE  Log!Next
        <3>1. n \in Log!Running(f) BY DEF RunningExecutions, Log!Running
        <3> QED BY <2>2, <3>1 DEF Log!Next, Log!Finish
    <2> QED BY <2>1, <2>2
<1> QED BY <1>1, <1>2, <1>3, <1>4, <1>5, <1>6, <1>7, <1>8, <1>9 DEF Next

(* However parse requests interleave, fail and die, the executions of a file *)
(* are numbered in order, run one at a time and never change once finished:  *)
(* begin_parse_execution looks at the running ones under the lock, and each  *)
(* request finishes none but its own.                                        *)
THEOREM ParsingImplementsTheLog == Spec => ImplementsExecutionLog
<1>1. Init => Log!Init BY DEF Init, Log!Init
<1>2. IInv /\ [Next]_vars => IInv' /\ [Log!Next]_executions BY StepHolds
<1> QED BY InitHolds, <1>1, <1>2, PTL DEF Spec, ImplementsExecutionLog, Log!Spec

-----------------------------------------------------------------------------
(* Results, outputs and executions.  A request decides on its copy, which is *)
(* stale in one direction only: what was begun once is never pending again,  *)
(* and artifacts stay.  One that works with the copy of a successful result  *)
(* leaves the row alone, so the row must not say "parsing" then: nobody else *)
(* can have begun since.                                                     *)
Begun(x) == x \notin {"absent", "pending"}
AtWork(q) == Works(q) \/ q.pc \in {"failing", "crashed", "unrecorded"}
Owner(q, f, n) == q.file = f /\ q.execution = n /\ AtWork(q)
Prepared(q) == q.pc = "begin" \/ Works(q)

RequestAccounted(q, log, res, man) ==
    /\ q.pc \in {"idle", "start", "read", "begin"} => q.execution = 0
    /\ q.pc \in {"complete", "settle"} => ~Holds(q, log)
    /\ q.pc = "persist" => q.document \in Contents
    /\ Prepared(q) /\ q.copied => man[q.file] # << >>
    /\ Prepared(q) /\ Begun(q.copy.status) => Begun(res[q.file].status)
    /\ (Works(q) \/ q.pc = "failing") /\ Holds(q, log) /\ q.copy.status = "succeeded" =>
         res[q.file].status # "parsing"

HasOutput(f) ==
    /\ result[f].content # None
    /\ manifests[f] # << >>
    /\ \E n \in DOMAIN executions[f] : executions[f][n] = "succeeded"

FileAccounted(f) ==
    /\ ~Begun(result[f].status) => executions[f] = << >>
    /\ result[f].status = "parsing" => RunningExecutions(f) # {}
    /\ \A n \in RunningExecutions(f) : \E r \in Requests : Owner(request[r], f, n)
    /\ result[f].status \in {"succeeded", "invalidated"} => HasOutput(f)

Accounted ==
    /\ manifests \in [Files -> Seq(Contents)]
    /\ \A r \in Requests : RequestAccounted(request[r], executions, result, manifests)
    /\ \A f \in Files : FileAccounted(f)

LEMMA Requests1 ==
    ASSUME Types, NEW r \in Requests, NEW w \in RequestType, request' = [request EXCEPT ![r] = w]
    PROVE  /\ request' \in [Requests -> RequestType]
           /\ request'[r] = w
           /\ \A q \in Requests : q # r => request'[q] = request[q]
BY DEF Types

(* What every step has to see to for the requests that do not take it.       *)
LEMMA RequestsKept ==
    ASSUME IInv, Accounted, NEW r \in Requests, NEW w \in RequestType, request' = [request EXCEPT ![r] = w],
           RequestAccounted(w, executions', result', manifests'),
           \A g \in Files : Begun(result[g].status) => Begun(result'[g].status),
           \A g \in Files : manifests[g] # << >> => manifests'[g] # << >>,
           \A g \in Files : result'[g].status = "parsing" =>
             result[g].status = "parsing" \/ RunningExecutions(g) = {},
           \A g \in Files : \A n \in DOMAIN executions[g] :
             executions'[g][n] = "running" => executions[g][n] = "running"
    PROVE  \A q \in Requests : RequestAccounted(request'[q], executions', result', manifests')
<1>1. request'[r] = w /\ \A q \in Requests : q # r => request'[q] = request[q]
    BY Requests1 DEF IInv
<1> SUFFICES ASSUME NEW q \in Requests, q # r
             PROVE  RequestAccounted(request[q], executions', result', manifests')
    BY <1>1
<1> DEFINE x == request[q]
<1>2. RequestAccounted(x, executions, result, manifests) /\ Remembers(x, executions)
    BY DEF Accounted, IInv, Owned
<1>3. Holds(x, executions') => Holds(x, executions) /\ x.file \in Files /\ RunningExecutions(x.file) # {}
    BY <1>2 DEF Remembers, Holds, RunningExecutions
<1>4. Prepared(x) => x.file \in Files
    BY DEF IInv, Owned, Prepared, Works, Aims
<1> HIDE DEF x
<1>5. RequestAccounted(x, executions', result', manifests')
    BY <1>2, <1>3, <1>4 DEF RequestAccounted
<1> QED BY <1>5 DEF x

(* A request goes on and no execution begins or ends.                        *)
LEMMA QuietAccounts ==
    ASSUME IInv, Accounted, NEW r \in Requests, NEW w \in RequestType, request' = [request EXCEPT ![r] = w],
           executions' = executions, manifests' = manifests,
           \A g \in Files : \/ result'[g] = result[g]
                            \/ result[g].status = "absent" /\ result'[g].status = "pending",
           RequestAccounted(w, executions, result', manifests),
           AtWork(request[r]) /\ Holds(request[r], executions) =>
             AtWork(w) /\ w.file = request[r].file /\ w.execution = request[r].execution
    PROVE  Accounted'
<1>1. request'[r] = w /\ \A q \in Requests : q # r => request'[q] = request[q]
    BY Requests1 DEF IInv
<1>2. \A q \in Requests : RequestAccounted(request'[q], executions', result', manifests')
    <2>1. \A g \in Files : Begun(result[g].status) => Begun(result'[g].status) BY DEF Begun
    <2>2. \A g \in Files : result'[g].status = "parsing" => result[g].status = "parsing" OBVIOUS
    <2> QED BY <2>1, <2>2, RequestsKept
<1>3. ASSUME NEW f \in Files
      PROVE  FileAccounted(f)'
    <2>1. FileAccounted(f) /\ RunningExecutions(f)' = RunningExecutions(f)
        BY DEF Accounted, RunningExecutions
    <2>2. ASSUME NEW n \in RunningExecutions(f)
          PROVE  \E q \in Requests : Owner(request'[q], f, n)
        <3>1. PICK q \in Requests : Owner(request[q], f, n) BY <2>1 DEF FileAccounted
        <3>2. Holds(request[q], executions)
            BY <3>1 DEF Owner, Holds, RunningExecutions, IInv, Types
        <3>3. Owner(request'[q], f, n) BY <1>1, <3>1, <3>2 DEF Owner
        <3> QED BY <3>3
    <2>3. /\ ~Begun(result'[f].status) => executions[f] = << >>
          /\ result'[f].status = "parsing" => RunningExecutions(f) # {}
        BY <2>1 DEF FileAccounted, Begun
    <2>4. result'[f].status \in {"succeeded", "invalidated"} => HasOutput(f)'
        BY <2>1 DEF FileAccounted, HasOutput
    <2> QED BY <2>1, <2>2, <2>3, <2>4 DEF FileAccounted, Owner, AtWork, Works
<1> QED BY <1>2, <1>3 DEF Accounted

(* A request ends the execution it remembers.                                *)
LEMMA FinishAccounts ==
    ASSUME IInv, Accounted, NEW r \in Requests, NEW f \in Files, f = request[r].file,
           NEW n, n = request[r].execution, n \in RunningExecutions(f),
           NEW x \in {"succeeded", "failed"}, executions' = [executions EXCEPT ![f][n] = x],
           NEW c \in {"complete", "settle"}, Goto(r, c),
           manifests' \in [Files -> Seq(Contents)],
           \A g \in Files : manifests[g] # << >> => manifests'[g] # << >>,
           \A g \in Files : g # f => result'[g] = result[g],
           Begun(result'[f].status), result'[f].status # "parsing",
           \/ result'[f] = result[f]
           \/ result'[f].status = "failed"
           \/ result'[f].content # None /\ manifests'[f] # << >> /\ x = "succeeded"
    PROVE  Accounted'
<1>1. PICK w \in RequestType : /\ request' = [request EXCEPT ![r] = w] /\ w.pc = c
                               /\ w.file = f /\ w.execution = n
    <2>1. c \in Steps BY DEF Steps
    <2> QED BY <2>1, Going DEF IInv
<1>2. request'[r] = w /\ \A q \in Requests : q # r => request'[q] = request[q]
    BY <1>1, Requests1 DEF IInv
<1>3. executions[f] \in Seq(ExecutionStatuses) /\ n \in DOMAIN executions[f] /\ executions[f][n] = "running"
    BY DEF IInv, Types, RunningExecutions
<1>4. /\ executions'[f] = [executions[f] EXCEPT ![n] = x]
      /\ \A g \in Files : g # f => executions'[g] = executions[g]
    BY DEF IInv, Types
<1>5. /\ DOMAIN executions'[f] = DOMAIN executions[f]
      /\ executions'[f][n] = x
      /\ \A k \in DOMAIN executions[f] : k # n => executions'[f][k] = executions[f][k]
    BY <1>3, <1>4
<1>6. RunningExecutions(f)' = RunningExecutions(f) \ {n}
    BY <1>5 DEF RunningExecutions
<1>7. RequestAccounted(w, executions', result', manifests')
    <2>1. ~Holds(w, executions') BY <1>1, <1>5 DEF Holds
    <2> QED BY <1>1, <2>1 DEF RequestAccounted, Prepared, Works
<1>8. \A q \in Requests : RequestAccounted(request'[q], executions', result', manifests')
    <2>1. \A g \in Files : \A k \in DOMAIN executions[g] :
            executions'[g][k] = "running" => executions[g][k] = "running"
        BY <1>4, <1>5
    <2>2. \A g \in Files : result'[g].status = "parsing" => result[g].status = "parsing" OBVIOUS
    <2>3. \A g \in Files : Begun(result[g].status) => Begun(result'[g].status) OBVIOUS
    <2> QED BY <1>1, <1>7, <2>1, <2>2, <2>3, RequestsKept
<1>9. ASSUME NEW g \in Files
      PROVE  FileAccounted(g)'
    <2>1. FileAccounted(g) BY DEF Accounted
    <2>2. ASSUME NEW k \in RunningExecutions(g)'
          PROVE  \E q \in Requests : Owner(request'[q], g, k)
        <3>1. k \in RunningExecutions(g) /\ ~(g = f /\ k = n)
            BY <1>4, <1>6, <2>2 DEF RunningExecutions
        <3>2. PICK q \in Requests : Owner(request[q], g, k) BY <2>1, <3>1 DEF FileAccounted
        <3>3. q # r BY <3>1, <3>2 DEF Owner
        <3> QED BY <1>2, <3>2, <3>3
    <2>3. CASE g # f
        <3>1. executions'[g] = executions[g] /\ result'[g] = result[g] BY <1>4, <2>3
        <3>2. RunningExecutions(g)' = RunningExecutions(g) BY <3>1 DEF RunningExecutions
        <3>3. HasOutput(g) => HasOutput(g)' BY <3>1 DEF HasOutput
        <3> QED BY <2>1, <2>2, <3>1, <3>2, <3>3 DEF FileAccounted, Owner, AtWork, Works
    <2>4. CASE g = f
        <3>1. result'[f].status \in {"succeeded", "invalidated"} => HasOutput(f)'
            <4>1. CASE result'[f] = result[f]
                BY <1>3, <1>5, <2>1, <2>4, <4>1 DEF FileAccounted, HasOutput
            <4>2. CASE result'[f].content # None /\ manifests'[f] # << >> /\ x = "succeeded"
                BY <1>3, <1>5, <4>2 DEF HasOutput
            <4> QED BY <4>1, <4>2
        <3> QED BY <2>2, <2>4, <3>1 DEF FileAccounted, Owner, AtWork, Works
    <2> QED BY <2>3, <2>4
<1> QED BY <1>8, <1>9 DEF Accounted

-----------------------------------------------------------------------------
LEMMA GotoAccounts ==
    ASSUME IInv, Accounted, NEW r \in Requests, UNCHANGED rows,
           \/ Goto(r, "read") /\ At(r, "start")
           \/ Goto(r, "failing") /\ request[r].pc \in {"read", "begin", "parse", "persist", "complete"}
           \/ Goto(r, "settle") /\ At(r, "failing") /\ ~Holds(request[r], executions)
           \/ Goto(r, "crashed")
           \/ Goto(r, "unrecorded")
           \/ End(r) /\ request[r].pc \in {"start", "complete", "settle"}
    PROVE  Accounted'
<1>1. result' = result /\ executions' = executions /\ manifests' = manifests
    BY DEF rows
<1>2. RequestAccounted(request[r], executions, result, manifests)
    BY DEF Accounted
<1>3. CASE End(r) /\ request[r].pc \in {"start", "complete", "settle"}
    <2>1. PICK w \in RequestType : request' = [request EXCEPT ![r] = w] /\ w.pc = "done" /\ w.execution = 0
        BY <1>3, Ending DEF IInv
    <2>2. RequestAccounted(w, executions, result', manifests)
        BY <2>1 DEF RequestAccounted, Prepared, Works
    <2>3. ~AtWork(request[r]) BY <1>3 DEF AtWork, Works
    <2> QED BY <1>1, <2>1, <2>2, <2>3, QuietAccounts
<1>4. CASE ~(End(r) /\ request[r].pc \in {"start", "complete", "settle"})
    <2>1. PICK c \in {"read", "failing", "settle", "crashed", "unrecorded"} :
            /\ Goto(r, c)
            /\ c = "read" => request[r].pc = "start"
            /\ c = "failing" => request[r].pc \in {"read", "begin", "parse", "persist", "complete"}
            /\ c = "settle" => ~Holds(request[r], executions)
        BY <1>4 DEF At
    <2>2. c \in Steps BY <2>1 DEF Steps
    <2>3. PICK w \in RequestType : /\ request' = [request EXCEPT ![r] = w] /\ w.pc = c
                                   /\ w.file = request[r].file /\ w.job = request[r].job
                                   /\ w.execution = request[r].execution
                                   /\ w.copy = request[r].copy /\ w.copied = request[r].copied
        BY <2>1, <2>2, Going DEF IInv
    <2>4. Holds(w, executions) = Holds(request[r], executions)
        BY <2>3 DEF Holds
    <2>5. RequestAccounted(w, executions, result', manifests)
        <3>1. CASE c = "failing"
            <4>1. Holds(w, executions) => Works(request[r])
                BY <1>2, <2>1, <2>4, <3>1 DEF RequestAccounted, Works, Holds
            <4> QED BY <1>1, <1>2, <2>3, <2>4, <3>1, <4>1 DEF RequestAccounted, Prepared, Works
        <3>2. CASE c # "failing"
            BY <1>2, <2>1, <2>3, <2>4, <3>2 DEF RequestAccounted, Prepared, Works
        <3> QED BY <3>1, <3>2
    <2>6. AtWork(request[r]) /\ Holds(request[r], executions) => AtWork(w)
        BY <2>1, <2>3 DEF AtWork, Works
    <2> QED BY <1>1, <2>3, <2>5, <2>6, QuietAccounts
<1> QED BY <1>3, <1>4

LEMMA ResolveAccounts ==
    ASSUME IInv, Accounted, NEW r \in Requests, NEW f \in Files, NEW j \in Jobs, NEW force \in BOOLEAN,
           Resolve(r, f, j, force)
    PROVE  Accounted'
<1>1. PICK c \in {"start", "read"} :
        request' = [request EXCEPT ![r] = [Idle EXCEPT !.pc = c, !.file = f, !.job = j, !.force = force]]
    BY DEF Resolve
<1> DEFINE w == [Idle EXCEPT !.pc = c, !.file = f, !.job = j, !.force = force]
<1>2. w \in RequestType /\ w.pc = c /\ w.execution = 0
    BY <1>1, IdleType DEF RequestType, Steps
<1>3. request' = [request EXCEPT ![r] = w] BY <1>1
<1>4. result' = result /\ executions' = executions /\ manifests' = manifests /\ request[r].pc = "idle"
    BY DEF Resolve, rows, At
<1> HIDE DEF w
<1>5. RequestAccounted(w, executions, result', manifests)
    BY <1>1, <1>2 DEF RequestAccounted, Prepared, Works
<1>6. ~AtWork(request[r]) BY <1>4 DEF AtWork, Works
<1> QED BY <1>2, <1>3, <1>4, <1>5, <1>6, QuietAccounts

LEMMA OpenAccounts ==
    ASSUME IInv, Accounted, NEW r \in Requests, OpenResult(r)
    PROVE  Accounted'
<1>1. PICK f, x, b : f = request[r].file /\ x = result'[f] /\ b = (manifests[f] # << >>) OBVIOUS
<1>2. f \in Files /\ request[r] \in RequestType /\ request[r].pc = "read" /\ request[r].execution = 0
    BY <1>1 DEF IInv, Owned, Types, Aims, OpenResult, At, Accounted, RequestAccounted
<1>3. /\ result' = IF result[f].status = "absent" THEN [result EXCEPT ![f] = Row("pending", None)] ELSE result
      /\ executions' = executions /\ manifests' = manifests
    BY <1>1 DEF OpenResult, FileOf
<1>4. Row("pending", None) \in RowType /\ Row("pending", None).status = "pending"
    BY DEF Row, RowType, ResultStatuses
<1>5. x \in RowType
    BY <1>1, <1>2, <1>3, <1>4 DEF IInv, Types
<1>6. PICK c \in {"complete", "begin"} :
        request' = [request EXCEPT ![r].copy = x, ![r].copied = b, ![r].pc = c]
    BY <1>1 DEF OpenResult, FileOf
<1> DEFINE w == [request[r] EXCEPT !.copy = x, !.copied = b, !.pc = c]
<1>7. b \in BOOLEAN BY <1>1
<1>8. w \in RequestType /\ w.pc = c /\ w.file = f /\ w.execution = 0 /\ w.copy = x /\ w.copied = b
    BY <1>1, <1>2, <1>5, <1>6, <1>7 DEF RequestType, Steps
<1>9. request' = [request EXCEPT ![r] = w] BY <1>6 DEF IInv, Types
<1> HIDE DEF w
<1>10. RequestAccounted(w, executions, result', manifests)
    BY <1>1, <1>6, <1>8 DEF RequestAccounted, Prepared, Works, Holds
<1>11. \A g \in Files : result'[g] = result[g] \/ (result[g].status = "absent" /\ result'[g].status = "pending")
    BY <1>3, <1>4 DEF IInv, Types
<1>12. ~AtWork(request[r]) BY <1>2 DEF AtWork, Works
<1> QED BY <1>3, <1>8, <1>9, <1>10, <1>11, <1>12, QuietAccounts

LEMMA ParseAccounts ==
    ASSUME IInv, Accounted, NEW r \in Requests, Parse(r)
    PROVE  Accounted'
<1>1. CASE Goto(r, "failing") BY <1>1, GotoAccounts DEF Parse, At
<1>2. CASE \E d \in Contents : request' = [request EXCEPT ![r].document = d, ![r].pc = "persist"]
    <2>1. PICK d \in Contents : request' = [request EXCEPT ![r].document = d, ![r].pc = "persist"]
        BY <1>2
    <2>2. /\ request[r] \in RequestType /\ request[r].pc = "parse"
          /\ RequestAccounted(request[r], executions, result, manifests)
        BY DEF IInv, Types, Accounted, Parse, At
    <2> DEFINE w == [request[r] EXCEPT !.document = d, !.pc = "persist"]
    <2>3. /\ w \in RequestType /\ w.file = request[r].file /\ w.execution = request[r].execution
          /\ w.copy = request[r].copy /\ w.copied = request[r].copied
          /\ w.document = d /\ w.pc = "persist"
        BY <2>2 DEF RequestType, Steps
    <2>4. request' = [request EXCEPT ![r] = w] BY <2>1 DEF IInv, Types
    <2> HIDE DEF w
    <2>5. result' = result /\ executions' = executions /\ manifests' = manifests
        BY DEF Parse, rows
    <2>6. RequestAccounted(w, executions, result', manifests)
        BY <2>2, <2>3, <2>5 DEF RequestAccounted, Prepared, Works, Holds
    <2>7. AtWork(w) BY <2>3 DEF AtWork, Works
    <2> QED BY <2>3, <2>4, <2>5, <2>6, <2>7, QuietAccounts
<1> QED BY <1>1, <1>2 DEF Parse

LEMMA BeginAccounts ==
    ASSUME IInv, Accounted, NEW r \in Requests, BeginExecution(r)
    PROVE  Accounted'
<1>1. PICK f, e, old : f = request[r].file /\ e = executions[f] /\ old = request[r].copy.status OBVIOUS
<1>2. /\ f \in Files /\ request[r] \in RequestType /\ request[r].copy \in RowType
      /\ e \in Seq(ExecutionStatuses) /\ request[r].pc = "begin"
      /\ RequestAccounted(request[r], executions, result, manifests)
    BY <1>1 DEF IInv, Owned, Types, Aims, BeginExecution, At, RequestType, Accounted
<1>3. CASE Goto(r, "failing") /\ UNCHANGED <<result, executions>>
    BY <1>2, <1>3, GotoAccounts DEF BeginExecution, rows
<1>4. CASE ~(Goto(r, "failing") /\ UNCHANGED <<result, executions>>)
    <2>1. /\ RunningExecutions(f) = {}
          /\ executions' = [executions EXCEPT ![f] = Append(e, "running")]
          /\ result' = IF old \in {"succeeded", "parsing"} THEN result
                       ELSE [result EXCEPT ![f].status = "parsing"]
          /\ manifests' = manifests
        BY <1>1, <1>4 DEF BeginExecution, FileOf
    <2>2. PICK x \in {"succeeded", "parsing"} :
            /\ request' = [request EXCEPT ![r].pc = "parse", ![r].execution = Len(e) + 1, ![r].copy.status = x]
            /\ x = "succeeded" => old = "succeeded"
        <3>1. request' = [request EXCEPT ![r].pc = "parse", ![r].execution = Len(e) + 1,
                            ![r].copy.status = IF @ = "succeeded" THEN @ ELSE "parsing"]
            BY <1>1, <1>4 DEF BeginExecution, FileOf
        <3>2. CASE old = "succeeded"
            BY <1>1, <3>1, <3>2 DEF IInv, Types
        <3>3. CASE old # "succeeded"
            BY <1>1, <3>1, <3>3 DEF IInv, Types
        <3> QED BY <3>2, <3>3
    <2> DEFINE w == [request[r] EXCEPT !.pc = "parse", !.execution = Len(e) + 1, !.copy.status = x]
    <2>3. [request[r].copy EXCEPT !.status = x] \in RowType BY <1>2, <2>2 DEF RowType, ResultStatuses
    <2>4. /\ w \in RequestType /\ w.pc = "parse" /\ w.file = f /\ w.execution = Len(e) + 1
          /\ w.copied = request[r].copied /\ w.copy.status = x
        <3>1. Len(e) + 1 \in Nat BY <1>2
        <3>2. "parse" \in Steps BY DEF Steps
        <3>3. [request[r].copy EXCEPT !.status = x].status = x BY <1>2 DEF RowType
        <3> QED BY <1>1, <1>2, <2>3, <3>1, <3>2, <3>3 DEF RequestType
    <2>5. request' = [request EXCEPT ![r] = w] BY <2>2 DEF IInv, Types
    <2> HIDE DEF w
    <2>6. /\ DOMAIN Append(e, "running") = 1..(Len(e) + 1)
          /\ Append(e, "running")[Len(e) + 1] = "running"
          /\ DOMAIN e = 1..Len(e) /\ Len(e) \in Nat
          /\ \A k \in 1..Len(e) : Append(e, "running")[k] = e[k]
        BY <1>2 DEF ExecutionStatuses
    <2>7. /\ executions'[f] = Append(e, "running")
          /\ \A g \in Files : g # f => executions'[g] = executions[g]
        BY <1>1, <1>2, <2>1, <2>6 DEF IInv, Types
    <2>8. RunningExecutions(f)' = {Len(e) + 1}
        BY <1>1, <2>1, <2>6, <2>7 DEF RunningExecutions
    <2>9. FileAccounted(f) BY <1>2 DEF Accounted
    <2>10. /\ \A g \in Files : g # f => result'[g] = result[g]
           /\ result'[f] = result[f] \/ result'[f].status = "parsing"
           /\ Begun(result'[f].status)
           /\ x = "succeeded" => result'[f].status # "parsing"
        <3>1. CASE old \in {"succeeded", "parsing"}
            <4>1. Begun(result[f].status)
                BY <1>1, <1>2, <3>1 DEF RequestAccounted, Prepared, Begun
            <4>2. result[f].status # "parsing" BY <2>1, <2>9 DEF FileAccounted
            <4> QED BY <2>1, <3>1, <4>1, <4>2
        <3>2. CASE old \notin {"succeeded", "parsing"}
            <4>1. result' = [result EXCEPT ![f].status = "parsing"] /\ x # "succeeded"
                BY <2>1, <2>2, <3>2
            <4>2. result'[f].status = "parsing" /\ \A g \in Files : g # f => result'[g] = result[g]
                BY <1>2, <4>1 DEF IInv, Types, RowType
            <4> QED BY <4>1, <4>2 DEF Begun
        <3> QED BY <3>1, <3>2
    <2>11. RequestAccounted(w, executions', result', manifests')
        BY <1>1, <1>2, <2>1, <2>2, <2>4, <2>10 DEF RequestAccounted, Prepared, Works
    <2>12. \A q \in Requests : RequestAccounted(request'[q], executions', result', manifests')
        <3>1. \A g \in Files : \A k \in DOMAIN executions[g] :
                executions'[g][k] = "running" => executions[g][k] = "running"
            BY <1>1, <2>6, <2>7
        <3>2. \A g \in Files : result'[g].status = "parsing" =>
                result[g].status = "parsing" \/ RunningExecutions(g) = {}
            BY <2>1, <2>10
        <3>3. \A g \in Files : Begun(result[g].status) => Begun(result'[g].status)
            BY <2>10
        <3>4. manifests' = manifests BY <2>1
        <3> QED BY <2>4, <2>5, <2>11, <3>1, <3>2, <3>3, <3>4, RequestsKept
    <2>13. request'[r] = w /\ \A q \in Requests : q # r => request'[q] = request[q]
        BY <2>4, <2>5, Requests1 DEF IInv
    <2>14. ASSUME NEW g \in Files
           PROVE  FileAccounted(g)'
        <3>1. CASE g = f
            <4>1. Owner(request'[r], f, Len(e) + 1)
                BY <2>4, <2>13 DEF Owner, AtWork, Works
            <4>2. \A k \in RunningExecutions(f)' : \E q \in Requests : Owner(request'[q], f, k)
                BY <2>8, <4>1
            <4>3. result'[f].status \in {"succeeded", "invalidated"} => HasOutput(f)'
                BY <1>1, <2>1, <2>6, <2>7, <2>9, <2>10 DEF FileAccounted, HasOutput
            <4> QED BY <2>8, <2>10, <3>1, <4>2, <4>3 DEF FileAccounted, Owner, AtWork, Works
        <3>2. CASE g # f
            <4>1. executions'[g] = executions[g] /\ result'[g] = result[g] /\ manifests' = manifests
                BY <2>1, <2>7, <2>10, <3>2
            <4>2. RunningExecutions(g)' = RunningExecutions(g) /\ FileAccounted(g)
                BY <4>1 DEF RunningExecutions, Accounted
            <4>3. ASSUME NEW k \in RunningExecutions(g)
                  PROVE  \E q \in Requests : Owner(request'[q], g, k)
                <5>1. PICK q \in Requests : Owner(request[q], g, k) BY <4>2 DEF FileAccounted
                <5>2. q # r BY <1>1, <3>2, <5>1 DEF Owner
                <5> QED BY <2>13, <5>1, <5>2
            <4>4. HasOutput(g) => HasOutput(g)' BY <4>1 DEF HasOutput
            <4> QED BY <4>1, <4>2, <4>3, <4>4 DEF FileAccounted, Owner, AtWork, Works
        <3> QED BY <3>1, <3>2
    <2>15. manifests' \in [Files -> Seq(Contents)] BY <2>1 DEF Accounted
    <2> QED BY <2>12, <2>14, <2>15 DEF Accounted
<1> QED BY <1>3, <1>4

LEMMA PersistAccounts ==
    ASSUME IInv, Accounted, NEW r \in Requests, PersistResult(r)
    PROVE  Accounted'
<1>1. PICK f, n, d : f = request[r].file /\ n = request[r].execution /\ d = request[r].document OBVIOUS
<1>2. request[r].pc = "persist" /\ RequestAccounted(request[r], executions, result, manifests)
    BY DEF PersistResult, At, Accounted
<1>3. Works(request[r]) BY <1>2 DEF Works
<1>4. f \in Files /\ n \in RunningExecutions(f) /\ d \in Contents
    BY <1>1, <1>2, <1>3 DEF IInv, Owned, Aims, Remembers, Holds, RunningExecutions, RequestAccounted
<1>5. executions' = [executions EXCEPT ![f][n] = "succeeded"] /\ Goto(r, "complete")
    BY <1>1 DEF PersistResult, FileOf
<1>6. FileAccounted(f) /\ Begun(result[f].status)
    <2>1. FileAccounted(f) BY <1>4 DEF Accounted
    <2> QED BY <1>4, <2>1 DEF FileAccounted, RunningExecutions
<1>7. CASE /\ result' = [result EXCEPT ![f] = Row("succeeded", d)]
           /\ manifests' = ManifestsAfter(r)
    <2>1. result'[f] = Row("succeeded", d) /\ \A g \in Files : g # f => result'[g] = result[g]
        BY <1>4, <1>7 DEF IInv, Types
    <2>2. /\ Begun(result'[f].status) /\ result'[f].status # "parsing"
          /\ result'[f].content # None
        BY <1>4, <2>1, NoneAssumption DEF Row, Begun
    <2>3. /\ manifests' \in [Files -> Seq(Contents)]
          /\ \A g \in Files : manifests[g] # << >> => manifests'[g] # << >>
          /\ manifests'[f] # << >>
        <3>1. CASE request[r].copied
            <4>1. manifests[f] # << >> BY <1>1, <1>2, <1>3, <3>1 DEF RequestAccounted, Prepared
            <4>2. manifests' = manifests BY <1>7, <3>1 DEF ManifestsAfter
            <4> QED BY <4>1, <4>2 DEF Accounted
        <3>2. CASE ~request[r].copied
            <4>1. manifests' = [manifests EXCEPT ![f] = Append(manifests[f], d)]
                BY <1>1, <1>7, <3>2 DEF ManifestsAfter, FileOf
            <4>2. manifests[f] \in Seq(Contents) BY <1>4 DEF Accounted
            <4>3. Append(manifests[f], d) \in Seq(Contents) /\ Append(manifests[f], d) # << >>
                BY <1>4, <4>2
            <4> QED BY <1>4, <4>1, <4>3 DEF Accounted
        <3> QED BY <3>1, <3>2
    <2> QED BY <1>1, <1>4, <1>5, <2>1, <2>2, <2>3, FinishAccounts
<1>8. CASE request[r].copy = Row("succeeded", d) /\ UNCHANGED <<result, manifests>>
    <2>1. request[r].copy.status = "succeeded" BY <1>8 DEF Row
    <2>2. result[f].status # "parsing"
        BY <1>1, <1>2, <1>3, <2>1 DEF RequestAccounted, IInv, Owned
    <2>3. result' = result /\ manifests' = manifests BY <1>8
    <2>4. manifests' \in [Files -> Seq(Contents)] BY <2>3 DEF Accounted
    <2> QED BY <1>1, <1>4, <1>5, <1>6, <2>2, <2>3, <2>4, FinishAccounts
<1> QED BY <1>1, <1>7, <1>8 DEF PersistResult, FileOf

LEMMA FailAccounts ==
    ASSUME IInv, Accounted, NEW r \in Requests, FailExecution(r)
    PROVE  Accounted'
<1>1. PICK f, n : f = request[r].file /\ n = request[r].execution OBVIOUS
<1>2. /\ f \in Files /\ Goto(r, "settle") /\ request[r].pc = "failing" /\ manifests' = manifests
      /\ RequestAccounted(request[r], executions, result, manifests)
    BY <1>1 DEF FailExecution, At, IInv, Owned, Aims, Accounted
<1>3. CASE n \in RunningExecutions(f)
    <2>1. /\ executions' = [executions EXCEPT ![f][n] = "failed"]
          /\ result' = IF request[r].copy.status = "succeeded" THEN result
                       ELSE [result EXCEPT ![f].status = "failed"]
        BY <1>1, <1>3 DEF FailExecution, FileOf
    <2>2. n # 0 /\ executions[f] # << >> /\ Holds(request[r], executions)
        BY <1>1, <1>2, <1>3 DEF RunningExecutions, IInv, Types, Holds
    <2>3. Begun(result[f].status) BY <1>2, <2>2 DEF Accounted, FileAccounted
    <2>4. /\ \A g \in Files : g # f => result'[g] = result[g]
          /\ Begun(result'[f].status) /\ result'[f].status # "parsing"
          /\ result'[f] = result[f] \/ result'[f].status = "failed"
        <3>1. CASE request[r].copy.status = "succeeded"
            BY <1>1, <1>2, <2>1, <2>2, <2>3, <3>1 DEF RequestAccounted
        <3>2. CASE request[r].copy.status # "succeeded"
            <4>1. result' = [result EXCEPT ![f].status = "failed"] BY <2>1, <3>2
            <4>2. result'[f].status = "failed" /\ \A g \in Files : g # f => result'[g] = result[g]
                BY <1>2, <4>1 DEF IInv, Types, RowType
            <4> QED BY <4>2 DEF Begun
        <3> QED BY <3>1, <3>2
    <2>5. manifests' \in [Files -> Seq(Contents)] /\ \A g \in Files : manifests[g] # << >> => manifests'[g] # << >>
        BY <1>2 DEF Accounted
    <2> QED BY <1>1, <1>2, <1>3, <2>1, <2>4, <2>5, FinishAccounts
<1>4. CASE n \notin RunningExecutions(f)
    <2>1. UNCHANGED rows
        BY <1>1, <1>2, <1>4 DEF FailExecution, FileOf, rows
    <2>2. ~Holds(request[r], executions)
        BY <1>1, <1>4 DEF Holds, RunningExecutions, IInv, Owned, Remembers
    <2> QED BY <1>2, <2>1, <2>2, GotoAccounts DEF At
<1> QED BY <1>3, <1>4

LEMMA InvalidateAccounts ==
    ASSUME IInv, Accounted, NEW f \in Files, InvalidateResult(f)
    PROVE  Accounted'
<1>1. /\ request' = request /\ executions' = executions /\ manifests' = manifests
      /\ result[f].status = "succeeded"
      /\ result' = [result EXCEPT ![f].status = "invalidated"]
    BY DEF InvalidateResult
<1>2. /\ result'[f].status = "invalidated" /\ result'[f].content = result[f].content
      /\ \A g \in Files : g # f => result'[g] = result[g]
    BY <1>1 DEF IInv, Types, RowType
<1>3. \A q \in Requests : RequestAccounted(request[q], executions, result', manifests)
    <2> SUFFICES ASSUME NEW q \in Requests
                 PROVE  RequestAccounted(request[q], executions, result', manifests)
        OBVIOUS
    <2>1. RequestAccounted(request[q], executions, result, manifests) BY DEF Accounted
    <2>2. Prepared(request[q]) => request[q].file \in Files
        BY DEF IInv, Owned, Prepared, Works, Aims
    <2>3. Works(request[q]) \/ request[q].pc = "failing" => request[q].file \in Files
        BY DEF IInv, Owned, Works, Aims
    <2> QED BY <1>1, <1>2, <2>1, <2>2, <2>3 DEF RequestAccounted, Begun
<1>4. ASSUME NEW g \in Files PROVE FileAccounted(g)'
    <2>1. FileAccounted(g) /\ RunningExecutions(g)' = RunningExecutions(g)
        BY <1>1 DEF Accounted, RunningExecutions
    <2>2. result[g].status \in {"succeeded", "invalidated"} <=> result'[g].status \in {"succeeded", "invalidated"}
        BY <1>1, <1>2
    <2>3. HasOutput(g) => HasOutput(g)' BY <1>1, <1>2 DEF HasOutput
    <2> QED BY <1>1, <1>2, <2>1, <2>2, <2>3 DEF FileAccounted, Begun, Owner, AtWork, Works
<1> QED BY <1>1, <1>3, <1>4 DEF Accounted

LEMMA AccountsHold == IInv /\ Accounted /\ [Next]_vars => Accounted'
<1> SUFFICES ASSUME IInv, Accounted, [Next]_vars PROVE Accounted'
    OBVIOUS
<1>1. ASSUME NEW r \in Requests,
             \/ StartJob(r) \/ ContentRefused(r) \/ RefuseDifference(r) \/ CompleteJob(r)
             \/ SettleJob(r) \/ FailToPersist(r) \/ Crash(r)
      PROVE  Accounted'
    <2>1. UNCHANGED rows
        BY <1>1 DEF StartJob, ContentRefused, RefuseDifference, CompleteJob, SettleJob, FailToPersist, Crash
    <2>2. \/ Goto(r, "read") /\ At(r, "start")
          \/ Goto(r, "failing") /\ request[r].pc \in {"read", "begin", "parse", "persist", "complete"}
          \/ Goto(r, "crashed") \/ Goto(r, "unrecorded")
          \/ End(r) /\ request[r].pc \in {"start", "complete", "settle"}
        BY <1>1 DEF StartJob, ContentRefused, RefuseDifference, CompleteJob, SettleJob, FailToPersist, Crash, At
    <2> QED BY <2>1, <2>2, GotoAccounts
<1>2. ASSUME UNCHANGED <<rows, request>>
      PROVE  Accounted'
    <2>1. result' = result /\ executions' = executions /\ manifests' = manifests /\ request' = request
        BY <1>2 DEF rows
    <2> QED BY <2>1 DEF Accounted, RequestAccounted, FileAccounted, RunningExecutions, HasOutput,
                        Holds, Prepared, Works, Owner, AtWork
<1>3. ASSUME NEW j \in Jobs, JobMoves(j) PROVE Accounted'
    BY <1>2, <1>3 DEF JobMoves
<1>4. CASE UNCHANGED vars BY <1>2, <1>4 DEF vars
<1> QED BY <1>1, <1>3, <1>4, ResolveAccounts, OpenAccounts, ParseAccounts, BeginAccounts, PersistAccounts,
           FailAccounts, InvalidateAccounts DEF Next

-----------------------------------------------------------------------------
(* Jobs.  One that runs has a last attempt that runs, so that what settles   *)
(* it always finds one to end; and a request past its start knows its job.   *)
JobType == [status : {"queued", "reserved", "running", "succeeded", "failed", "retrying", "cancelled"},
            attempts : Seq({"running", "success", "failed"}), held : BOOLEAN, retries : Nat]

Runs(x) == x.status = "running" => Len(x.attempts) # 0 /\ x.attempts[Len(x.attempts)] = "running"
Settles(q) == Aims(q) \/ q.pc = "settle"

JobsAccounted ==
    /\ job \in [Jobs -> JobType]
    /\ \A j \in Jobs : Runs(job[j])
    /\ \A r \in Requests : Settles(request[r]) => request[r].job \in Jobs

(* What the steps a request takes between its start and its end have in      *)
(* common.                                                                   *)
LEMMA BetweenStep ==
    ASSUME IInv, NEW r \in Requests,
           \/ ContentRefused(r) \/ OpenResult(r) \/ BeginExecution(r) \/ Parse(r) \/ PersistResult(r)
           \/ RefuseDifference(r) \/ FailExecution(r) \/ FailToPersist(r) \/ Crash(r)
    PROVE  /\ job' = job
           /\ request'[r].job = request[r].job
           /\ request'[r].pc # "done"
           /\ Aims(request[r]) \/ request'[r].pc = "crashed"
           /\ \A q \in Requests : q # r => request'[q] = request[q]
<1>1. job' = job
    BY DEF ContentRefused, OpenResult, BeginExecution, Parse, PersistResult, RefuseDifference,
           FailExecution, FailToPersist, Crash
<1>2. request[r] \in RequestType /\ r \in DOMAIN request BY DEF IInv, Types
<1>3. CASE \E c \in Steps \ {"done"} : Goto(r, c) /\ (Aims(request[r]) \/ c = "crashed")
    <2>1. PICK c \in Steps \ {"done"} : Goto(r, c) /\ (Aims(request[r]) \/ c = "crashed") BY <1>3
    <2>2. PICK w \in RequestType : /\ request' = [request EXCEPT ![r] = w] /\ w.pc = c
                                   /\ w.job = request[r].job
        BY <2>1, Going DEF IInv
    <2>3. request'[r] = w /\ \A q \in Requests : q # r => request'[q] = request[q]
        BY <2>2, Requests1 DEF IInv
    <2> QED BY <1>1, <2>1, <2>2, <2>3
<1>4. CASE OpenResult(r)
    <2>0. PICK f, x : f = request[r].file /\ x = result'[f] OBVIOUS
    <2>1. PICK c \in {"complete", "begin"}, b \in BOOLEAN :
            request' = [request EXCEPT ![r].copy = x, ![r].copied = b, ![r].pc = c]
        BY <1>4, <2>0 DEF OpenResult, FileOf
    <2> DEFINE w == [request[r] EXCEPT !.copy = x, !.copied = b, !.pc = c]
    <2>2. w.job = request[r].job /\ w.pc = c BY <1>2 DEF RequestType
    <2>3. request'[r] = w /\ \A q \in Requests : q # r => request'[q] = request[q]
        BY <1>2, <2>1 DEF IInv, Types
    <2> HIDE DEF w
    <2> QED BY <1>1, <1>4, <2>1, <2>2, <2>3 DEF OpenResult, At, Aims
<1>5. CASE BeginExecution(r) /\ ~Goto(r, "failing")
    <2>1. PICK n, x : request' = [request EXCEPT ![r].pc = "parse", ![r].execution = n, ![r].copy.status = x]
        <3>1. request' = [request EXCEPT ![r].pc = "parse", ![r].execution = Len(executions[FileOf(r)]) + 1,
                            ![r].copy.status = IF @ = "succeeded" THEN @ ELSE "parsing"]
            BY <1>5 DEF BeginExecution
        <3>2. CASE request[r].copy.status = "succeeded"
            BY <3>1, <3>2 DEF IInv, Types
        <3>3. CASE request[r].copy.status # "succeeded"
            BY <3>1, <3>3 DEF IInv, Types
        <3> QED BY <3>2, <3>3
    <2> DEFINE w == [request[r] EXCEPT !.pc = "parse", !.execution = n, !.copy.status = x]
    <2>2. w.job = request[r].job /\ w.pc = "parse" BY <1>2 DEF RequestType
    <2>3. request'[r] = w /\ \A q \in Requests : q # r => request'[q] = request[q]
        BY <1>2, <2>1 DEF IInv, Types
    <2> HIDE DEF w
    <2> QED BY <1>1, <1>5, <2>2, <2>3 DEF BeginExecution, At, Aims
<1>6. CASE Parse(r) /\ ~Goto(r, "failing")
    <2>1. PICK d \in Contents : request' = [request EXCEPT ![r].document = d, ![r].pc = "persist"]
        BY <1>6 DEF Parse
    <2> DEFINE w == [request[r] EXCEPT !.document = d, !.pc = "persist"]
    <2>2. w.job = request[r].job /\ w.pc = "persist" BY <1>2 DEF RequestType
    <2>3. request'[r] = w /\ \A q \in Requests : q # r => request'[q] = request[q]
        BY <1>2, <2>1 DEF IInv, Types
    <2> HIDE DEF w
    <2> QED BY <1>1, <1>6, <2>2, <2>3 DEF Parse, At, Aims
<1>7. CASE \/ BeginExecution(r) /\ Goto(r, "failing")
           \/ Parse(r) /\ Goto(r, "failing")
           \/ ContentRefused(r) \/ PersistResult(r) \/ RefuseDifference(r) \/ FailExecution(r) \/ FailToPersist(r) \/ Crash(r)
    <2>1. \/ Goto(r, "crashed")
          \/ /\ Goto(r, "failing") \/ Goto(r, "complete") \/ Goto(r, "settle") \/ Goto(r, "unrecorded")
             /\ Aims(request[r])
        BY <1>7 DEF ContentRefused, BeginExecution, Parse, PersistResult, RefuseDifference,
                    FailExecution, FailToPersist, Crash, At, Aims
    <2> QED BY <1>3, <2>1 DEF Steps
<1>8. CASE BeginExecution(r) BY <1>5, <1>7, <1>8
<1>9. CASE Parse(r) BY <1>6, <1>7, <1>9
<1> QED BY <1>4, <1>7, <1>8, <1>9

LEMMA SequenceExcept ==
    ASSUME NEW S, NEW a \in Seq(S), NEW n, NEW x \in S
    PROVE  [a EXCEPT ![n] = x] \in Seq(S)
<1>1. Len(a) \in Nat /\ a \in [1..Len(a) -> S] OBVIOUS
<1>2. [a EXCEPT ![n] = x] \in [1..Len(a) -> S] BY <1>1
<1> QED BY <1>1, <1>2, SeqDef

(* complete_job and fail_job leave a job that runs no longer.                *)
LEMMA EndedJob ==
    ASSUME JobsAccounted, NEW j \in Jobs, NEW status \in {"succeeded", "failed"},
           NEW outcome \in {"success", "failed"}, EndJob(j, status, outcome)
    PROVE  /\ job' \in [Jobs -> JobType]
           /\ job'[j].status = status
           /\ \A i \in Jobs : Runs(job'[i])
<1> DEFINE last == CHOOSE n \in RunningAttempts(j) : \A m \in RunningAttempts(j) : m <= n
           log == [job[j].attempts EXCEPT ![last] = outcome]
           x == [job[j] EXCEPT !.status = status, !.attempts = log, !.held = FALSE]
<1>1. job[j] \in JobType BY DEF JobsAccounted
<1>2. job' = [job EXCEPT ![j].status = status, ![j].attempts[last] = outcome, ![j].held = FALSE]
    BY DEF EndJob
<1> HIDE DEF last
<1>3. log \in Seq({"running", "success", "failed"})
    <2>1. job[j].attempts \in Seq({"running", "success", "failed"}) BY <1>1 DEF JobType
    <2> QED BY <2>1, SequenceExcept
<1>4. job' = [job EXCEPT ![j] = x]
    BY <1>1, <1>2 DEF JobsAccounted, JobType
<1> HIDE DEF log
<1>5. x \in JobType /\ x.status = status BY <1>1, <1>3 DEF JobType
<1> HIDE DEF x
<1>6. job'[j] = x /\ \A i \in Jobs : i # j => job'[i] = job[i] BY <1>4 DEF JobsAccounted
<1>7. Runs(x) BY <1>5 DEF Runs
<1> QED BY <1>4, <1>5, <1>6, <1>7 DEF JobsAccounted

LEMMA StartedJob ==
    ASSUME JobsAccounted, NEW j \in Jobs,
           job' = [job EXCEPT ![j].status = "running", ![j].attempts = Append(@, "running")]
    PROVE  job' \in [Jobs -> JobType] /\ \A i \in Jobs : Runs(job'[i])
<1> DEFINE log == Append(job[j].attempts, "running")
           x == [job[j] EXCEPT !.status = "running", !.attempts = log]
<1>1. job[j] \in JobType BY DEF JobsAccounted
<1>2. /\ log \in Seq({"running", "success", "failed"})
      /\ Len(log) # 0 /\ log[Len(log)] = "running"
    BY <1>1 DEF JobType
<1>3. job' = [job EXCEPT ![j] = x] BY <1>1 DEF JobsAccounted, JobType
<1> HIDE DEF log
<1>4. x \in JobType /\ x.attempts = log BY <1>1, <1>2 DEF JobType
<1> HIDE DEF x
<1>5. job'[j] = x /\ \A i \in Jobs : i # j => job'[i] = job[i] BY <1>3 DEF JobsAccounted
<1>6. Runs(x) BY <1>2, <1>4 DEF Runs
<1> QED BY <1>3, <1>4, <1>5, <1>6 DEF JobsAccounted

LEMMA MovedJob ==
    ASSUME JobsAccounted, NEW j \in Jobs, JobMoves(j)
    PROVE  job' \in [Jobs -> JobType] /\ \A i \in Jobs : Runs(job'[i])
<1>1. PICK b \in [status : {"queued", "reserved", "running", "succeeded", "failed", "retrying", "cancelled"},
                  attempts : Attempts(j), held : BOOLEAN, retries : {job[j].retries, job[j].retries + 1}] :
         Lifecycle!Step(job[j], b) /\ job' = [job EXCEPT ![j] = b]
    BY DEF JobMoves
<1>2. job[j] \in JobType BY DEF JobsAccounted
<1>3. PICK a : a = job[j].attempts OBVIOUS
<1>4. a \in Seq({"running", "success", "failed"}) BY <1>2, <1>3 DEF JobType
<1>5. /\ Append(a, "running") \in Seq({"running", "success", "failed"})
      /\ Len(Append(a, "running")) # 0 /\ Append(a, "running")[Len(Append(a, "running"))] = "running"
    BY <1>4
<1>6. [a EXCEPT ![Len(a)] = "success"] \in Seq({"running", "success", "failed"}) BY <1>4, SequenceExcept
<1>7. [a EXCEPT ![Len(a)] = "failed"] \in Seq({"running", "success", "failed"}) BY <1>4, SequenceExcept
<1>8. b.attempts \in Seq({"running", "success", "failed"})
    <2>1. b.attempts \in Attempts(j) BY <1>1
    <2>2. \/ b.attempts \in {a, Append(a, "running")}
          \/ \E end \in {"success", "failed"} : b.attempts = [a EXCEPT ![Len(a)] = end]
        BY <1>3, <2>1 DEF Attempts
    <2> QED BY <1>4, <1>5, <1>6, <1>7, <2>2
<1>9. b \in JobType
    <2>1. b.retries \in Nat BY <1>1, <1>2 DEF JobType
    <2> QED BY <1>1, <1>8, <2>1 DEF JobType
<1>10. Runs(b)
    <2>1. CASE b.status # "running" BY <2>1 DEF Runs
    <2>2. CASE b.status = "running"
        <3>1. job[j].status # "absent" BY <1>2 DEF JobType
        <3>2. CASE Lifecycle!Start(job[j], b)
            BY <1>2, <1>3, <1>5, <3>2 DEF Lifecycle!Start, Runs, JobType
        <3>3. CASE ~Lifecycle!Start(job[j], b)
            <4>1. ~Lifecycle!Queue(job[j], b) BY <1>2, <2>2 DEF Lifecycle!Queue, JobType
            <4>2. ~Lifecycle!Reserve(job[j], b) BY <1>2, <2>2 DEF Lifecycle!Reserve, JobType
            <4>3. ~Lifecycle!GiveBack(job[j], b)
                <5>1. [job[j] EXCEPT !.status = "queued", !.held = FALSE].status = "queued" BY <1>2 DEF JobType
                <5> QED BY <2>2, <5>1 DEF Lifecycle!GiveBack
            <4>4. ~Lifecycle!Finish(job[j], b)
                BY <1>2, <2>2 DEF Lifecycle!Finish, Lifecycle!EndOfWork, JobType
            <4>5. ~Lifecycle!Retry(job[j], b) BY <1>2, <2>2 DEF Lifecycle!Retry, JobType
            <4>6. ~Lifecycle!Cancel(job[j], b) BY <1>2, <2>2 DEF Lifecycle!Cancel, JobType
            <4> QED BY <1>1, <3>1, <3>3, <4>1, <4>2, <4>3, <4>4, <4>5, <4>6 DEF Lifecycle!Step
        <3> QED BY <3>2, <3>3
    <2> QED BY <2>1, <2>2
<1>11. job'[j] = b /\ \A i \in Jobs : i # j => job'[i] = job[i] BY <1>1 DEF JobsAccounted
<1> QED BY <1>1, <1>9, <1>10, <1>11 DEF JobsAccounted

LEMMA EndedRequest ==
    ASSUME Types, NEW r \in Requests, End(r)
    PROVE  request'[r].pc = "done" /\ \A q \in Requests : q # r => request'[q] = request[q]
<1>1. PICK w \in RequestType : request' = [request EXCEPT ![r] = w] /\ w.pc = "done" BY Ending
<1> QED BY <1>1, Requests1

(* Every step keeps the jobs accounted for, and a request that ends past its *)
(* start leaves a job that does not run.                                     *)
SettlesJobs ==
    \A r \in Requests :
       request[r].pc \notin {"idle", "start", "done"} /\ request'[r].pc = "done"
         => job'[JobOf(r)].status # "running"

LEMMA MovesTo ==
    ASSUME IInv, JobsAccounted, NEW r \in Requests, NEW c \in {"read", "failing"}, Goto(r, c), Aims(request[r])
    PROVE  /\ request'[r].pc # "done"
           /\ \A q \in Requests : q # r => request'[q] = request[q]
           /\ \A q \in Requests : Settles(request'[q]) => request'[q].job \in Jobs
<1>1. PICK w \in RequestType : request' = [request EXCEPT ![r] = w] /\ w.pc = c /\ w.job = request[r].job
    <2>1. c \in Steps BY DEF Steps
    <2> QED BY <2>1, Going DEF IInv
<1>2. request'[r] = w /\ \A q \in Requests : q # r => request'[q] = request[q]
    BY <1>1, Requests1 DEF IInv
<1> QED BY <1>1, <1>2 DEF JobsAccounted, Settles

LEMMA JobsHold ==
    ASSUME IInv, JobsAccounted, [Next]_vars
    PROVE  JobsAccounted' /\ SettlesJobs
<1>1. ASSUME NEW r \in Requests,
             \/ ContentRefused(r) \/ OpenResult(r) \/ BeginExecution(r) \/ Parse(r) \/ PersistResult(r)
             \/ RefuseDifference(r) \/ FailExecution(r) \/ FailToPersist(r) \/ Crash(r)
      PROVE  JobsAccounted' /\ SettlesJobs
    <2>1. /\ job' = job
          /\ request'[r].job = request[r].job
          /\ request'[r].pc # "done"
          /\ Aims(request[r]) \/ request'[r].pc = "crashed"
          /\ \A q \in Requests : q # r => request'[q] = request[q]
        BY <1>1, BetweenStep
    <2>2. \A q \in Requests : Settles(request'[q]) => request'[q].job \in Jobs
        BY <2>1 DEF JobsAccounted, Settles, Aims
    <2> QED BY <2>1, <2>2 DEF JobsAccounted, SettlesJobs
<1>2. ASSUME NEW r \in Requests, NEW f \in Files, NEW j \in Jobs, NEW force \in BOOLEAN, Resolve(r, f, j, force)
      PROVE  JobsAccounted' /\ SettlesJobs
    <2>1. PICK c \in {"start", "read"} :
            request' = [request EXCEPT ![r] = [Idle EXCEPT !.pc = c, !.file = f, !.job = j, !.force = force]]
        BY <1>2 DEF Resolve
    <2> DEFINE w == [Idle EXCEPT !.pc = c, !.file = f, !.job = j, !.force = force]
    <2>2. w.pc = c /\ w.job = j BY IdleType DEF RequestType
    <2>3. request'[r] = w /\ \A q \in Requests : q # r => request'[q] = request[q]
        BY <2>1 DEF IInv, Types
    <2> HIDE DEF w
    <2>4. job' = job BY <1>2 DEF Resolve
    <2>5. \A q \in Requests : Settles(request'[q]) => request'[q].job \in Jobs
        BY <2>2, <2>3 DEF JobsAccounted
    <2> QED BY <2>2, <2>3, <2>4, <2>5 DEF JobsAccounted, SettlesJobs
<1>3. ASSUME NEW r \in Requests, StartJob(r)
      PROVE  JobsAccounted' /\ SettlesJobs
    <2>1. request[r].pc = "start" /\ Aims(request[r]) BY <1>3 DEF StartJob, At, Aims
    <2>2. CASE End(r) /\ UNCHANGED job
        BY <2>1, <2>2, EndedRequest DEF IInv, JobsAccounted, SettlesJobs, Settles, Aims
    <2>3. CASE ~(End(r) /\ UNCHANGED job)
        <3>1. PICK j : j = request[r].job OBVIOUS
        <3>2. j \in Jobs BY <2>1, <3>1 DEF JobsAccounted, Settles
        <3>3. /\ job' = [job EXCEPT ![j].status = "running", ![j].attempts = Append(@, "running")]
              /\ Goto(r, "read")
            BY <1>3, <2>3, <3>1 DEF StartJob, JobOf
        <3>4. job' \in [Jobs -> JobType] /\ \A i \in Jobs : Runs(job'[i])
            BY <3>2, <3>3, StartedJob
        <3> QED BY <2>1, <3>3, <3>4, MovesTo DEF JobsAccounted, SettlesJobs
    <2> QED BY <2>2, <2>3
<1>4. ASSUME NEW r \in Requests, CompleteJob(r) \/ SettleJob(r)
      PROVE  JobsAccounted' /\ SettlesJobs
    <2>1. PICK j : j = request[r].job OBVIOUS
    <2>2. j \in Jobs
        BY <1>4, <2>1 DEF CompleteJob, SettleJob, At, JobsAccounted, Settles, Aims
    <2>3. CASE End(r) /\ \E s \in {"succeeded", "failed"}, o \in {"success", "failed"} : EndJob(j, s, o)
        <3>1. PICK s \in {"succeeded", "failed"}, o \in {"success", "failed"} : EndJob(j, s, o) BY <2>3
        <3>2. job' \in [Jobs -> JobType] /\ job'[j].status = s /\ \A i \in Jobs : Runs(job'[i])
            BY <2>2, <3>1, EndedJob
        <3>3. request'[r].pc = "done" /\ \A q \in Requests : q # r => request'[q] = request[q]
            BY <2>3, EndedRequest DEF IInv
        <3>4. \A q \in Requests : Settles(request'[q]) => request'[q].job \in Jobs
            BY <3>3 DEF JobsAccounted, Settles, Aims
        <3> QED BY <2>1, <3>2, <3>3, <3>4 DEF JobsAccounted, SettlesJobs, JobOf
    <2>4. CASE Goto(r, "failing") /\ UNCHANGED job /\ CompleteJob(r)
        BY <2>4, MovesTo DEF CompleteJob, At, Aims, JobsAccounted, SettlesJobs
    <2>5. CASE SettleJob(r) /\ UNCHANGED job /\ ~(job[j].status = "running" /\ RunningAttempts(j) # {})
        <3>1. job[j].status # "running"
            <4>1. SUFFICES ASSUME job[j].status = "running" PROVE FALSE OBVIOUS
            <4>2. Runs(job[j]) /\ job[j].attempts \in Seq({"running", "success", "failed"})
                BY <2>2 DEF JobsAccounted, JobType
            <4>3. Len(job[j].attempts) \in RunningAttempts(j)
                BY <4>1, <4>2 DEF Runs, RunningAttempts
            <4> QED BY <2>5, <4>1, <4>3
        <3>2. request'[r].pc = "done" /\ \A q \in Requests : q # r => request'[q] = request[q]
            BY <2>5, EndedRequest DEF IInv, SettleJob
        <3>3. \A q \in Requests : Settles(request'[q]) => request'[q].job \in Jobs
            BY <3>2 DEF JobsAccounted, Settles, Aims
        <3> QED BY <2>1, <2>5, <3>1, <3>2, <3>3 DEF JobsAccounted, SettlesJobs, JobOf
    <2> QED BY <1>4, <2>1, <2>3, <2>4, <2>5 DEF CompleteJob, SettleJob, JobOf
<1>5. ASSUME NEW j \in Jobs, JobMoves(j)
      PROVE  JobsAccounted' /\ SettlesJobs
    <2>1. request' = request BY <1>5 DEF JobMoves
    <2> QED BY <1>5, <2>1, MovedJob DEF JobsAccounted, SettlesJobs, Settles, Aims
<1>6. CASE (\E f \in Files : InvalidateResult(f)) \/ UNCHANGED vars
    <2>1. request' = request /\ job' = job BY <1>6 DEF InvalidateResult, vars
    <2> QED BY <2>1 DEF JobsAccounted, SettlesJobs, Settles, Aims
<1> QED BY <1>1, <1>2, <1>3, <1>4, <1>5, <1>6 DEF Next

LEMMA AllInitially == Init => Accounted /\ JobsAccounted
<1> SUFFICES ASSUME Init PROVE Accounted /\ JobsAccounted
    OBVIOUS
<1>1. \A r \in Requests : request[r].pc = "idle" /\ request[r].execution = 0
    BY IdleType DEF Init
<1>2. \A f \in Files : result[f].status = "absent" /\ executions[f] = << >> /\ RunningExecutions(f) = {}
    <2>1. \A f \in Files : result[f].status = "absent" /\ executions[f] = << >> BY DEF Init, Row
    <2>2. DOMAIN << >> = {} OBVIOUS
    <2> QED BY <2>1, <2>2 DEF RunningExecutions
<1>3. << >> \in Seq(Contents) /\ << >> \in Seq({"running", "success", "failed"}) OBVIOUS
<1>4. manifests \in [Files -> Seq(Contents)] BY <1>3 DEF Init
<1>5. Accounted
    BY <1>1, <1>2, <1>4 DEF Accounted, RequestAccounted, FileAccounted, Prepared, Works, Holds, Begun
<1>6. \A j \in Jobs : job[j] \in JobType /\ Runs(job[j])
    BY <1>3 DEF Init, JobType, Runs
<1>7. JobsAccounted
    BY <1>1, <1>6 DEF Init, JobsAccounted, Settles, Aims
<1> QED BY <1>5, <1>7

(* However requests, nodes and administrators interleave, an execution left  *)
(* running, which refuses every later parse of the file, is one request's    *)
(* own, a result shown as parsing is being parsed, and one shown as pending  *)
(* never has been (begin_, complete_ and fail_parse_execution).              *)
THEOREM ParsingIsAccounted == Spec => []ExecutionsConsistent
<1>1. IInv /\ Accounted /\ JobsAccounted => ExecutionsConsistent
    <2> SUFFICES ASSUME IInv, Accounted, JobsAccounted PROVE ExecutionsConsistent
        OBVIOUS
    <2>1. \A j \in Jobs : job[j] \in JobType BY DEF JobsAccounted
    <2>2. \A r \in Requests : request[r].pc \in Steps /\ request[r].execution \in Nat
        BY DEF IInv, Types, RequestType
    <2>3. TypeOK BY <2>1, <2>2 DEF IInv, Types, Accounted, RowType, TypeOK, JobType, Steps
    <2>4. RunningExecutionsAreWorked
        BY DEF Accounted, FileAccounted, RunningExecutionsAreWorked, Owner, AtWork, Works, FileOf
    <2>5. StatusFollowsExecutions BY DEF Accounted, FileAccounted, StatusFollowsExecutions, Begun
    <2> QED BY <2>3, <2>4, <2>5 DEF ExecutionsConsistent
<1>2. IInv /\ JobsAccounted /\ [Next]_vars => JobsAccounted' BY JobsHold
<1> QED BY InitHolds, AllInitially, StepHolds, AccountsHold, <1>1, <1>2, PTL DEF Spec

(* A result that says it succeeded, and one that did before it was           *)
(* invalidated, has a content hash, a manifest and an execution that         *)
(* succeeded: complete_parse_execution and the artifacts are one             *)
(* transaction, and no later request takes any of them back.                 *)
THEOREM ResultsHaveOutput == Spec => []SuccessHasOutput
<1>1. Accounted => SuccessHasOutput
    BY DEF Accounted, FileAccounted, HasOutput, SuccessHasOutput
<1> QED BY InitHolds, AllInitially, StepHolds, AccountsHold, <1>1, PTL DEF Spec

(* A request that has got past the start of its job and ends, by success or  *)
(* by the handler of every exception, leaves the job not running, also when  *)
(* another request or a node has moved it meanwhile: complete_job ends the   *)
(* latest running attempt, and a job that runs always has one.               *)
THEOREM RequestsSettleTheirJobs == Spec => RequestsSettleJobs
<1>1. IInv /\ JobsAccounted /\ [Next]_vars => JobsAccounted' BY JobsHold
<1>2. IInv /\ JobsAccounted /\ [Next]_vars => [SettlesJobs]_vars BY JobsHold
<1>3. [SettlesJobs]_vars <=> [\A r \in Requests :
         request[r].pc \notin {"idle", "start", "done"} /\ request'[r].pc = "done"
           => job'[JobOf(r)].status # "running"]_vars
    BY DEF SettlesJobs
<1> QED BY InitHolds, AllInitially, StepHolds, <1>1, <1>2, <1>3, PTL DEF Spec, RequestsSettleJobs
=============================================================================
