----------------------------- MODULE ExecutionLog -----------------------------
(* What the parse and the chunk pipeline promise of the executions of one     *)
(* result or chunk set: they are numbered in order, no two run at a time, and *)
(* one that has finished never changes.  ParsePipeline and ChunkPipeline      *)
(* implement it.                                                              *)
EXTENDS Naturals, Sequences

CONSTANT Outputs     \* parse results or chunk sets

VARIABLE executions  \* of each output, the status of its executions by attempt number

Running(o) == {n \in DOMAIN executions[o] : executions[o][n] = "running"}

Begin(o) ==
    /\ Running(o) = {}
    /\ executions' = [executions EXCEPT ![o] = Append(@, "running")]

Finish(o) ==
    \E n \in Running(o), status \in {"succeeded", "failed"} :
        executions' = [executions EXCEPT ![o][n] = status]

Init == executions = [o \in Outputs |-> << >>]
Next == \E o \in Outputs : Begin(o) \/ Finish(o)
Spec == Init /\ [][Next]_executions
=============================================================================
