---------------------------- MODULE JobLifecycle ----------------------------
(* What the ingestion orchestrator promises about one job, whatever runs     *)
(* around it: the statuses it may go through, and that its attempts, its     *)
(* reservation and the retries spent on it move with the status in the same  *)
(* step.  IngestionOrchestration (one step per operation) and                *)
(* IngestionSessions (one step per database access) implement it.            *)
EXTENDS Naturals, Sequences

CONSTANT Jobs

VARIABLE job  \* per job: status, attempts, held (is it reserved?), retries

EndOfWork == [succeeded |-> "success", failed |-> "failed", cancelled |-> "failed"]

Unstarted == {"new", "queued", "reserved", "failed", "retrying"}

(* Queueing a reserved job keeps the reservation, as queue_job does.         *)
Queue(a, b) == a.status \in {"new", "reserved"} /\ b = [a EXCEPT !.status = "queued"]

Reserve(a, b) ==
    /\ a.status \in {"queued", "retrying"}
    /\ ~a.held
    /\ b = [a EXCEPT !.status = "reserved", !.held = TRUE]

GiveBack(a, b) ==
    /\ a.status \in {"queued", "reserved"}
    /\ a.held
    /\ b = [a EXCEPT !.status = "queued", !.held = FALSE]

Start(a, b) ==
    /\ a.status = "reserved"
    /\ a.held
    /\ b = [a EXCEPT !.status = "running", !.attempts = Append(a.attempts, "running")]

Finish(a, b) ==
    /\ a.status = "running"
    /\ a.held
    /\ \E end \in DOMAIN EndOfWork :
         b = [a EXCEPT !.status = end, !.held = FALSE,
                       !.attempts = [a.attempts EXCEPT ![Len(a.attempts)] = EndOfWork[end]]]

Retry(a, b) ==
    /\ a.status = "failed"
    /\ b = [a EXCEPT !.status = "retrying", !.retries = a.retries + 1]

Cancel(a, b) ==
    /\ a.status \in Unstarted
    /\ b = [a EXCEPT !.status = "cancelled", !.held = FALSE]

Step(a, b) ==
    \/ a.status = "absent" /\ b = [a EXCEPT !.status = "new"]
    \/ Queue(a, b)
    \/ Reserve(a, b)
    \/ GiveBack(a, b)
    \/ Start(a, b)
    \/ Finish(a, b)
    \/ Retry(a, b)
    \/ Cancel(a, b)

Init ==
    job \in [Jobs -> [status : {"absent", "queued", "cancelled"},
                      attempts : {<<>>}, held : {FALSE}, retries : {0}]]

Next == \A j \in Jobs : job'[j] = job[j] \/ Step(job[j], job'[j])

Spec == Init /\ [][Next]_job
=============================================================================
