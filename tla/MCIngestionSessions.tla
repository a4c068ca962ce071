------------------------- MODULE MCIngestionSessions -------------------------
(* Two sessions over two jobs, a clock of two ticks, two reservations per    *)
(* job and one retry.  On a database with row locks the jobs are queued; on  *)
(* one without, one job was cancelled, the other is yet to be created, and   *)
(* the clock ticks once.                                                     *)
EXTENDS IngestionSessions, TLC

CONSTANTS j1, j2, s1, s2, d1, d2

MCJobs == {j1, j2}
MCDocuments == {d1, d2}
MCSessions == {s1, s2}
MCCreation == {[j \in MCJobs |-> IF j = i THEN "absent" ELSE "cancelled"] : i \in MCJobs}
MCSettings == [rowLocks : {TRUE}, now : {0}, status : {[j \in MCJobs |-> "queued"]}]
              \cup [rowLocks : {FALSE}, now : {1}, status : MCCreation]
MCCreatedFor(locking) == IF locking THEN {} ELSE {d1}
MCSymmetry == Permutations(MCJobs) \cup Permutations(MCSessions)
=============================================================================
