---------------------- MODULE MCIngestionOrchestration ----------------------
(* A small instance of IngestionOrchestration: two jobs over two documents   *)
(* and one node, with a clock of two ticks and up to one retry.              *)
EXTENDS IngestionOrchestration, TLC

CONSTANTS j1, j2

MCJobs == {j1, j2}
MCRetryLimits == {0, 1}
MCTTLs == {1, 2}
JobSymmetry == Permutations(MCJobs)
=============================================================================
