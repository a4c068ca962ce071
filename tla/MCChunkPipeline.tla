-------------------------- MODULE MCChunkPipeline ---------------------------
(* One parse result, two configurations and four requests: a set may be      *)
(* requested twice, fail and be tried again, and be replaced.                *)
EXTENDS ChunkPipeline, TLC

CONSTANTS s1, s2, r1, r2, r3, r4

MCConfigurations == {s1, s2}
MCRequests == {r1, r2, r3, r4}
MCSymmetry == Permutations(MCConfigurations) \cup Permutations(MCRequests)
=============================================================================
