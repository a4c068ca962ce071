--------------------------- MODULE MCParsePipeline ---------------------------
(* One file and one job with up to two attempts, under two requests of either *)
(* kind, and a parser that need not be deterministic.                        *)
EXTENDS ParsePipeline, TLC

CONSTANTS r1, r2, c1, c2

MCTwoRequests == {r1, r2}
MCContents == {c1, c2}
MCSymmetry == Permutations(MCTwoRequests) \cup Permutations(MCContents)
=============================================================================
