------------------------- MODULE MCDocumentRegistry -------------------------
(* One document of one source with identifiers of three spellings, two of    *)
(* them alike, and two checksums; two clients overlap at most once, each     *)
(* pair of operations that meet a part of its own.                           *)
EXTENDS DocumentRegistry, TLC

CONSTANTS sum1, sum2, c1, c2

MCChecksums == {sum1, sum2}
MCClients == {c1, c2}
MCFold(spelling) == IF spelling = "b" THEN "b" ELSE "a"
MCSlices == {{"register", "update", "archive"}, {"version", "current", "file"}, {"identifier"}}
MCSymmetry == Permutations(MCClients) \cup Permutations(MCChecksums)
=============================================================================
