---------------------------- MODULE MCCurriculum ----------------------------
(* One entity of each level but two modules and three lessons, one path,     *)
(* and two positions: prerequisites of three lessons can close a cycle of    *)
(* any length up to three.                                                   *)
EXTENDS Curriculum, TLC

CONSTANTS m1, m2, l1, l2, l3

MCModules == {m1, m2}
MCLessons == {l1, l2, l3}
MCSymmetry == Permutations(MCModules) \cup Permutations(MCLessons)
=============================================================================
