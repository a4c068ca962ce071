-------------------------- MODULE MCKnowledgeGraph --------------------------
(* The knowledge graph a part at a time: the category tree, evidence         *)
(* between claims and sources, relationships between concepts, entities,     *)
(* tags, articles, claims in conflict, and what hangs on a source.  Two      *)
(* clients overlap at most twice.                                            *)
EXTENDS KnowledgeGraph, TLC

CONSTANTS k1, k2, g1, g2, g3, m1, m2, a, b

MCConcepts == {k1, k2}
MCCategories == {g1, g2, g3}
MCClaims == {m1, m2}
MCClients == {a, b}
MCSlices == {MCCategories \cup {k1},
             Evidence \cup Sources \cup Documents \cup {k1, m1},
             MCConcepts \cup Relationships, MCConcepts \cup FinancialEntities,
             MCConcepts \cup AssetClasses \cup Instruments \cup CaseStudies,
             Tags \cup Taggings \cup {k1},
             Articles \cup Sections \cup Questions \cup Aliases \cup {k1},
             MCClaims \cup Conflicts \cup {k1},
             Sources \cup SourceParts \cup Assessments \cup Reviews}
MCSymmetry == Permutations(MCClients) \cup Permutations(MCCategories)
=============================================================================
