--------------------------- MODULE KnowledgeGraph ---------------------------
(***************************************************************************)
(* The knowledge graph of nexora_knowledge: categories, concepts, claims,  *)
(* evidence, sources, relationships, tags, the specialised entities of a   *)
(* concept, articles about it, and the records of governance               *)
(* (services/categories.py, concepts.py, claims.py, evidence.py,           *)
(* relationships.py, tags.py, sources.py, source_service.py,               *)
(* financial_entities.py, knowledge_articles.py, governance.py over the    *)
(* tables of models/).  A service call checks what it was given in queries *)
(* of its own and writes at its commit; calls of several clients overlap.  *)
(* What a deletion takes with it is decided twice: by the relationships of *)
(* the mapped classes, whose children the session loads and deletes, and   *)
(* by the ON DELETE rules of the database, which SQLite, the default, does *)
(* not apply (database.py sets no foreign_keys pragma).                    *)
(***************************************************************************)
EXTENDS Naturals

CONSTANTS Categories, Concepts, Claims, Evidence, Sources,
          Relationships,        \* rows of concept_relationships
          RelationshipTypes,    \* the texts a relationship_type may be, no rows
          Tags, Taggings,       \* rows of tags and of concept_tags
          FinancialEntities,    \* indicators, strategies, patterns, event types
          AssetClasses, Instruments, CaseStudies,   \* entities that refer to each other
          Articles, Sections, Questions,   \* knowledge articles, their sections and FAQs
          Aliases,              \* other names of concepts
          SourceParts,          \* aliases and versions of sources
          Conflicts,            \* pairs of claims that contradict each other
          Assessments,          \* scores given to sources
          Reviews,              \* reviews and revisions of any row, kept by its type and id
          Documents,            \* registered documents, which hold their source
          Clients,              \* callers of the services
          Slices,               \* bound: the sets of rows a behaviour may touch
          MaxOverlaps           \* bound: calls begun while another is in progress

VARIABLES slice, enforced,   \* the database checks foreign keys (MySQL) or not (SQLite)
          alive,      \* the rows that exist
          refs,       \* <<row, field, row it refers to>>; a null field has none
          call,       \* what each client is doing
          retired,    \* ids a database that never reuses one has spent
          overlaps,
          raced,      \* history: a call wrote after what it had checked changed
          crossed     \* history: two calls changed the category tree at once

graphVars == <<slice, enforced, alive, refs, call, retired, overlaps, raced, crossed>>

Rows == UNION {Categories, Concepts, Claims, Evidence, Sources,
               Relationships, RelationshipTypes, Tags, Taggings, FinancialEntities,
               AssetClasses, Instruments, CaseStudies, Documents,
               Articles, Sections, Questions, Aliases, SourceParts,
               Conflicts, Assessments, Reviews}

(* No row is in two tables.  The proofs need to tell four groups apart:    *)
(* what owns other rows, claims, which are owned and own, their parts, and *)
(* categories.                                                             *)
Owners == UNION {Concepts, Tags, Sources, Articles}
Parts == UNION {Relationships, Taggings, FinancialEntities, AssetClasses, Instruments, Evidence,
                SourceParts, Aliases, Sections, Questions, Assessments, Conflicts}
ASSUME TablesAssumption ==
  /\ Owners \cap Claims = {} /\ Owners \cap Parts = {} /\ Claims \cap Parts = {}
  /\ Categories \cap (Claims \cup Parts) = {}
ASSUME OverlapsAssumption == MaxOverlaps \in Nat

(* A foreign key: the field, the table it is in, the table it points to,   *)
(* whether it may not be null, and what the session does to the row when   *)
(* the row it points to is deleted: "delete" it, set the field to null     *)
(* ("nullify"), or "leave" it to the database (passive_deletes).  A        *)
(* "loose" reference is a type and an id: to the database it is no key.    *)
Key(field, of, to, required, session) ==
  [field |-> field, of |-> of, to |-> to, required |-> required, session |-> session]

ConceptReferences ==
  {Key("category", Concepts, Categories, FALSE, "nullify"),
   Key("concept", Claims, Concepts, TRUE, "delete"),
   Key("source_concept", Relationships, Concepts, TRUE, "delete"),
   Key("target_concept", Relationships, Concepts, TRUE, "delete"),
   Key("relationship_type", Relationships, RelationshipTypes, TRUE, "loose"),
   Key("tagged", Taggings, Concepts, TRUE, "delete"),
   Key("names", Aliases, Concepts, TRUE, "delete")}

CategoryReferences == {Key("parent", Categories, Categories, FALSE, "nullify")}
TagReferences == {Key("tag", Taggings, Tags, TRUE, "delete")}

EntityReferences ==
  {Key("specialises", UNION {FinancialEntities, AssetClasses, Instruments}, Concepts, TRUE, "leave"),
   Key("belongs_to", Instruments, AssetClasses, TRUE, "nullify"),
   Key("illustrates", CaseStudies, Concepts, FALSE, "leave"),
   Key("instrument", CaseStudies, Instruments, FALSE, "nullify")}

EvidenceReferences ==
  {Key("claim", Evidence, Claims, TRUE, "delete"),
   Key("source", Evidence, Sources, FALSE, "nullify")}

SourceReferences ==
  {Key("published", Documents, Sources, TRUE, "nullify"),
   Key("describes", SourceParts, Sources, TRUE, "leave"),
   Key("assesses", Assessments, Sources, TRUE, "delete")}

ArticleReferences ==
  {Key("about", Articles, Concepts, FALSE, "leave"),
   Key("article", Sections, Articles, TRUE, "delete"),
   Key("answers_in", Questions, Articles, TRUE, "delete")}

ReviewReferences ==
  {Key("claim_a", Conflicts, Claims, TRUE, "delete"),
   Key("claim_b", Conflicts, Claims, TRUE, "delete"),
   Key("entity", Reviews, UNION {Concepts, Claims, Sources, Articles, FinancialEntities, Instruments}, TRUE, "loose")}

Keys == UNION {ConceptReferences, CategoryReferences, TagReferences, EntityReferences,
               EvidenceReferences, SourceReferences, ArticleReferences, ReviewReferences}
Fields == {key.field : key \in Keys}
Reference == [f \in Fields |-> CHOOSE key \in Keys : key.field = f]
FieldsOf(x) == {f \in Fields : x \in Reference[f].of}
Possible == [x \in Rows |-> {t \in {x} \X FieldsOf(x) \X Rows : t[3] \in Reference[t[2]].to}]

Idle == [op |-> "idle"]
Busy(c) == call[c] # Idle

(* What a client may ask for: at most one target for a field, and one for  *)
(* every field that is not nullable (the request schemas).                 *)
Complete(x, new) ==
  /\ \A t, u \in new : t[2] = u[2] => t = u
  /\ \A f \in FieldsOf(x) : Reference[f].required => \E t \in new : t[2] = f
Choices == [x \in Rows |-> {new \in SUBSET Possible[x] : Complete(x, new)}]

(* The unique constraints of the tables: a relationship's endpoints and    *)
(* type, a concept's tags and its one entity of each kind, and the two     *)
(* claims of a conflict, which are stored in the order of their ids.       *)
(* Names, slugs and positions are not modelled.                            *)
Distinct(x) == x \in UNION {Relationships, Taggings, FinancialEntities, AssetClasses, Instruments, Conflicts}
Signature(x, rs) == {<<IF x \in Conflicts THEN "claim" ELSE t[2], t[3]>> :
                       t \in {u \in rs : u[1] = x /\ u[2] # "belongs_to"}}
Duplicate(x, rs) ==
  /\ Distinct(x)
  /\ \E y \in alive \ {x} : y # x /\ FieldsOf(y) = FieldsOf(x)
                            /\ Signature(y, rs) = Signature(x, rs)

(* "Source and target concepts must be different" and "A claim cannot      *)
(* conflict with itself", by the services and by check constraints.        *)
SelfRelated(x, rs) ==
  \/ \E k \in Concepts : {<<x, "source_concept", k>>, <<x, "target_concept", k>>} \subseteq rs
  \/ \E k \in Claims : {<<x, "claim_a", k>>, <<x, "claim_b", k>>} \subseteq rs

(* The parents above a category as _validate_parent walks them, until      *)
(* there is none, the row is gone or one was visited before: the fewest    *)
(* categories that are p and the parents of their own.                     *)
ParentOf(S) == {t[3] : t \in {u \in refs : u[1] \in S /\ u[2] = "parent" /\ u[3] \in alive}}
Above(p) == {q \in Categories :
               \A S \in SUBSET Categories : p \in S /\ ParentOf(S) \subseteq S => q \in S}
InCycle(p) == \E q \in Above(p) : q \in UNION {Above(u) : u \in ParentOf({q})}

\* bug: only the category itself is refused as its parent
ParentIsNotSelf(x, p) == p # x
ParentAllowed(x, p) == x \notin Above(p) /\ ~InCycle(p)

Allowed(x, new) ==
  /\ \A t \in new : t[3] \in alive \/ t[2] = "relationship_type"
  /\ \A t \in new : t[2] = "parent" => ParentAllowed(x, t[3])
  /\ ~SelfRelated(x, new)
  /\ ~Duplicate(x, {t \in refs : t[1] # x} \cup new)

Begin(c, what) ==
  /\ ~Busy(c)
  /\ LET others == \E d \in Clients \ {c} : Busy(d)
     IN /\ others => overlaps < MaxOverlaps
        /\ overlaps' = IF others THEN overlaps + 1 ELSE overlaps
  /\ call' = [call EXCEPT ![c] = what]
  /\ UNCHANGED <<slice, enforced, alive, refs, retired, raced, crossed>>

(* The create calls, attach_tag, add_alias and add_version: the checks.    *)
(* The id is the next the database gives out; SQLite reuses those of       *)
(* deleted rows.                                                           *)
BeginCreate(c, table) ==
  \E x \in (table \cap slice) \ (alive \cup retired) : \E new \in Choices[x] :
    /\ \A d \in Clients : Busy(d) => x \notin call[d].rows
    /\ Allowed(x, new)
    /\ Begin(c, [op |-> "create", rows |-> {x}, refs |-> new, over |-> {},
                 stale |-> FALSE, moved |-> FALSE])

(* The update calls: the row is loaded, the candidate values are checked,  *)
(* and only the fields that differ from the loaded row will be written.    *)
BeginUpdate(c, table) ==
  \E x \in alive \cap table : \E new \in Choices[x] :
    LET now == {t \in refs : t[1] = x}
    IN /\ new # now
       /\ Allowed(x, new)
       /\ Begin(c, [op |-> "update", rows |-> {x}, refs |-> new \ now,
                    over |-> {t[2] : t \in (new \ now) \cup (now \ new)},
                    stale |-> FALSE, moved |-> FALSE])

(* Children the session loads and deletes with the rows S, and the         *)
(* children of those: a concept's claims and their evidence.               *)
WithChildren(S) == S \cup {t[1] : t \in {u \in refs :
                                     u[3] \in S /\ Reference[u[2]].session = "delete"}}
\* bug: the evidence of a deleted concept's claims is not deleted with them
DependentsOnce(S) == WithChildren(S)
Dependents(S) == WithChildren(WithChildren(S))

(* The delete calls and remove_tag: the row and what goes with it are      *)
(* loaded; the fields to set to null too.                                  *)
BeginDelete(c, table) ==
  \E x \in alive \cap table :
    LET gone == Dependents({x})
    IN Begin(c, [op |-> "delete", rows |-> gone, over |-> {}, stale |-> FALSE, moved |-> FALSE,
                 refs |-> {t \in refs : /\ t[3] \in gone /\ t[1] \notin gone
                                        /\ Reference[t[2]].session = "nullify"}])

Loose(t) == Reference[t[2]].session = "loose"
Restricted(t) == t[2] \in {"published", "belongs_to"}

(* The ON DELETE rules of the tables: RESTRICT for a document's source and *)
(* an instrument's asset class, otherwise CASCADE where the field is       *)
(* required and SET NULL where it is not.                                  *)
WithReferring(S) == S \cup {t[1] : t \in {u \in refs :
                               u[3] \in S /\ Reference[u[2]].required /\ ~Loose(u) /\ ~Restricted(u)}}
Cascade(S) == WithReferring(WithReferring(S))

(* A call that puts a category below another one, or deletes categories.   *)
ChangesTheTree(w) ==
  \/ \E t \in w.refs : t[2] = "parent"
  \/ w.op = "delete" /\ w.rows \cap Categories # {}

(* A call ends; those still in progress have seen an older database, and   *)
(* perhaps an older category tree.                                         *)
Commit(c, rows, rs) ==
  /\ alive' = rows
  /\ refs' = rs
  /\ retired' = IF enforced /\ \E d \in Clients \ {c} : Busy(d)
                THEN retired \cup (alive \ rows) ELSE {}
  /\ raced' = (raced \/ call[c].stale)
  /\ crossed' = (crossed \/ (call[c].moved /\ ChangesTheTree(call[c])))
  /\ call' = [d \in Clients |-> IF d = c \/ ~Busy(d) THEN Idle
                                ELSE [call[d] EXCEPT !.stale = TRUE,
                                                     !.moved = @ \/ ChangesTheTree(call[c])]]
  /\ UNCHANGED <<slice, enforced, overlaps>>

Target(w) == {t \in refs : ~(t[1] \in w.rows /\ t[2] \in w.over)} \cup w.refs

(* The constraints the database applies to an INSERT or UPDATE.            *)
Accepted(w) ==
  LET x == CHOOSE y \in w.rows : TRUE
  IN /\ w.op = "update" => x \in alive          \* StaleDataError otherwise
     /\ ~SelfRelated(x, Target(w))
     /\ ~Duplicate(x, Target(w))
     /\ enforced => \A t \in w.refs : t[3] \in alive \/ Loose(t)

CommitWrite(c) ==
  /\ Busy(c) /\ call[c].op \in {"create", "update"}
  /\ Accepted(call[c])
  /\ Commit(c, alive \cup call[c].rows, Target(call[c]))

(* A field that may not be null refuses the null the session writes, and a *)
(* row that is gone cannot be updated: the deletion fails as a whole.      *)
Deletable(w) ==
  /\ \A t \in w.refs : t[1] \in alive /\ ~Reference[t[2]].required
  /\ enforced => \A t \in refs : Restricted(t) => t[3] \notin Cascade(w.rows)

CommitDelete(c) ==
  /\ Busy(c) /\ call[c].op = "delete"
  /\ Deletable(call[c])
  /\ LET w == call[c]
         gone == IF enforced THEN Cascade(w.rows) ELSE w.rows
     IN Commit(c, alive \ gone,
               {t \in refs : /\ t[1] \notin gone
                             /\ ~\E u \in w.refs : u[1] = t[1] /\ u[2] = t[2]
                             /\ ~(enforced /\ t[3] \in gone /\ ~Loose(t))})

(* The exception handler rolls back, or the request ends with an error.    *)
Fail(c) ==
  /\ Busy(c)
  /\ IF call[c].op = "delete" THEN ~Deletable(call[c]) ELSE ~Accepted(call[c])
  /\ call' = [call EXCEPT ![c] = Idle]
  /\ retired' = IF \E d \in Clients \ {c} : Busy(d) THEN retired ELSE {}
  /\ UNCHANGED <<slice, enforced, alive, refs, overlaps, raced, crossed>>

GraphInit ==
  /\ slice \in Slices
  /\ enforced \in BOOLEAN
  /\ alive = {}
  /\ refs = {}
  /\ call = [c \in Clients |-> Idle]
  /\ retired = {}
  /\ overlaps = 0
  /\ raced = FALSE
  /\ crossed = FALSE

Edit(c, table) == BeginCreate(c, table) \/ BeginUpdate(c, table) \/ BeginDelete(c, table)

(* The calls of each service.  A concept's tag is attached or removed; what *)
(* is added to a source stays, and no call deletes a document.             *)
CategoryCalls(c) == Edit(c, Categories)
ConceptCalls(c) == Edit(c, Concepts) \/ BeginCreate(c, Taggings) \/ BeginDelete(c, Taggings)
ClaimCalls(c) == Edit(c, Claims)
EvidenceCalls(c) == Edit(c, Evidence)
SourceCalls(c) == Edit(c, Sources)
SourcePartCalls(c) == BeginCreate(c, SourceParts)
RelationshipCalls(c) == Edit(c, Relationships)
TagCalls(c) == Edit(c, Tags)
EntityCalls(c) == Edit(c, UNION {FinancialEntities, AssetClasses, Instruments, CaseStudies})
DocumentCalls(c) == BeginCreate(c, Documents) \/ BeginUpdate(c, Documents)
ArticleCalls(c) == Edit(c, Articles)
SectionCalls(c) == Edit(c, Sections)
QuestionCalls(c) == Edit(c, Questions)
AliasCalls(c) == Edit(c, Aliases)
ReviewCalls(c) == Edit(c, Reviews)
ConflictCalls(c) == Edit(c, Conflicts)
AssessmentCalls(c) == Edit(c, Assessments)

GraphNext ==
  \E c \in Clients :
    \/ CategoryCalls(c) \/ ConceptCalls(c) \/ ClaimCalls(c) \/ EvidenceCalls(c)
    \/ SourceCalls(c) \/ SourcePartCalls(c) \/ RelationshipCalls(c)
    \/ TagCalls(c) \/ EntityCalls(c)
    \/ DocumentCalls(c) \/ ArticleCalls(c) \/ SectionCalls(c) \/ QuestionCalls(c)
    \/ AliasCalls(c) \/ ReviewCalls(c) \/ ConflictCalls(c) \/ AssessmentCalls(c)
    \/ CommitWrite(c) \/ CommitDelete(c) \/ Fail(c)

GraphSpec == GraphInit /\ [][GraphNext]_graphVars

-----------------------------------------------------------------------------
(* Only rows that exist refer to others, with each field to at most one    *)
(* row, of the right table, and with every required field to exactly one.  *)
GraphTypeOK ==
  /\ alive \subseteq slice
  /\ refs \subseteq UNION {Possible[x] : x \in alive}
  /\ \A x \in alive : Complete(x, {t \in refs : t[1] = x})
  /\ overlaps \in 0..MaxOverlaps
  /\ \A c \in Clients : Busy(c) => call[c].op \in {"create", "update", "delete"}

(* docs/PACK_2A_SPRINT_2.md: the session and the database both see to it   *)
(* that no row refers to a deleted one.  Where the database checks foreign *)
(* keys no interleaving of calls breaks it.  Where it does not, only the   *)
(* rows whose deletion the session leaves to the database can dangle,      *)
(* unless a call wrote what it had checked before another's commit.        *)
(* Reviews, which name their subject by type and id, outlive it.           *)
NoReferenceDangles ==
  \A t \in refs :
    \/ t[3] \in alive \/ Loose(t)
    \/ ~enforced /\ (raced \/ Reference[t[2]].session = "leave")

(* "Self-parenting and parent cycles are rejected": a category can be      *)
(* below itself only after two calls that move or delete categories have   *)
(* crossed, each checked before the other wrote.  Whatever other rows      *)
(* change between the walk and the write, and whatever deleted id a new    *)
(* category takes over, closes no cycle.                                   *)
CategoriesAreATree ==
  crossed \/ ~\E p \in Categories \cap alive : InCycle(p)

(* The rows have their types, and none that the session answers for refers  *)
(* to a deleted one.                                                       *)
GraphConsistent == GraphTypeOK /\ NoReferenceDangles
=============================================================================
