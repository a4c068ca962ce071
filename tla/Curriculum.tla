------------------------------- MODULE Curriculum -------------------------------
(* The curriculum and its editing (services/curriculum.py): the hierarchy     *)
(* from schools to lessons, the prerequisites between lessons, the paths      *)
(* through them.  The API only reads it; it is edited by the seed and by      *)
(* scripts, one call at a time, and each call is a transaction.  The database *)
(* does not enforce foreign keys (SQLite without its pragma): what a deletion *)
(* takes with it is what the mapped classes cascade to.                       *)
EXTENDS Naturals, FiniteSets

CONSTANTS
    Schools, Degrees, Courses, Modules, Lessons,
    Objectives,
    Paths,        \* curriculum paths
    MaxOrder,     \* bound on display_order
    None

Levels == <<Schools, Degrees, Courses, Modules, Lessons>>
Entities == Schools \cup Degrees \cup Courses \cup Modules \cup Lessons

Absent == "absent"

ASSUME OrderAssumption == MaxOrder \in Nat
ASSUME EntitiesAssumption == None \notin Entities \cup Objectives \cup Paths

(* Each level has a table of its own.                                         *)
ASSUME LevelsAssumption ==
    /\ \A i, j \in 1..5 : i # j => Levels[i] \cap Levels[j] = {}
    /\ Absent \notin Entities \cup {None}

VARIABLES
    parent,      \* of each entity, None for a school and "absent" if it is not there
    objective,   \* the lesson of each LearningObjective
    requires,    \* LessonPrerequisite: pairs of a lesson and one it requires
    path,        \* CurriculumPath: the display_order of its lessons, or None
    search       \* the search for a cycle that is under way

vars == <<parent, objective, requires, path, search>>

NoSearch == [edge |-> None, replaces |-> None, pending |-> {}, visited |-> {}]

Exists(e) == parent[e] # Absent
Present(entities) == {e \in entities : Exists(e)}

Init ==
    /\ parent = [e \in Entities |-> Absent]
    /\ objective = [o \in Objectives |-> Absent]
    /\ requires = {}
    /\ path = [c \in Paths |-> None]
    /\ search = NoSearch

-----------------------------------------------------------------------------
(* _validate_foreign_keys: the parent is there, and of the level above.       *)
Parents(e) ==
    IF e \in Schools THEN {None}
    ELSE UNION {Present(Levels[i]) : i \in {j \in 1..4 : e \in Levels[j + 1]}}

CreateEntity(e, p) ==
    /\ search = NoSearch
    /\ ~Exists(e) /\ p \in Parents(e)
    /\ parent' = [parent EXCEPT ![e] = p]
    /\ UNCHANGED <<objective, requires, path, search>>

UpdateEntity(e, p) ==
    /\ search = NoSearch
    /\ Exists(e) /\ p \in Parents(e)
    /\ parent' = [parent EXCEPT ![e] = p]
    /\ UNCHANGED <<objective, requires, path, search>>

(* The entity itself and its parents, up to its school.                       *)
Up(e) == IF e \in Entities THEN parent[e] ELSE e
Ancestry(e) == {e, Up(e), Up(Up(e)), Up(Up(Up(e))), Up(Up(Up(Up(e))))}

Subtree(e) == {f \in Entities : e \in Ancestry(f)}

Without(lessons, links) == [l \in DOMAIN links \ lessons |-> links[l]]

(* delete_school and its like load everything below before they delete, down  *)
(* to the objectives and links of the lessons, in both directions.            *)
DeleteDependents(e) ==  \* bug: links to a deleted lesson from lessons that require it are kept
    /\ search = NoSearch
    /\ Exists(e)
    /\ LET gone == Subtree(e) IN
         /\ parent' = [f \in Entities |-> IF f \in gone THEN Absent ELSE parent[f]]
         /\ objective' = [o \in Objectives |-> IF objective[o] \in gone THEN Absent ELSE objective[o]]
         /\ requires' = {edge \in requires : edge[1] \notin gone}
         /\ path' = [c \in Paths |-> IF path[c] = None THEN None ELSE Without(gone, path[c])]
    /\ UNCHANGED search
DeleteEntity(e) ==
    /\ search = NoSearch
    /\ Exists(e)
    /\ LET gone == Subtree(e) IN
         /\ parent' = [f \in Entities |-> IF f \in gone THEN Absent ELSE parent[f]]
         /\ objective' = [o \in Objectives |-> IF objective[o] \in gone THEN Absent ELSE objective[o]]
         /\ requires' = {edge \in requires : edge[1] \notin gone /\ edge[2] \notin gone}
         /\ path' = [c \in Paths |-> IF path[c] = None THEN None ELSE Without(gone, path[c])]
    /\ UNCHANGED search

(* The calls for each level, whose parents are of the level above.            *)
CreateSchool == \E e \in Schools : CreateEntity(e, None)
CreateDegree == \E e \in Degrees, p \in Schools : CreateEntity(e, p)
CreateCourse == \E e \in Courses, p \in Degrees : CreateEntity(e, p)
CreateModule == \E e \in Modules, p \in Courses : CreateEntity(e, p)
CreateLesson == \E e \in Lessons, p \in Modules : CreateEntity(e, p)
EditSchool == \E e \in Schools : DeleteEntity(e)
EditDegree == \E e \in Degrees, p \in Schools : UpdateEntity(e, p) \/ DeleteEntity(e)
EditCourse == \E e \in Courses, p \in Degrees : UpdateEntity(e, p) \/ DeleteEntity(e)
EditModule == \E e \in Modules, p \in Courses : UpdateEntity(e, p) \/ DeleteEntity(e)
EditLesson == \E e \in Lessons, p \in Modules : UpdateEntity(e, p) \/ DeleteEntity(e)

SaveLearningObjective(o, l) ==
    /\ search = NoSearch
    /\ l \in Present(Lessons)
    /\ objective' = [objective EXCEPT ![o] = l]
    /\ UNCHANGED <<parent, requires, path, search>>

DeleteLearningObjective(o) ==
    /\ search = NoSearch
    /\ objective[o] # Absent
    /\ objective' = [objective EXCEPT ![o] = Absent]
    /\ UNCHANGED <<parent, requires, path, search>>

-----------------------------------------------------------------------------
(* _validate_prerequisite_pair refuses unknown lessons, a lesson that         *)
(* requires itself and a pair there is already, and then searches the graph   *)
(* for a way back.  An update leaves the edge it replaces out of the graph.   *)
ValidatePair(edge, replaces) ==
    /\ search = NoSearch
    /\ edge[1] # edge[2]
    /\ edge \notin requires \ {replaces}
    /\ search' = [edge |-> edge, replaces |-> replaces, pending |-> {edge[2]}, visited |-> {}]
    /\ UNCHANGED <<parent, objective, requires, path>>

CreateLessonPrerequisite(edge) == ValidatePair(edge, None)
UpdateLessonPrerequisite(edge, old) == old \in requires /\ ValidatePair(edge, old)

Graph == requires \ {search.replaces}
Required(l) == {p \in Lessons : <<l, p>> \in Graph}

(* One turn of the loop.  The list of pending lessons has no order here.      *)
VisitOnly(l) ==  \* bug: what the visited lesson requires is not searched
    /\ l \in search.pending
    /\ l # search.edge[1]
    /\ search' = [search EXCEPT !.visited = @ \cup {l}, !.pending = @ \ {l}]
    /\ UNCHANGED <<parent, objective, requires, path>>
Visit(l) ==
    /\ l \in search.pending
    /\ l # search.edge[1]
    /\ search' = [search EXCEPT !.visited = @ \cup {l},
                                !.pending = (@ \cup Required(l)) \ (search.visited \cup {l})]
    /\ UNCHANGED <<parent, objective, requires, path>>

RefuseCycle ==
    /\ search # NoSearch
    /\ search.edge[1] \in search.pending
    /\ search' = NoSearch
    /\ UNCHANGED <<parent, objective, requires, path>>

StorePrerequisite ==
    /\ search # NoSearch
    /\ search.pending = {}
    /\ requires' = Graph \cup {search.edge}
    /\ search' = NoSearch
    /\ UNCHANGED <<parent, objective, path>>

DeleteLessonPrerequisite(edge) ==
    /\ search = NoSearch
    /\ edge \in requires
    /\ requires' = requires \ {edge}
    /\ UNCHANGED <<parent, objective, path, search>>

-----------------------------------------------------------------------------
Orders == 0..MaxOrder
Taken(c) == {path[c][l] : l \in DOMAIN path[c]}

PathCall(c) == search = NoSearch /\ UNCHANGED <<parent, objective, requires, search>>

(* _replace_curriculum_path_lessons deletes all links and numbers the new     *)
(* ones from zero; a path may be created or updated together with its lessons.*)
ReplaceCurriculumPathLessons(c) ==
    /\ PathCall(c)
    /\ \E lessons \in SUBSET Present(Lessons) : \E links \in [lessons -> 0..MaxOrder] :
         /\ {links[l] : l \in lessons} = {i \in Orders : i < Cardinality(lessons)}
         /\ path' = [path EXCEPT ![c] = links]

CreateCurriculumPath(c) == path[c] = None /\ ReplaceCurriculumPathLessons(c)
UpdateCurriculumPath(c) == path[c] # None /\ ReplaceCurriculumPathLessons(c)

DeleteCurriculumPath(c) ==
    /\ PathCall(c)
    /\ path[c] # None
    /\ path' = [path EXCEPT ![c] = None]

Link(c, l, order) == [k \in DOMAIN path[c] \cup {l} |-> IF k = l THEN order ELSE path[c][k]]

(* A lesson is in a path once, and so is an order.                            *)
CreateCurriculumPathLesson(c, l, order) ==
    /\ PathCall(c)
    /\ path[c] # None /\ Exists(l)
    /\ l \notin DOMAIN path[c] /\ order \notin Taken(c)
    /\ path' = [path EXCEPT ![c] = Link(c, l, order)]

AddLessonToCurriculumPath(c, l) ==
    \E order \in Orders :
        /\ path[c] # None
        /\ order = (IF Taken(c) = {} THEN 0 ELSE 1 + (CHOOSE i \in Taken(c) : \A j \in Taken(c) : j <= i))
        /\ CreateCurriculumPathLesson(c, l, order)

UpdateCurriculumPathLesson(c, l, k, order) ==
    /\ PathCall(c)
    /\ path[c] # None
    /\ l \in DOMAIN path[c] /\ Exists(k)
    /\ k \notin DOMAIN path[c] \ {l} /\ order \notin Taken(c) \ {path[c][l]}
    /\ path' = [path EXCEPT ![c] = [m \in (DOMAIN @ \ {l}) \cup {k} |-> IF m = k THEN order ELSE @[m]]]

RemoveLessonFromCurriculumPath(c, l) ==
    /\ PathCall(c)
    /\ path[c] # None
    /\ l \in DOMAIN path[c]
    /\ path' = [path EXCEPT ![c] = Without({l}, @)]

Next ==
    \/ CreateSchool \/ CreateDegree \/ CreateCourse \/ CreateModule \/ CreateLesson
    \/ EditSchool \/ EditDegree \/ EditCourse \/ EditModule \/ EditLesson
    \/ \E o \in Objectives, l \in Lessons : SaveLearningObjective(o, l)
    \/ \E o \in Objectives : DeleteLearningObjective(o)
    \/ \E edge \in Present(Lessons) \X Present(Lessons) : CreateLessonPrerequisite(edge)
    \/ \E edge \in Present(Lessons) \X Present(Lessons), old \in requires : UpdateLessonPrerequisite(edge, old)
    \/ \E l \in Lessons : Visit(l)
    \/ RefuseCycle \/ StorePrerequisite
    \/ \E edge \in requires : DeleteLessonPrerequisite(edge)
    \/ \E c \in Paths : CreateCurriculumPath(c) \/ UpdateCurriculumPath(c) \/ DeleteCurriculumPath(c)
    \/ \E c \in Paths, l \in Lessons : AddLessonToCurriculumPath(c, l) \/ RemoveLessonFromCurriculumPath(c, l)
    \/ \E c \in Paths, l \in Lessons, order \in Orders : CreateCurriculumPathLesson(c, l, order)
    \/ \E c \in Paths, l, k \in Lessons, order \in Orders : UpdateCurriculumPathLesson(c, l, k, order)

Spec == Init /\ [][Next]_vars

-----------------------------------------------------------------------------
Edges == Lessons \X Lessons

TypeOK ==
    /\ parent \in [Entities -> Entities \cup {None, Absent}]
    /\ objective \in [Objectives -> Lessons \cup {Absent}]
    /\ requires \subseteq Edges
    /\ \A c \in Paths : path[c] = None \/ DOMAIN path[c] \subseteq Lessons
    /\ search \in [edge : Edges \cup {None}, replaces : Edges \cup {None},
                  pending : SUBSET Lessons, visited : SUBSET Lessons]
    /\ search # NoSearch => search.edge \in Edges

(* However prerequisites are added, replaced and taken away, no lesson ends   *)
(* up requiring itself through others: every set of lessons has one that      *)
(* requires none of them, so there is always a lesson to begin with.          *)
Acyclic(edges) ==
    \A lessons \in SUBSET Lessons :
        lessons # {} => \E l \in lessons : \A p \in lessons : <<l, p>> \notin edges

PrerequisitesAreAcyclic == Acyclic(requires)

(* What a search has visited it has followed: all that a visited lesson       *)
(* requires is visited or pending, and the lesson it looks for is not visited.*)
SearchFollowsTheGraph ==
    search # NoSearch =>
        /\ search.edge[2] \in search.visited \cup search.pending
        /\ search.edge[1] \notin search.visited
        /\ \A l \in search.visited, p \in Lessons :
             <<l, p>> \in Graph => p \in search.visited \cup search.pending

(* Nothing is left of a deleted lesson or of what was above it: without       *)
(* enforced foreign keys only the cascades of the classes see to that.        *)
NothingDangles ==
    /\ \A e \in Entities : Exists(e) => parent[e] \in Parents(e)
    /\ \A o \in Objectives : objective[o] # Absent => Exists(objective[o])
    /\ \A edge \in requires : Exists(edge[1]) /\ Exists(edge[2])
    /\ \A c \in Paths : path[c] # None => DOMAIN path[c] \subseteq Present(Lessons)

(* The rows have their types, and none refers to a deleted one.               *)
RowsConsistent == TypeOK /\ NothingDangles
=============================================================================
