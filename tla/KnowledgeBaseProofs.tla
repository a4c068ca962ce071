------------------------- MODULE KnowledgeBaseProofs -------------------------
(* Proofs about what the knowledge base holds, for any rows and callers.      *)
(*                                                                            *)
(* The curriculum (Curriculum): the search for a way back keeps the           *)
(* prerequisites acyclic, for any lessons and any number of calls.  It rests  *)
(* on two facts: when nothing is pending, the visited lessons are closed under*)
(* the graph and hold the new prerequisite but not the lesson that is to      *)
(* require it (SearchFollowsTheGraph); and an edge into such a set from       *)
(* outside closes no cycle (EdgeIntoClosed).  And a deletion leaves nothing   *)
(* that refers to what is gone: RowsInv.                                      *)
(*                                                                            *)
(* The knowledge graph (KnowledgeGraph): what a call has checked still holds  *)
(* when it commits, unless another one has committed since (ChecksHold), so   *)
(* nothing refers to a deleted row and no category is above itself.  Two      *)
(* facts carry it: a deletion has found all that goes with a row after two    *)
(* levels of keys (TwoLevels), and a parent from whose walk up the category   *)
(* is missing closes no cycle (ParentClosesNoCycle).                          *)
(*                                                                            *)
(* The two modules share no rows and no names.                                *)
EXTENDS Curriculum, KnowledgeGraph, TLAPS

(* The part of the type invariant the argument needs.                         *)
SearchTypeOK ==
    /\ requires \subseteq Edges
    /\ search \in [edge : Edges \cup {None}, replaces : Edges \cup {None},
                   pending : SUBSET Lessons, visited : SUBSET Lessons]
    /\ search # NoSearch => search.edge \in Edges

IInv ==
    /\ SearchTypeOK
    /\ search # NoSearch => search.edge[1] # search.edge[2]
    /\ SearchFollowsTheGraph
    /\ PrerequisitesAreAcyclic

(* Fewer edges close no cycle that more do not.                               *)
LEMMA FewerEdges ==
    ASSUME NEW E, NEW F, F \subseteq E, Acyclic(E)
    PROVE  Acyclic(F)
BY DEF Acyclic

(* A set that is closed under the edges can only be entered: an edge into it  *)
(* from outside closes no cycle.                                              *)
LEMMA EdgeIntoClosed ==
    ASSUME NEW E, Acyclic(E), NEW closed \in SUBSET Lessons,
           \A x \in closed, y \in Lessons : <<x, y>> \in E => y \in closed,
           NEW l \in Lessons, l \notin closed, NEW p \in closed
    PROVE  Acyclic(E \cup {<<l, p>>})
<1> SUFFICES ASSUME NEW S \in SUBSET Lessons, S # {}
             PROVE  \E x \in S : \A y \in S : <<x, y>> \notin E \cup {<<l, p>>}
  BY DEF Acyclic
<1>1. CASE S \cap closed # {}
  <2>1. PICK x \in S \cap closed : \A y \in S \cap closed : <<x, y>> \notin E
    BY <1>1 DEF Acyclic
  <2>2. \A y \in S : <<x, y>> \notin E
    BY <2>1
  <2>3. \A y \in S : <<x, y>> # <<l, p>>
    BY <2>1
  <2> QED BY <2>1, <2>2, <2>3
<1>2. CASE S \cap closed = {}
  <2>1. PICK x \in S : \A y \in S : <<x, y>> \notin E
    BY DEF Acyclic
  <2>2. \A y \in S : <<x, y>> # <<l, p>>
    BY <1>2
  <2> QED BY <2>1, <2>2
<1> QED BY <1>1, <1>2

LEMMA SearchInit == Init => IInv
<1> SUFFICES ASSUME Init PROVE IInv
  OBVIOUS
<1> USE DEF Init
<1>1. SearchTypeOK
  BY DEF SearchTypeOK, NoSearch
<1>2. PrerequisitesAreAcyclic
  BY DEF PrerequisitesAreAcyclic, Acyclic
<1> QED BY <1>1, <1>2 DEF IInv, SearchFollowsTheGraph

(* Calls other than those about prerequisites leave the graph alone, except   *)
(* that edges go with a deleted lesson; none is made while a search is on.    *)
LEMMA Undisturbed ==
    ASSUME IInv, requires' \subseteq requires, search' = search,
           search = NoSearch \/ requires' = requires
    PROVE  IInv'
<1>1. SearchTypeOK'
  BY DEF IInv, SearchTypeOK, NoSearch
<1>2. PrerequisitesAreAcyclic'
  BY FewerEdges DEF IInv, PrerequisitesAreAcyclic
<1>3. SearchFollowsTheGraph'
  BY DEF IInv, SearchFollowsTheGraph, Graph, NoSearch
<1> QED BY <1>1, <1>2, <1>3 DEF IInv, NoSearch

LEMMA SearchBegins ==
    ASSUME IInv, NEW edge \in Edges, NEW replaces \in Edges \cup {None},
           ValidatePair(edge, replaces)
    PROVE  IInv'
<1> USE DEF ValidatePair
<1>1. SearchTypeOK'
  BY DEF IInv, SearchTypeOK, NoSearch, Edges
<1>2. PrerequisitesAreAcyclic'
  BY DEF IInv, PrerequisitesAreAcyclic
<1>3. SearchFollowsTheGraph'
  BY DEF SearchFollowsTheGraph
<1> QED BY <1>1, <1>2, <1>3 DEF IInv

LEMMA SearchGoesOn ==
    ASSUME IInv, NEW l \in Lessons, Visit(l)
    PROVE  IInv'
<1> USE DEF Visit
<1>0. search # NoSearch
  BY DEF NoSearch
<1>1. SearchTypeOK' /\ search'.edge = search.edge /\ search'.replaces = search.replaces
  <2> DEFINE Searches == [edge : Edges \cup {None}, replaces : Edges \cup {None},
                          pending : SUBSET Lessons, visited : SUBSET Lessons]
  <2>1. search \in Searches /\ search.edge \in Edges
    BY <1>0 DEF IInv, SearchTypeOK
  <2>2. (search.pending \cup Required(l)) \ (search.visited \cup {l}) \in SUBSET Lessons
    BY <2>1 DEF Required
  <2>3. search.visited \cup {l} \in SUBSET Lessons
    BY <2>1
  <2> HIDE DEF Required
  <2>4. search' \in Searches /\ search'.edge = search.edge /\ search'.replaces = search.replaces
    BY <2>1, <2>2, <2>3
  <2> QED BY <2>1, <2>4 DEF IInv, SearchTypeOK
<1>2. PrerequisitesAreAcyclic'
  BY DEF IInv, PrerequisitesAreAcyclic
<1>3. /\ search'.visited = search.visited \cup {l}
      /\ search'.pending = (search.pending \cup Required(l)) \ (search.visited \cup {l})
  BY DEF IInv, SearchTypeOK
<1>4. Graph' = Graph
  BY <1>1 DEF Graph
<1>5. SearchFollowsTheGraph'
  BY <1>0, <1>1, <1>3, <1>4 DEF IInv, SearchFollowsTheGraph, Required
<1> QED BY <1>0, <1>1, <1>2, <1>5 DEF IInv

LEMMA SearchEnds ==
    ASSUME IInv, RefuseCycle \/ StorePrerequisite
    PROVE  IInv'
<1>1. search' = NoSearch /\ search # NoSearch
  BY DEF RefuseCycle, StorePrerequisite
<1>2. requires' \subseteq Edges /\ Acyclic(requires')
  <2>1. CASE RefuseCycle
    BY <2>1 DEF RefuseCycle, IInv, SearchTypeOK, PrerequisitesAreAcyclic
  <2>2. CASE StorePrerequisite
    <3>1. search.edge \in Edges /\ search.pending = {} /\ search.visited \in SUBSET Lessons
      BY <1>1, <2>2 DEF IInv, SearchTypeOK, StorePrerequisite
    <3>2. PICK l \in Lessons, p \in Lessons : search.edge = <<l, p>>
      BY <3>1 DEF Edges
    <3>3. Acyclic(Graph)
      BY FewerEdges DEF IInv, PrerequisitesAreAcyclic, Graph
    <3>4. /\ p \in search.visited /\ l \notin search.visited
          /\ \A x \in search.visited, y \in Lessons : <<x, y>> \in Graph => y \in search.visited
      BY <1>1, <3>1, <3>2 DEF IInv, SearchFollowsTheGraph
    <3>5. Acyclic(Graph \cup {<<l, p>>})
      BY <3>1, <3>3, <3>4, EdgeIntoClosed
    <3> QED BY <2>2, <3>1, <3>2, <3>5 DEF StorePrerequisite, IInv, SearchTypeOK, Graph
  <2> QED BY <2>1, <2>2
<1>3. SearchTypeOK'
  BY <1>1, <1>2 DEF SearchTypeOK, NoSearch
<1> QED BY <1>1, <1>2, <1>3 DEF IInv, SearchFollowsTheGraph, PrerequisitesAreAcyclic

LEMMA SearchStep == IInv /\ [Next]_vars => IInv'
<1> SUFFICES ASSUME IInv, [Next]_vars PROVE IInv'
  OBVIOUS
<1> USE DEF PathCall
<1>1. ASSUME NEW e, NEW p, CreateEntity(e, p) \/ UpdateEntity(e, p) \/ DeleteEntity(e) PROVE IInv'
  BY <1>1, Undisturbed DEF CreateEntity, UpdateEntity, DeleteEntity
<1>2. ASSUME \/ CreateSchool \/ CreateDegree \/ CreateCourse \/ CreateModule \/ CreateLesson
             \/ EditSchool \/ EditDegree \/ EditCourse \/ EditModule \/ EditLesson
      PROVE  IInv'
  BY <1>1, <1>2 DEF CreateSchool, CreateDegree, CreateCourse, CreateModule, CreateLesson,
                    EditSchool, EditDegree, EditCourse, EditModule, EditLesson
<1>3. ASSUME NEW o \in Objectives, NEW l \in Lessons, SaveLearningObjective(o, l) PROVE IInv'
  BY <1>3, Undisturbed DEF SaveLearningObjective
<1>4. ASSUME NEW o \in Objectives, DeleteLearningObjective(o) PROVE IInv'
  BY <1>4, Undisturbed DEF DeleteLearningObjective
<1>5. ASSUME NEW edge \in Present(Lessons) \X Present(Lessons), CreateLessonPrerequisite(edge) PROVE IInv'
  <2>1. edge \in Edges
    BY DEF Present, Edges
  <2> QED BY <1>5, <2>1, SearchBegins DEF CreateLessonPrerequisite
<1>6. ASSUME NEW edge \in Present(Lessons) \X Present(Lessons), NEW old \in requires,
             UpdateLessonPrerequisite(edge, old)
      PROVE  IInv'
  <2>1. edge \in Edges /\ old \in Edges
    BY DEF Present, Edges, IInv, SearchTypeOK
  <2> QED BY <1>6, <2>1, SearchBegins DEF UpdateLessonPrerequisite
<1>7. ASSUME NEW l \in Lessons, Visit(l) PROVE IInv'
  BY <1>7, SearchGoesOn
<1>8. ASSUME RefuseCycle \/ StorePrerequisite PROVE IInv'
  BY <1>8, SearchEnds
<1>9. ASSUME NEW edge \in requires, DeleteLessonPrerequisite(edge) PROVE IInv'
  BY <1>9, Undisturbed DEF DeleteLessonPrerequisite
<1>10. ASSUME NEW c \in Paths, CreateCurriculumPath(c) \/ UpdateCurriculumPath(c) \/ DeleteCurriculumPath(c)
       PROVE  IInv'
  BY <1>10, Undisturbed DEF CreateCurriculumPath, UpdateCurriculumPath, DeleteCurriculumPath, ReplaceCurriculumPathLessons
<1>11. ASSUME NEW c \in Paths, NEW l \in Lessons,
              AddLessonToCurriculumPath(c, l) \/ RemoveLessonFromCurriculumPath(c, l)
       PROVE  IInv'
  BY <1>11, Undisturbed DEF AddLessonToCurriculumPath, CreateCurriculumPathLesson, RemoveLessonFromCurriculumPath
<1>12. ASSUME NEW c \in Paths, NEW l \in Lessons, NEW order \in Orders, CreateCurriculumPathLesson(c, l, order)
       PROVE  IInv'
  BY <1>12, Undisturbed DEF CreateCurriculumPathLesson
<1>13. ASSUME NEW c \in Paths, NEW l \in Lessons, NEW k \in Lessons, NEW order \in Orders,
              UpdateCurriculumPathLesson(c, l, k, order)
       PROVE  IInv'
  BY <1>13, Undisturbed DEF UpdateCurriculumPathLesson
<1>14. CASE UNCHANGED vars
  BY <1>14, Undisturbed DEF vars
<1> QED
  BY <1>1, <1>2, <1>3, <1>4, <1>5, <1>6, <1>7, <1>8, <1>9, <1>10, <1>11, <1>12, <1>13, <1>14 DEF Next

(* No call of the curriculum service closes a cycle of prerequisites.         *)
THEOREM PrerequisitesStayAcyclic == Spec => []PrerequisitesAreAcyclic
<1>1. IInv => PrerequisitesAreAcyclic
  BY DEF IInv
<1> QED BY <1>1, SearchInit, SearchStep, PTL DEF Spec

(* What a search has visited it has followed, whenever it is looked at.       *)
THEOREM SearchesFollowTheGraph == Spec => []SearchFollowsTheGraph
<1>1. IInv => SearchFollowsTheGraph
  BY DEF IInv
<1> QED BY <1>1, SearchInit, SearchStep, PTL DEF Spec

-----------------------------------------------------------------------------
(* That nothing dangles.  What a deletion takes is a whole subtree: the       *)
(* hierarchy has five levels, so whatever is below a deleted entity has it    *)
(* among its first four ancestors, and the parent of what stays, stays.       *)
PathShape == path = [c \in Paths |-> path[c]]

(* No entity goes while a search is on, so its lessons are there at its end.  *)
SearchedLessons == search # NoSearch => Exists(search.edge[1]) /\ Exists(search.edge[2])

ParentsThere == \A e \in Entities : Exists(e) => parent[e] \in Parents(e)

RowsInv == TypeOK /\ NothingDangles /\ PathShape /\ SearchedLessons

LEMMA Disjoint ==
    /\ Schools \cap Degrees = {} /\ Schools \cap Courses = {} /\ Schools \cap Modules = {}
    /\ Schools \cap Lessons = {} /\ Degrees \cap Courses = {} /\ Degrees \cap Modules = {}
    /\ Degrees \cap Lessons = {} /\ Courses \cap Modules = {} /\ Courses \cap Lessons = {}
    /\ Modules \cap Lessons = {}
<1> DEFINE Apart(i, j) == Levels[i] \cap Levels[j] = {}
<1>1. /\ Apart(1, 2) /\ Apart(1, 3) /\ Apart(1, 4) /\ Apart(1, 5) /\ Apart(2, 3)
      /\ Apart(2, 4) /\ Apart(2, 5) /\ Apart(3, 4) /\ Apart(3, 5) /\ Apart(4, 5)
  BY LevelsAssumption
<1>2. /\ Levels[1] = Schools /\ Levels[2] = Degrees /\ Levels[3] = Courses
      /\ Levels[4] = Modules /\ Levels[5] = Lessons
  BY DEF Levels
<1> QED BY <1>1, <1>2

(* The parents an entity may have, level by level.                            *)
LEMMA ParentsOfLevels ==
    /\ \A e \in Schools : Parents(e) = {None}
    /\ \A e \in Degrees : Parents(e) = Present(Schools)
    /\ \A e \in Courses : Parents(e) = Present(Degrees)
    /\ \A e \in Modules : Parents(e) = Present(Courses)
    /\ \A e \in Lessons : Parents(e) = Present(Modules)
<1>1. /\ Levels[1] = Schools /\ Levels[2] = Degrees /\ Levels[3] = Courses
      /\ Levels[4] = Modules /\ Levels[5] = Lessons
  BY DEF Levels
<1>2. ASSUME NEW e \in Entities, NEW i \in 1..4, e \in Levels[i + 1]
      PROVE  Parents(e) = Present(Levels[i])
  <2>1. e \notin Schools BY <1>1, <1>2, Disjoint
  <2>2. {j \in 1..4 : e \in Levels[j + 1]} = {i}
    <3>1. ASSUME NEW j \in 1..4, e \in Levels[j + 1] PROVE j = i
      <4>1. i + 1 \in 1..5 /\ j + 1 \in 1..5 OBVIOUS
      <4>2. i + 1 # j + 1 => Levels[i + 1] \cap Levels[j + 1] = {} BY <4>1, LevelsAssumption
      <4> QED BY <1>2, <3>1, <4>2
    <3> QED BY <1>2, <3>1
  <2>3. Parents(e) = UNION {Present(Levels[k]) : k \in {i}} BY <2>1, <2>2 DEF Parents
  <2> QED BY <2>3
<1>3. \A e \in Schools : Parents(e) = {None} BY DEF Parents
<1>4. ASSUME NEW e \in Degrees PROVE Parents(e) = Present(Schools)
  <2>1. e \in Entities /\ 1 \in 1..4 /\ e \in Levels[1 + 1] BY <1>1 DEF Entities
  <2>2. Parents(e) = Present(Levels[1]) BY <2>1, <1>2
  <2> QED BY <1>1, <2>2
<1>5. ASSUME NEW e \in Courses PROVE Parents(e) = Present(Degrees)
  <2>1. e \in Entities /\ 2 \in 1..4 /\ e \in Levels[2 + 1] BY <1>1 DEF Entities
  <2>2. Parents(e) = Present(Levels[2]) BY <2>1, <1>2
  <2> QED BY <1>1, <2>2
<1>6. ASSUME NEW e \in Modules PROVE Parents(e) = Present(Courses)
  <2>1. e \in Entities /\ 3 \in 1..4 /\ e \in Levels[3 + 1] BY <1>1 DEF Entities
  <2>2. Parents(e) = Present(Levels[3]) BY <2>1, <1>2
  <2> QED BY <1>1, <2>2
<1>7. ASSUME NEW e \in Lessons PROVE Parents(e) = Present(Modules)
  <2>1. e \in Entities /\ 4 \in 1..4 /\ e \in Levels[4 + 1] BY <1>1 DEF Entities
  <2>2. Parents(e) = Present(Levels[4]) BY <2>1, <1>2
  <2> QED BY <1>1, <2>2
<1> QED BY <1>3, <1>4, <1>5, <1>6, <1>7

LEMMA ParentsAreEntities == \A e \in Entities : Parents(e) \subseteq Entities \cup {None}
BY ParentsOfLevels DEF Present, Entities

(* Above a parent there are at most three levels.                             *)
LEMMA FewAncestors ==
    ASSUME ParentsThere, NEW p \in Entities, Exists(p), p \notin Lessons
    PROVE  Up(Up(Up(Up(p)))) = None
<1>1. Up(None) = None BY EntitiesAssumption DEF Up
<1>2. \A e \in Entities : Exists(e) => Up(e) \in Parents(e) BY DEF ParentsThere, Up
<1> HIDE DEF Up
<1>3. \A e \in Schools : Exists(e) => Up(e) = None BY <1>2, ParentsOfLevels DEF Entities
<1>4. \A e \in Degrees : Exists(e) => Up(e) \in Schools /\ Exists(Up(e))
  BY <1>2, ParentsOfLevels DEF Entities, Present
<1>5. \A e \in Courses : Exists(e) => Up(e) \in Degrees /\ Exists(Up(e))
  BY <1>2, ParentsOfLevels DEF Entities, Present
<1>6. \A e \in Modules : Exists(e) => Up(e) \in Courses /\ Exists(Up(e))
  BY <1>2, ParentsOfLevels DEF Entities, Present
<1>7. \A e \in Degrees : Exists(e) => Up(Up(e)) = None BY <1>3, <1>4
<1>8. \A e \in Courses : Exists(e) => Up(Up(Up(e))) = None BY <1>5, <1>7
<1>9. \A e \in Modules : Exists(e) => Up(Up(Up(Up(e)))) = None BY <1>6, <1>8
<1>10. p \in Schools \cup Degrees \cup Courses \cup Modules BY DEF Entities
<1> QED BY <1>1, <1>3, <1>7, <1>8, <1>9, <1>10

(* The parent of what a deletion leaves is left too.                          *)
LEMMA ParentStays ==
    ASSUME ParentsThere, NEW e \in Entities, NEW f \in Entities \ Subtree(e), Exists(f),
           parent[f] \in Entities, Exists(parent[f]), parent[f] \notin Lessons
    PROVE  parent[f] \notin Subtree(e)
<1> DEFINE p == parent[f]
<1>1. p = Up(f) BY DEF Up
<1>2. e \notin {f, Up(f), Up(Up(f)), Up(Up(Up(f))), Up(Up(Up(Up(f))))}
  BY DEF Subtree, Ancestry
<1>3. Up(Up(Up(Up(p)))) = None /\ e # None BY FewAncestors, EntitiesAssumption
<1> HIDE DEF p
<1>4. e \notin {p, Up(p), Up(Up(p)), Up(Up(Up(p))), Up(Up(Up(Up(p))))}
  BY <1>1, <1>2, <1>3
<1>5. p \notin Subtree(e) BY <1>4 DEF Subtree, Ancestry
<1> QED BY <1>5 DEF p

(* A parent is where Parents says whatever happens to the rest, if those that *)
(* were there and are its parents' kind are still there.                      *)
LEMMA ParentKept ==
    ASSUME NEW e \in Entities, NEW p \in Parents(e), p = None \/ Exists(p)'
    PROVE  p \in Parents(e)'
<1>1. e \in Schools \cup Degrees \cup Courses \cup Modules \cup Lessons BY DEF Entities
<1>2. CASE e \in Schools BY <1>2 DEF Parents
<1>3. CASE e \notin Schools
  <2>1. PICK i \in {j \in 1..4 : e \in Levels[j + 1]} : p \in Present(Levels[i])
    BY <1>3 DEF Parents
  <2>2. p # None
    <3>1. p \in Entities BY <2>1 DEF Present, Levels, Entities
    <3> QED BY <3>1, EntitiesAssumption
  <2>3. p \in Present(Levels[i])' BY <2>1, <2>2 DEF Present
  <2> QED BY <1>3, <2>1, <2>3 DEF Parents
<1> QED BY <1>2, <1>3

-----------------------------------------------------------------------------
(* Entities come and move.                                                    *)
LEMMA Saving ==
    ASSUME RowsInv, NEW e \in Entities, NEW p, CreateEntity(e, p) \/ UpdateEntity(e, p)
    PROVE  RowsInv'
<1>1. /\ parent' = [parent EXCEPT ![e] = p] /\ p \in Parents(e)
      /\ objective' = objective /\ requires' = requires /\ path' = path /\ search' = search
      /\ search = NoSearch
  BY DEF CreateEntity, UpdateEntity
<1>2. p \in Entities \cup {None} BY <1>1, ParentsAreEntities
<1>3. /\ parent' \in [Entities -> Entities \cup {None, Absent}]
      /\ parent'[e] = p /\ \A f \in Entities : f # e => parent'[f] = parent[f]
  BY <1>1, <1>2 DEF RowsInv, TypeOK
<1>4. \A f \in Entities : Exists(f) => Exists(f)'
  BY <1>2, <1>3, LevelsAssumption DEF Exists
<1>5. \A f \in Entities : \A q \in Parents(f) : q = None \/ Exists(q)
  BY ParentsOfLevels DEF Present, Entities
<1>6. ASSUME NEW f \in Entities, Exists(f)'
      PROVE  parent'[f] \in Parents(f)'
  <2>1. parent'[f] \in Parents(f)
    BY <1>1, <1>3, <1>6 DEF Exists, RowsInv, NothingDangles
  <2>2. parent'[f] = None \/ Exists(parent'[f])
    BY <1>5, <2>1
  <2>3. PICK q : q = parent'[f] OBVIOUS
  <2>4. q \in Parents(f) /\ (q = None \/ Exists(q)')
    BY <1>4, <2>1, <2>2, <2>3, ParentsAreEntities
  <2>5. q \in Parents(f)' BY <2>4, ParentKept
  <2> QED BY <2>3, <2>5
<1>7. TypeOK' BY <1>1, <1>3 DEF RowsInv, TypeOK
<1>8. \A o \in Objectives : objective[o] # Absent => parent'[objective[o]] # Absent
  <2> SUFFICES ASSUME NEW o \in Objectives, objective[o] # Absent PROVE parent'[objective[o]] # Absent
    OBVIOUS
  <2>1. objective[o] \in Entities /\ Exists(objective[o])
    BY DEF RowsInv, NothingDangles, TypeOK, Entities
  <2> QED BY <1>4, <2>1 DEF Exists
<1>9. \A edge \in requires : Exists(edge[1])' /\ Exists(edge[2])'
  <2> SUFFICES ASSUME NEW edge \in requires PROVE Exists(edge[1])' /\ Exists(edge[2])'
    OBVIOUS
  <2>1. edge[1] \in Lessons /\ edge[2] \in Lessons BY DEF RowsInv, TypeOK, Edges
  <2> QED BY <1>4, <2>1 DEF RowsInv, NothingDangles, Entities
<1>10. \A c \in Paths : path[c] # None => DOMAIN path[c] \subseteq Present(Lessons)'
  BY <1>4 DEF RowsInv, NothingDangles, Present, Entities
<1>11. NothingDangles' BY <1>1, <1>6, <1>8, <1>9, <1>10 DEF NothingDangles, Exists
<1>12. PathShape' /\ SearchedLessons' BY <1>1 DEF RowsInv, PathShape, SearchedLessons
<1> QED BY <1>7, <1>11, <1>12 DEF RowsInv

LEMMA Deleting ==
    ASSUME RowsInv, NEW e \in Entities, DeleteEntity(e)
    PROVE  RowsInv'
<1>1. PICK gone : gone = Subtree(e) OBVIOUS
<1>2. /\ parent' = [f \in Entities |-> IF f \in gone THEN Absent ELSE parent[f]]
      /\ objective' = [o \in Objectives |-> IF objective[o] \in gone THEN Absent ELSE objective[o]]
      /\ requires' = {edge \in requires : edge[1] \notin gone /\ edge[2] \notin gone}
      /\ path' = [c \in Paths |-> IF path[c] = None THEN None ELSE Without(gone, path[c])]
      /\ search' = search /\ search = NoSearch
  BY <1>1 DEF DeleteEntity
<1>3. ParentsThere BY DEF RowsInv, NothingDangles, ParentsThere
<1>4. \A f \in Entities : Exists(f)' <=> f \notin gone /\ Exists(f)
  BY <1>2 DEF Exists
<1>5. ASSUME NEW f \in Entities, Exists(f)'
      PROVE  parent'[f] \in Parents(f)'
  <2>1. PICK p : p = parent[f] OBVIOUS
  <2>2. f \notin gone /\ Exists(f) /\ parent'[f] = p /\ p \in Parents(f)
    BY <1>2, <1>3, <1>4, <1>5, <2>1 DEF ParentsThere
  <2>3. p = None \/ (p \in Entities /\ Exists(p) /\ p \notin Lessons)
    BY <2>2, ParentsOfLevels, Disjoint DEF Present, Entities
  <2>4. CASE p = None BY <2>2, <2>4, ParentKept
  <2>5. CASE p \in Entities /\ Exists(p) /\ p \notin Lessons
    <3>1. p \notin gone BY <1>1, <1>3, <2>1, <2>2, <2>5, ParentStays
    <3>2. Exists(p)' BY <1>4, <2>5, <3>1
    <3> QED BY <2>2, <3>2, ParentKept
  <2> QED BY <2>3, <2>4, <2>5
<1>6. \A c \in Paths : path'[c] # None =>
         /\ path[c] # None
         /\ DOMAIN path'[c] = DOMAIN path[c] \ gone
  BY <1>2 DEF Without
<1>7. Lessons \subseteq Entities BY DEF Entities
<1>8. TypeOK'
  <2>1. parent' \in [Entities -> Entities \cup {None, Absent}] BY <1>2 DEF RowsInv, TypeOK
  <2>2. objective' \in [Objectives -> Lessons \cup {Absent}] BY <1>2 DEF RowsInv, TypeOK
  <2>3. \A c \in Paths : path'[c] = None \/ DOMAIN path'[c] \subseteq Lessons
    BY <1>6 DEF RowsInv, TypeOK
  <2> QED BY <1>2, <2>1, <2>2, <2>3 DEF RowsInv, TypeOK
<1>9. \A o \in Objectives : objective'[o] # Absent => parent'[objective'[o]] # Absent
  <2> SUFFICES ASSUME NEW o \in Objectives, objective'[o] # Absent PROVE parent'[objective'[o]] # Absent
    OBVIOUS
  <2>1. PICK l : l = objective[o] OBVIOUS
  <2>2. objective'[o] = l /\ l \notin gone /\ l # Absent BY <1>2, <2>1
  <2>3. l \in Entities /\ Exists(l) BY <1>7, <2>1, <2>2 DEF RowsInv, TypeOK, NothingDangles
  <2>4. Exists(l)' BY <1>4, <2>2, <2>3
  <2> QED BY <2>2, <2>4 DEF Exists
<1>10. \A edge \in requires' : parent'[edge[1]] # Absent /\ parent'[edge[2]] # Absent
  <2> SUFFICES ASSUME NEW edge \in requires' PROVE parent'[edge[1]] # Absent /\ parent'[edge[2]] # Absent
    OBVIOUS
  <2>1. edge \in requires /\ edge[1] \notin gone /\ edge[2] \notin gone BY <1>2
  <2>2. edge[1] \in Entities /\ edge[2] \in Entities BY <1>7, <2>1 DEF RowsInv, TypeOK, Edges
  <2>3. Exists(edge[1]) /\ Exists(edge[2]) BY <2>1 DEF RowsInv, NothingDangles
  <2> QED BY <1>4, <2>1, <2>2, <2>3 DEF Exists
<1>11. \A c \in Paths : path'[c] # None => DOMAIN path'[c] \subseteq {l \in Lessons : parent'[l] # Absent}
  BY <1>4, <1>6, <1>7 DEF RowsInv, NothingDangles, Present, Exists
<1>12. NothingDangles' BY <1>5, <1>9, <1>10, <1>11 DEF NothingDangles, Exists, Present
<1>13. PathShape' /\ SearchedLessons' BY <1>2 DEF PathShape, SearchedLessons
<1> QED BY <1>8, <1>12, <1>13 DEF RowsInv

(* Calls that leave the entities alone.                                       *)
LEMMA EntitiesStay ==
    ASSUME RowsInv, parent' = parent,
           objective' \in [Objectives -> Lessons \cup {Absent}],
           \A o \in Objectives : objective'[o] # Absent => Exists(objective'[o]),
           requires' \subseteq Edges,
           \A edge \in requires' : Exists(edge[1]) /\ Exists(edge[2]),
           PathShape', \A c \in Paths : path'[c] # None => DOMAIN path'[c] \subseteq Present(Lessons),
           SearchTypeOK',
           search' # NoSearch => Exists(search'.edge[1]) /\ Exists(search'.edge[2])
    PROVE  RowsInv'
<1>1. \A e : Exists(e)' = Exists(e) BY DEF Exists
<1>2. \A e \in Entities : Parents(e)' = Parents(e)
  BY DEF Parents, Present, Exists
<1>3. TypeOK'
  BY DEF RowsInv, TypeOK, SearchTypeOK, Present
<1>4. NothingDangles'
  <2>1. \A e \in Entities : Exists(e)' => parent'[e] \in Parents(e)'
    BY <1>2 DEF RowsInv, NothingDangles, Exists
  <2>2. \A c \in Paths : path'[c] # None => DOMAIN path'[c] \subseteq Present(Lessons)'
    BY DEF Present, Exists
  <2> QED BY <2>1, <2>2 DEF NothingDangles, Exists
<1>5. SearchedLessons' BY DEF SearchedLessons, Exists
<1> QED BY <1>3, <1>4, <1>5 DEF RowsInv

LEMMA Links ==
    ASSUME RowsInv, NEW c \in Paths, NEW links, links = None \/ DOMAIN links \subseteq Present(Lessons),
           path' = [path EXCEPT ![c] = links], UNCHANGED <<parent, objective, requires, search>>
    PROVE  RowsInv'
<1>1. /\ path' = [k \in Paths |-> path'[k]] /\ path'[c] = links
      /\ \A k \in Paths : k # c => path'[k] = path[k]
  BY DEF RowsInv, PathShape
<1>2. \A k \in Paths : path'[k] # None => DOMAIN path'[k] \subseteq Present(Lessons)
  BY <1>1 DEF RowsInv, NothingDangles
<1>3. SearchTypeOK' BY DEF RowsInv, TypeOK, SearchTypeOK
<1>4. /\ objective' \in [Objectives -> Lessons \cup {Absent}] /\ requires' \subseteq Edges
      /\ \A o \in Objectives : objective'[o] # Absent => Exists(objective'[o])
      /\ \A edge \in requires' : Exists(edge[1]) /\ Exists(edge[2])
  BY DEF RowsInv, TypeOK, NothingDangles
<1>5. search' # NoSearch => Exists(search'.edge[1]) /\ Exists(search'.edge[2])
  BY DEF RowsInv, SearchedLessons
<1> QED BY <1>1, <1>2, <1>3, <1>4, <1>5, EntitiesStay DEF PathShape

LEMMA PathCalls ==
    ASSUME RowsInv, NEW c \in Paths,
           \/ CreateCurriculumPath(c) \/ UpdateCurriculumPath(c) \/ DeleteCurriculumPath(c)
           \/ \E l \in Lessons :
                \/ AddLessonToCurriculumPath(c, l) \/ RemoveLessonFromCurriculumPath(c, l)
                \/ \E order \in Orders : CreateCurriculumPathLesson(c, l, order)
                \/ \E k \in Lessons, order \in Orders : UpdateCurriculumPathLesson(c, l, k, order)
    PROVE  RowsInv'
<1>1. path[c] # None => DOMAIN path[c] \subseteq Present(Lessons) BY DEF RowsInv, NothingDangles
<1>2. CASE CreateCurriculumPath(c) \/ UpdateCurriculumPath(c)
  <2>1. PathCall(c) /\ \E lessons \in SUBSET Present(Lessons) : \E links \in [lessons -> 0..MaxOrder] :
          path' = [path EXCEPT ![c] = links]
    BY <1>2 DEF CreateCurriculumPath, UpdateCurriculumPath, ReplaceCurriculumPathLessons
  <2>2. PICK lessons \in SUBSET Present(Lessons) : \E links \in [lessons -> 0..MaxOrder] :
          path' = [path EXCEPT ![c] = links]
    BY <2>1
  <2>3. PICK links \in [lessons -> 0..MaxOrder] : path' = [path EXCEPT ![c] = links] BY <2>2
  <2>4. DOMAIN links \subseteq Present(Lessons) OBVIOUS
  <2> QED BY <2>1, <2>3, <2>4, Links DEF PathCall
<1>3. CASE DeleteCurriculumPath(c)
  BY <1>3, Links DEF DeleteCurriculumPath, PathCall
<1>4. ASSUME NEW l \in Lessons, NEW order, CreateCurriculumPathLesson(c, l, order)
      PROVE  RowsInv'
  <2>1. /\ path' = [path EXCEPT ![c] = Link(c, l, order)] /\ path[c] # None /\ Exists(l)
        /\ UNCHANGED <<parent, objective, requires, search>>
    BY <1>4 DEF CreateCurriculumPathLesson, PathCall
  <2>2. DOMAIN Link(c, l, order) \subseteq Present(Lessons)
    BY <1>1, <2>1 DEF Link, Present
  <2> QED BY <2>1, <2>2, Links
<1>5. ASSUME NEW l \in Lessons, AddLessonToCurriculumPath(c, l) PROVE RowsInv'
  BY <1>4, <1>5 DEF AddLessonToCurriculumPath
<1>6. ASSUME NEW l \in Lessons, RemoveLessonFromCurriculumPath(c, l) PROVE RowsInv'
  <2>1. /\ path' = [path EXCEPT ![c] = Without({l}, path[c])] /\ path[c] # None
        /\ UNCHANGED <<parent, objective, requires, search>>
    BY <1>6 DEF RemoveLessonFromCurriculumPath, PathCall
  <2>2. DOMAIN Without({l}, path[c]) \subseteq Present(Lessons) BY <1>1, <2>1 DEF Without
  <2> QED BY <2>1, <2>2, Links
<1>7. ASSUME NEW l \in Lessons, NEW k \in Lessons, NEW order, UpdateCurriculumPathLesson(c, l, k, order)
      PROVE  RowsInv'
  <2> DEFINE links == [m \in (DOMAIN path[c] \ {l}) \cup {k} |-> IF m = k THEN order ELSE path[c][m]]
  <2>1. /\ path' = [path EXCEPT ![c] = links] /\ path[c] # None /\ Exists(k)
        /\ UNCHANGED <<parent, objective, requires, search>>
    BY <1>7 DEF UpdateCurriculumPathLesson, PathCall
  <2>2. DOMAIN links \subseteq Present(Lessons) BY <1>1, <2>1 DEF Present
  <2> HIDE DEF links
  <2> QED BY <2>1, <2>2, Links
<1> QED BY <1>2, <1>3, <1>4, <1>5, <1>6, <1>7

(* Objectives and prerequisites.  A search changes nothing but itself until   *)
(* it stores the pair, whose lessons are still there.                         *)
LEMMA LessonCalls ==
    ASSUME IInv, IInv', RowsInv,
           \/ \E o \in Objectives, l \in Lessons : SaveLearningObjective(o, l)
           \/ \E o \in Objectives : DeleteLearningObjective(o)
           \/ \E edge \in Present(Lessons) \X Present(Lessons) : \E old : ValidatePair(edge, old)
           \/ \E l \in Lessons : Visit(l)
           \/ RefuseCycle \/ StorePrerequisite
           \/ \E edge \in requires : DeleteLessonPrerequisite(edge)
    PROVE  RowsInv'
<1>1. /\ SearchTypeOK' /\ requires' \subseteq Edges BY DEF IInv, SearchTypeOK
<1>2. path' = path /\ parent' = parent
  BY DEF SaveLearningObjective, DeleteLearningObjective, ValidatePair, Visit, RefuseCycle,
         StorePrerequisite, DeleteLessonPrerequisite
<1>3. PathShape' /\ \A c \in Paths : path'[c] # None => DOMAIN path'[c] \subseteq Present(Lessons)
  BY <1>2 DEF RowsInv, PathShape, NothingDangles
<1>4. /\ objective' \in [Objectives -> Lessons \cup {Absent}]
      /\ \A o \in Objectives : objective'[o] # Absent => Exists(objective'[o])
  <2>1. objective \in [Objectives -> Lessons \cup {Absent}]
        /\ \A o \in Objectives : objective[o] # Absent => Exists(objective[o])
    BY DEF RowsInv, TypeOK, NothingDangles
  <2>2. \/ objective' = objective
        \/ \E o \in Objectives : \E x \in Lessons \cup {Absent} :
             objective' = [objective EXCEPT ![o] = x] /\ (x # Absent => Exists(x))
    BY DEF SaveLearningObjective, DeleteLearningObjective, ValidatePair, Visit, RefuseCycle,
           StorePrerequisite, DeleteLessonPrerequisite, Present
  <2> QED BY <2>1, <2>2
<1>5. ASSUME NEW edge \in requires' PROVE Exists(edge[1]) /\ Exists(edge[2])
  <2>1. edge \in requires => Exists(edge[1]) /\ Exists(edge[2]) BY DEF RowsInv, NothingDangles
  <2>2. StorePrerequisite => search # NoSearch /\ requires' = Graph \cup {search.edge}
    BY DEF StorePrerequisite
  <2>3. ~StorePrerequisite => requires' \subseteq requires
    BY DEF SaveLearningObjective, DeleteLearningObjective, ValidatePair, Visit, RefuseCycle,
           DeleteLessonPrerequisite
  <2> QED BY <2>1, <2>2, <2>3 DEF Graph, RowsInv, SearchedLessons
<1>6. ASSUME search' # NoSearch PROVE Exists(search'.edge[1]) /\ Exists(search'.edge[2])
  <2>1. ASSUME NEW edge \in Present(Lessons) \X Present(Lessons), NEW old, ValidatePair(edge, old)
        PROVE  Exists(search'.edge[1]) /\ Exists(search'.edge[2])
    <3>1. search'.edge = edge BY <2>1 DEF ValidatePair
    <3> QED BY <3>1 DEF Present
  <2>2. ASSUME NEW l \in Lessons, Visit(l)
        PROVE  search'.edge = search.edge /\ search # NoSearch
    <3>1. search # NoSearch
      <4>1. l \in search.pending BY <2>2 DEF Visit
      <4> QED BY <4>1 DEF NoSearch
    <3>2. search' = [search EXCEPT !.visited = @ \cup {l},
                                   !.pending = (@ \cup Required(l)) \ (search.visited \cup {l})]
      BY <2>2 DEF Visit
    <3> QED BY <3>1, <3>2 DEF IInv, SearchTypeOK
  <2>3. ~(RefuseCycle \/ StorePrerequisite) BY <1>6 DEF RefuseCycle, StorePrerequisite
  <2>4. (\E o \in Objectives, l \in Lessons : SaveLearningObjective(o, l)) => search' = search
    BY DEF SaveLearningObjective
  <2>5. (\E o \in Objectives : DeleteLearningObjective(o)) => search' = search BY DEF DeleteLearningObjective
  <2>6. (\E edge \in requires : DeleteLessonPrerequisite(edge)) => search' = search
    BY DEF DeleteLessonPrerequisite
  <2> QED BY <1>6, <2>1, <2>2, <2>3, <2>4, <2>5, <2>6 DEF RowsInv, SearchedLessons
<1> QED BY <1>1, <1>2, <1>3, <1>4, <1>5, <1>6, EntitiesStay

LEMMA RowsStep == IInv /\ RowsInv /\ [Next]_vars => RowsInv'
<1> SUFFICES ASSUME IInv, RowsInv, [Next]_vars PROVE RowsInv'
  OBVIOUS
<1>1. IInv' BY SearchStep
<1>2. ASSUME \/ CreateSchool \/ CreateDegree \/ CreateCourse \/ CreateModule \/ CreateLesson
             \/ EditSchool \/ EditDegree \/ EditCourse \/ EditModule \/ EditLesson
      PROVE  RowsInv'
  BY <1>2, Saving, Deleting DEF CreateSchool, CreateDegree, CreateCourse, CreateModule, CreateLesson,
                                EditSchool, EditDegree, EditCourse, EditModule, EditLesson, Entities
<1>3. ASSUME \/ \E o \in Objectives, l \in Lessons : SaveLearningObjective(o, l)
             \/ \E o \in Objectives : DeleteLearningObjective(o)
             \/ \E l \in Lessons : Visit(l)
             \/ RefuseCycle \/ StorePrerequisite
             \/ \E edge \in requires : DeleteLessonPrerequisite(edge)
      PROVE  RowsInv'
  BY <1>1, <1>3, LessonCalls
<1>4. ASSUME NEW edge \in Present(Lessons) \X Present(Lessons),
             CreateLessonPrerequisite(edge) \/ \E old \in requires : UpdateLessonPrerequisite(edge, old)
      PROVE  RowsInv'
  <2>1. \E old : ValidatePair(edge, old)
    BY <1>4 DEF CreateLessonPrerequisite, UpdateLessonPrerequisite
  <2> QED BY <1>1, <2>1, LessonCalls
<1>5. CASE UNCHANGED vars
  <2>1. parent' = parent /\ objective' = objective /\ requires' = requires /\ path' = path /\ search' = search
    BY <1>5 DEF vars
  <2> QED BY <1>1, <2>1, EntitiesStay DEF RowsInv, TypeOK, NothingDangles, PathShape, SearchedLessons, IInv
<1>6. ASSUME NEW c \in Paths,
             \/ CreateCurriculumPath(c) \/ UpdateCurriculumPath(c) \/ DeleteCurriculumPath(c)
             \/ \E l \in Lessons :
                  \/ AddLessonToCurriculumPath(c, l) \/ RemoveLessonFromCurriculumPath(c, l)
                  \/ \E order \in Orders : CreateCurriculumPathLesson(c, l, order)
                  \/ \E k \in Lessons, order \in Orders : UpdateCurriculumPathLesson(c, l, k, order)
      PROVE  RowsInv'
  BY <1>6, PathCalls
<1> QED BY <1>2, <1>3, <1>4, <1>5, <1>6 DEF Next

LEMMA RowsInit == Init => RowsInv
<1> SUFFICES ASSUME Init PROVE RowsInv
  OBVIOUS
<1>1. TypeOK BY DEF Init, TypeOK, NoSearch
<1>2. NothingDangles BY DEF Init, NothingDangles, Exists
<1> QED BY <1>1, <1>2 DEF Init, RowsInv, PathShape, SearchedLessons

(* No sequence of calls leaves an entity without its parent, or an objective, *)
(* a prerequisite or a link of a path with a lesson that is gone, although    *)
(* the database enforces no foreign key (_delete_entity and the cascades of   *)
(* the mapped classes).                                                       *)
THEOREM NothingIsLeftDangling == Spec => []RowsConsistent
<1>1. RowsInv => RowsConsistent BY DEF RowsInv, RowsConsistent
<1> QED BY SearchInit, SearchStep, RowsInit, RowsStep, <1>1, PTL DEF Spec

-----------------------------------------------------------------------------
(* The knowledge graph.                                                       *)

(* The references there may be, and the types of the calls in progress.       *)
AllReferences == UNION {Possible[x] : x \in Rows}

Work == [op : {"create", "update", "delete"}, rows : SUBSET Rows, refs : SUBSET AllReferences,
         over : SUBSET Fields, stale : BOOLEAN, moved : BOOLEAN]

RowsTyped ==
    /\ alive \subseteq slice /\ alive \subseteq Rows
    /\ refs \subseteq UNION {Possible[x] : x \in alive}
    /\ \A x \in alive : Complete(x, {t \in refs : t[1] = x})
    /\ enforced \in BOOLEAN /\ raced \in BOOLEAN /\ crossed \in BOOLEAN
    /\ overlaps \in 0..MaxOverlaps
    /\ call = [c \in Clients |-> call[c]]

(* What a create or an update writes: of a row that is not there yet, all its *)
(* fields; of one that is, fields that leave it complete, whatever they were. *)
Replaces(w, old) == {t \in old : t[2] \notin w.over} \cup w.refs

Creates(w, x) == x \in slice /\ x \notin alive /\ w.over = {} /\ Complete(x, w.refs)
Updates(w, x) == \A old \in SUBSET Possible[x] : Complete(x, old) => Complete(x, Replaces(w, old))

Writes(w, x) ==
    /\ w.rows = {x}
    /\ w.refs \subseteq Possible[x]
    /\ \A t, u \in w.refs : t[2] = u[2] => t = u
    /\ w.op = "create" => Creates(w, x)
    /\ w.op = "update" => Updates(w, x)

CallSound(w) == w \in Work /\ (w.op \in {"create", "update"} => \E x \in Rows : Writes(w, x))

CallsSound ==
    /\ \A c \in Clients : Busy(c) => CallSound(call[c])
    /\ \A c, d \in Clients :
         c # d /\ Busy(c) /\ Busy(d) /\ call[c].op = "create" /\ call[d].op = "create"
         => call[c].rows \cap call[d].rows = {}

(* What a call checked still holds, until another one commits.                *)
FreshWrite(w) == \A t \in w.refs : t[3] \in alive \/ t[2] = "relationship_type"

FreshDelete(w) ==
    /\ \A u \in refs : u[3] \in w.rows /\ Reference[u[2]].session = "delete" => u[1] \in w.rows
    /\ \A u \in refs : u[3] \in w.rows /\ u[1] \notin w.rows /\ Reference[u[2]].session = "nullify"
                       => u \in w.refs

Fresh(w) ==
    /\ w.op \in {"create", "update"} => FreshWrite(w)
    /\ w.op = "delete" => FreshDelete(w)

ChecksHold == \A c \in Clients : Busy(c) /\ ~call[c].stale => Fresh(call[c])

(* The walk up from a category, in any set of references: Above, where the    *)
(* references are not those of one state.                                     *)
ParentIn(rs, S) == {t[3] : t \in {u \in rs : u[1] \in S /\ u[2] = "parent"}}
AboveIn(rs, p) ==
    {q \in Categories : \A S \in SUBSET Categories : p \in S /\ ParentIn(rs, S) \subseteq S => q \in S}

NoCycleIn(rs) == \A q \in Categories, u \in Categories : u \in ParentIn(rs, {q}) => q \notin AboveIn(rs, u)

(* What a call knows of the tree: the parent it is about to write exists and  *)
(* is not below the category, and a deletion has found all subcategories.  It *)
(* keeps until another call changes the tree.                                 *)
ParentsKnown(w) ==
    \A t \in w.refs : t[2] = "parent" => t[3] \in alive /\ t[1] \notin AboveIn(refs, t[3])

ChildrenKnown(w) ==
    \A u \in refs : u[2] = "parent" /\ u[3] \in w.rows => u[1] \in w.rows \/ u \in w.refs

TreeKnown(w) ==
    /\ w.op \in {"create", "update"} => ParentsKnown(w)
    /\ w.op = "delete" => ChildrenKnown(w)

(* As long as no two such calls have crossed, every parent exists and no      *)
(* category is above itself.                                                  *)
TreeInv ==
    ~crossed => /\ NoCycleIn(refs)
                /\ \A t \in refs : t[2] = "parent" => t[3] \in alive
                /\ \A c \in Clients : Busy(c) /\ ~call[c].moved => TreeKnown(call[c])

GraphInv ==
    /\ RowsTyped /\ CallsSound /\ ChecksHold
    /\ NoReferenceDangles
    /\ TreeInv

-----------------------------------------------------------------------------
(* The keys.  A key by which one row is deleted with another leads from a     *)
(* claim to its concept, or from a part to a claim or to what owns it.        *)
Owning(key) ==
    key.session = "delete"
    \/ (key.required /\ key.session # "loose" /\ key.field \notin {"published", "belongs_to"})

KeyOK(key) ==
    /\ key.session \in {"delete", "nullify", "leave", "loose"}
    /\ key.field = "parent" =>
         key.of = Categories /\ key.to = Categories /\ key.session = "nullify" /\ ~key.required
    /\ key.field = "relationship_type" => key.session = "loose"
    /\ Owning(key) => \/ key.of = Claims /\ key.to \subseteq Owners
                      \/ key.of \subseteq Parts /\ key.to \subseteq Owners \cup Claims

LEMMA KeysSound == \A key \in Keys : KeyOK(key)
<1>1. \A key \in ConceptReferences : KeyOK(key)
  BY DEF ConceptReferences, Key, KeyOK, Owning, Owners, Parts
<1>2. \A key \in CategoryReferences : KeyOK(key)
  BY DEF CategoryReferences, Key, KeyOK, Owning
<1>3. \A key \in TagReferences : KeyOK(key)
  BY DEF TagReferences, Key, KeyOK, Owning, Owners, Parts
<1>4. \A key \in EntityReferences : KeyOK(key)
  BY DEF EntityReferences, Key, KeyOK, Owning, Owners, Parts
<1>5. \A key \in EvidenceReferences : KeyOK(key)
  BY DEF EvidenceReferences, Key, KeyOK, Owning, Owners, Parts
<1>6. \A key \in SourceReferences : KeyOK(key)
  BY DEF SourceReferences, Key, KeyOK, Owning, Owners, Parts
<1>7. \A key \in ArticleReferences : KeyOK(key)
  BY DEF ArticleReferences, Key, KeyOK, Owning, Owners, Parts
<1>8. \A key \in ReviewReferences : KeyOK(key)
  BY DEF ReviewReferences, Key, KeyOK, Owning, Owners, Parts
<1> QED BY <1>1, <1>2, <1>3, <1>4, <1>5, <1>6, <1>7, <1>8 DEF Keys

LEMMA ReferenceSound ==
  ASSUME NEW f \in Fields
  PROVE  KeyOK(Reference[f]) /\ Reference[f].field = f
<1>1. PICK key \in Keys : key.field = f
  BY DEF Fields
<1>2. Reference[f] = CHOOSE k \in Keys : k.field = f
  BY DEF Reference
<1>3. Reference[f] \in Keys /\ Reference[f].field = f
  BY <1>1, <1>2
<1> QED BY <1>3, KeysSound

LEMMA ReferenceParts ==
  ASSUME NEW x \in Rows, NEW t \in Possible[x]
  PROVE  /\ t[1] = x
         /\ t[2] \in Fields /\ t[2] \in FieldsOf(x) /\ x \in Reference[t[2]].of
         /\ t[3] \in Rows /\ t[3] \in Reference[t[2]].to
<1>1. t \in {x} \X FieldsOf(x) \X Rows /\ t[3] \in Reference[t[2]].to
  BY DEF Possible
<1> QED BY <1>1 DEF FieldsOf

LEMMA ReferencesTyped ==
  ASSUME NEW t \in AllReferences
  PROVE  /\ t[1] \in Rows /\ t \in Possible[t[1]]
         /\ t[2] \in Fields /\ t[1] \in Reference[t[2]].of /\ t[3] \in Reference[t[2]].to
         /\ t[2] = "parent" => t[1] \in Categories /\ t[3] \in Categories
<1>1. PICK x \in Rows : t \in Possible[x]
  BY DEF AllReferences
<1>2. t[1] = x /\ t[2] \in Fields /\ x \in Reference[t[2]].of /\ t[3] \in Reference[t[2]].to
  BY <1>1, ReferenceParts
<1>3. KeyOK(Reference[t[2]]) /\ Reference[t[2]].field = t[2]
  BY <1>2, ReferenceSound
<1> QED BY <1>1, <1>2, <1>3 DEF KeyOK

LEMMA RefsTyped ==
  ASSUME RowsTyped
  PROVE  /\ refs \subseteq AllReferences
         /\ \A t \in refs : t[1] \in alive /\ t \in Possible[t[1]]
<1>1. refs \subseteq AllReferences
  BY DEF RowsTyped, AllReferences
<1>2. ASSUME NEW t \in refs PROVE t[1] \in alive /\ t \in Possible[t[1]]
  <2>1. PICK x \in alive : t \in Possible[x]
    BY DEF RowsTyped
  <2> QED BY <2>1, ReferenceParts DEF RowsTyped
<1> QED BY <1>1, <1>2

(* Following such keys twice finds all there is to find: what refers to a     *)
(* part refers by no such key.                                                *)
LEMMA TwoLevels ==
  ASSUME NEW r1 \in AllReferences, NEW r2 \in AllReferences, NEW r3 \in AllReferences,
         Owning(Reference[r1[2]]), Owning(Reference[r2[2]]), Owning(Reference[r3[2]]),
         r2[3] = r1[1], r3[3] = r2[1]
  PROVE  FALSE
<1>1. \A r \in {r1, r2, r3} :
        \/ r[1] \in Claims /\ r[3] \in Owners
        \/ r[1] \in Parts /\ r[3] \in Owners \cup Claims
  <2> SUFFICES ASSUME NEW r \in {r1, r2, r3}
               PROVE  \/ r[1] \in Claims /\ r[3] \in Owners
                      \/ r[1] \in Parts /\ r[3] \in Owners \cup Claims
    OBVIOUS
  <2>1. r[2] \in Fields /\ r[1] \in Reference[r[2]].of /\ r[3] \in Reference[r[2]].to
    BY ReferencesTyped
  <2>2. KeyOK(Reference[r[2]]) /\ Owning(Reference[r[2]])
    BY <2>1, ReferenceSound
  <2> QED BY <2>1, <2>2 DEF KeyOK
<1> QED BY <1>1, TablesAssumption

LEMMA DependentsClosed ==
  ASSUME RowsTyped, NEW S, NEW u \in refs, u[3] \in Dependents(S), Reference[u[2]].session = "delete"
  PROVE  u[1] \in Dependents(S)
<1>1. CASE u[3] \in WithChildren(S)
  BY <1>1 DEF Dependents, WithChildren
<1>2. CASE u[3] \notin WithChildren(S)
  <2>1. PICK t \in refs : t[3] \in WithChildren(S) /\ Reference[t[2]].session = "delete" /\ t[1] = u[3]
    BY <1>2 DEF Dependents, WithChildren
  <2>2. t[3] \notin S
    BY <1>2, <2>1 DEF WithChildren
  <2>3. PICK s \in refs : s[3] \in S /\ Reference[s[2]].session = "delete" /\ s[1] = t[3]
    BY <2>1, <2>2 DEF WithChildren
  <2>4. s \in AllReferences /\ t \in AllReferences /\ u \in AllReferences
    BY RefsTyped
  <2>5. Owning(Reference[s[2]]) /\ Owning(Reference[t[2]]) /\ Owning(Reference[u[2]])
    BY <2>1, <2>3 DEF Owning
  <2> QED BY <2>1, <2>3, <2>4, <2>5, TwoLevels
<1> QED BY <1>1, <1>2

LEMMA DependentsAlive ==
  ASSUME RowsTyped, NEW x \in alive
  PROVE  Dependents({x}) \subseteq alive /\ x \in Dependents({x})
BY RefsTyped DEF Dependents, WithChildren

Cascading(u) == Reference[u[2]].required /\ ~Loose(u) /\ ~Restricted(u)

LEMMA CascadingOwns ==
  ASSUME NEW u \in AllReferences, Cascading(u)
  PROVE  Owning(Reference[u[2]])
<1>1. u[2] \in Fields
  BY ReferencesTyped
<1>2. Reference[u[2]].field = u[2]
  BY <1>1, ReferenceSound
<1> QED BY <1>2 DEF Cascading, Owning, Loose, Restricted

LEMMA CascadeClosed ==
  ASSUME RowsTyped, NEW S, NEW u \in refs, u[3] \in Cascade(S), Cascading(u)
  PROVE  u[1] \in Cascade(S)
<1>1. CASE u[3] \in WithReferring(S)
  BY <1>1 DEF Cascade, WithReferring, Cascading
<1>2. CASE u[3] \notin WithReferring(S)
  <2>1. PICK t \in refs : t[3] \in WithReferring(S) /\ Cascading(t) /\ t[1] = u[3]
    BY <1>2 DEF Cascade, WithReferring, Cascading
  <2>2. t[3] \notin S
    BY <1>2, <2>1 DEF WithReferring, Cascading
  <2>3. PICK s \in refs : s[3] \in S /\ Cascading(s) /\ s[1] = t[3]
    BY <2>1, <2>2 DEF WithReferring, Cascading
  <2>4. s \in AllReferences /\ t \in AllReferences /\ u \in AllReferences
    BY RefsTyped
  <2>5. Owning(Reference[s[2]]) /\ Owning(Reference[t[2]]) /\ Owning(Reference[u[2]])
    BY <2>1, <2>3, <2>4, CascadingOwns
  <2> QED BY <2>1, <2>3, <2>4, <2>5, TwoLevels
<1> QED BY <1>1, <1>2

(* No category goes with what it is not below: its only key may be null.       *)
LEMMA CascadeSparesCategories ==
  ASSUME RowsTyped, NEW S, NEW x \in Cascade(S), x \in Categories
  PROVE  x \in S
<1>1. ASSUME NEW u \in refs, Cascading(u) PROVE u[1] \notin Categories
  <2>1. u \in AllReferences
    BY RefsTyped
  <2>2. KeyOK(Reference[u[2]]) /\ Owning(Reference[u[2]]) /\ u[1] \in Reference[u[2]].of
    BY <1>1, <2>1, CascadingOwns, ReferencesTyped, ReferenceSound
  <2> QED BY <2>2, TablesAssumption DEF KeyOK
<1> QED BY <1>1 DEF Cascade, WithReferring, Cascading

-----------------------------------------------------------------------------
(* The walk up from a category, as a set that is closed under parents.        *)
Between(rs) == \A t \in rs : t[2] = "parent" => t[1] \in Categories /\ t[3] \in Categories

LEMMA AboveClosed ==
  ASSUME NEW rs, Between(rs), NEW p \in Categories
  PROVE  p \in AboveIn(rs, p) /\ ParentIn(rs, AboveIn(rs, p)) \subseteq AboveIn(rs, p)
<1>1. p \in AboveIn(rs, p)
  BY DEF AboveIn
<1>2. ASSUME NEW q \in ParentIn(rs, AboveIn(rs, p)) PROVE q \in AboveIn(rs, p)
  <2>1. PICK t \in rs : t[1] \in AboveIn(rs, p) /\ t[2] = "parent" /\ t[3] = q
    BY <1>2 DEF ParentIn
  <2>2. q \in Categories
    BY <2>1 DEF Between
  <2>3. SUFFICES ASSUME NEW S \in SUBSET Categories, p \in S, ParentIn(rs, S) \subseteq S PROVE q \in S
    BY <2>2 DEF AboveIn
  <2>4. t[1] \in S
    BY <2>1, <2>3 DEF AboveIn
  <2> QED BY <2>1, <2>3, <2>4 DEF ParentIn
<1> QED BY <1>1, <1>2

LEMMA AboveLeast ==
  ASSUME NEW rs, NEW p, NEW S \in SUBSET Categories, p \in S, ParentIn(rs, S) \subseteq S
  PROVE  AboveIn(rs, p) \subseteq S
BY DEF AboveIn

(* With fewer references there is less above a category, and no new cycle.    *)
LEMMA FewerAbove ==
  ASSUME NEW rs, NEW fewer, \A t \in fewer : t[2] = "parent" => t \in rs
  PROVE  /\ \A S : ParentIn(fewer, S) \subseteq ParentIn(rs, S)
         /\ \A u : AboveIn(fewer, u) \subseteq AboveIn(rs, u)
<1>1. \A S : ParentIn(fewer, S) \subseteq ParentIn(rs, S)
  BY DEF ParentIn
<1> QED BY <1>1 DEF AboveIn

LEMMA FewerParents ==
  ASSUME NEW rs, NEW fewer, NoCycleIn(rs),
         \A t \in fewer : t[2] = "parent" => t \in rs
  PROVE  NoCycleIn(fewer)
BY FewerAbove DEF NoCycleIn

(* A category that is not above its new parent closes no cycle: what is above *)
(* the parent is closed under parents, and the category is outside.           *)
LEMMA ParentClosesNoCycle ==
  ASSUME NEW rs, Between(rs), NoCycleIn(rs),
         NEW new, NEW x, NEW p \in Categories, x \notin AboveIn(rs, p),
         \A t \in new : t[2] = "parent" => t \in rs \/ (t[1] = x /\ t[3] = p)
  PROVE  NoCycleIn(new)
<1> SUFFICES ASSUME NEW q \in Categories, NEW u \in Categories, u \in ParentIn(new, {q})
             PROVE  q \notin AboveIn(new, u)
  BY DEF NoCycleIn
<1> DEFINE A == AboveIn(rs, p)
           B == AboveIn(rs, u)
<1>0. A \in SUBSET Categories /\ B \in SUBSET Categories
  BY DEF AboveIn
<1>1. A \in SUBSET Categories /\ p \in A /\ ParentIn(rs, A) \subseteq A
  BY <1>0, AboveClosed
<1>2. B \in SUBSET Categories /\ u \in B /\ ParentIn(rs, B) \subseteq B
  BY <1>0, AboveClosed
<1>3. (q = x /\ u = p) \/ u \in ParentIn(rs, {q})
  BY DEF ParentIn
<1>4. u \in ParentIn(rs, {q}) => q \notin B
  BY DEF NoCycleIn
<1> HIDE DEF A, B
<1>5. CASE q \in A
  <2>1. u \in ParentIn(rs, {q})
    BY <1>3, <1>5 DEF A
  <2>2. u \in A
    BY <1>1, <1>5, <2>1 DEF ParentIn
  <2>3. B \subseteq A
    BY <1>1, <2>2, AboveLeast DEF B
  <2>4. ParentIn(new, B) \subseteq B
    BY <1>2, <2>3 DEF ParentIn, A
  <2> QED BY <1>2, <1>4, <2>1, <2>4, AboveLeast
<1>6. CASE q \notin A /\ q # x
  <2>1. ParentIn(new, A \cup B) \subseteq A \cup B
    BY <1>1, <1>2 DEF ParentIn
  <2>2. u \in ParentIn(rs, {q})
    BY <1>3, <1>6
  <2> QED BY <1>1, <1>2, <1>4, <1>6, <2>1, <2>2, AboveLeast
<1>7. CASE q = x /\ u = p
  <2>1. ParentIn(new, A) \subseteq A
    BY <1>1 DEF ParentIn, A
  <2> QED BY <1>1, <1>7, <2>1, AboveLeast DEF A
<1>8. CASE q = x /\ u \in ParentIn(rs, {q})
  <2>1. ParentIn(new, A \cup B) \subseteq A \cup B
    BY <1>1, <1>2 DEF ParentIn
  <2>2. q \notin A \cup B
    BY <1>4, <1>8 DEF A
  <2> QED BY <1>1, <1>2, <2>1, <2>2, AboveLeast
<1> QED BY <1>3, <1>5, <1>6, <1>7, <1>8

LEMMA AboveIs ==
  ASSUME \A t \in refs : t[2] = "parent" => t[3] \in alive
  PROVE  /\ \A S : ParentOf(S) = ParentIn(refs, S)
         /\ \A p : Above(p) = AboveIn(refs, p)
<1>1. \A S : ParentOf(S) = ParentIn(refs, S)
  BY DEF ParentOf, ParentIn
<1> QED BY <1>1 DEF Above, AboveIn

LEMMA RefsBetween ==
  ASSUME RowsTyped
  PROVE  Between(refs)
BY RefsTyped, ReferencesTyped DEF Between

-----------------------------------------------------------------------------
(* A call that begins: what it is about to do is sound, and its checks hold.  *)
LEMMA BeginKeeps ==
  ASSUME GraphInv, NEW c \in Clients, NEW what, Begin(c, what),
         CallSound(what), Fresh(what), ~crossed => TreeKnown(what),
         what.op = "create" => \A d \in Clients : Busy(d) => what.rows \cap call[d].rows = {}
  PROVE  GraphInv'
<1>1. /\ UNCHANGED <<slice, enforced, alive, refs, retired, raced, crossed>>
      /\ call' = [call EXCEPT ![c] = what]
      /\ ~Busy(c)
  BY DEF Begin
<1>2. call = [d \in Clients |-> call[d]]
  BY DEF GraphInv, RowsTyped
<1>3. call'[c] = what /\ (\A d \in Clients \ {c} : call'[d] = call[d])
      /\ call' = [d \in Clients |-> call'[d]]
  BY <1>1, <1>2
<1>4. overlaps' \in 0..MaxOverlaps
  BY OverlapsAssumption DEF Begin, GraphInv, RowsTyped
<1>5. RowsTyped'
  BY <1>1, <1>3, <1>4 DEF GraphInv, RowsTyped
<1>6. \A d \in Clients : Busy(d)' => d = c \/ (Busy(d) /\ call'[d] = call[d])
  BY <1>3 DEF Busy
<1>7. CallsSound'
  <2>1. ASSUME NEW d \in Clients, Busy(d)'
        PROVE  CallSound(call[d])'
    <3>1. PICK w : w = call'[d]
      OBVIOUS
    <3>2. CallSound(w)
      BY <1>3, <1>6, <2>1, <3>1 DEF GraphInv, CallsSound
    <3> QED BY <1>1, <3>1, <3>2 DEF CallSound, Writes, Creates, Updates, Replaces
  <2>2. ASSUME NEW d \in Clients, NEW e \in Clients, d # e, Busy(d)', Busy(e)',
               call'[d].op = "create", call'[e].op = "create"
        PROVE  call'[d].rows \cap call'[e].rows = {}
    <3>1. CASE d = c
      BY <1>3, <1>6, <2>2, <3>1
    <3>2. CASE e = c
      BY <1>3, <1>6, <2>2, <3>2
    <3>3. CASE d # c /\ e # c
      BY <1>6, <2>2, <3>3 DEF GraphInv, CallsSound
    <3> QED BY <3>1, <3>2, <3>3
  <2> QED BY <2>1, <2>2 DEF CallsSound
<1>8. ChecksHold'
  <2> SUFFICES ASSUME NEW d \in Clients, Busy(d)', ~call'[d].stale
               PROVE  Fresh(call[d])'
    BY DEF ChecksHold
  <2>1. PICK w : w = call'[d]
    OBVIOUS
  <2>2. Fresh(w)
    BY <1>3, <1>6, <2>1 DEF GraphInv, ChecksHold
  <2> QED BY <1>1, <2>1, <2>2 DEF Fresh, FreshWrite, FreshDelete
<1>9. NoReferenceDangles'
  BY <1>1 DEF GraphInv, NoReferenceDangles, Loose
<1>10. TreeInv'
  <2>1. ASSUME ~crossed, NEW d \in Clients, Busy(d)', ~call'[d].moved
        PROVE  TreeKnown(call[d])'
    <3>1. PICK w : w = call'[d]
      OBVIOUS
    <3>2. TreeKnown(w)
      BY <1>3, <1>6, <2>1, <3>1 DEF GraphInv, TreeInv
    <3> QED BY <1>1, <3>1, <3>2 DEF TreeKnown, ParentsKnown, ChildrenKnown
  <2> QED BY <1>1, <2>1 DEF GraphInv, TreeInv
<1> QED BY <1>5, <1>7, <1>8, <1>9, <1>10 DEF GraphInv

(* The reference fields of a row, as the row may have them.                   *)
LEMMA OwnReferences ==
  ASSUME RowsTyped, NEW x \in alive
  PROVE  {t \in refs : t[1] = x} \in SUBSET Possible[x] /\ Complete(x, {t \in refs : t[1] = x})
BY RefsTyped DEF RowsTyped

LEMMA ChoiceOf ==
  ASSUME NEW x \in Rows, NEW new \in Choices[x]
  PROVE  new \in SUBSET Possible[x] /\ Complete(x, new) /\ new \in SUBSET AllReferences
<1>1. new \in SUBSET Possible[x] /\ Complete(x, new)
  BY DEF Choices
<1> QED BY <1>1 DEF AllReferences

(* What is allowed are references to rows that are there, and parents that    *)
(* are not below the row.                                                     *)
LEMMA AllowedIsFresh ==
  ASSUME NEW x \in Rows, NEW new \in Choices[x], Allowed(x, new), NEW t \in new
  PROVE  /\ t[3] \in alive \/ t[2] = "relationship_type"
         /\ t[2] = "parent" => t[3] \in alive /\ t[1] \notin Above(t[3])
<1>1. t \in Possible[x]
  BY ChoiceOf
<1>2. t[1] = x
  BY <1>1, ReferenceParts
<1> QED BY <1>2 DEF Allowed, ParentAllowed

LEMMA CreateStep ==
  ASSUME GraphInv, NEW c \in Clients, NEW table \in SUBSET Rows, BeginCreate(c, table)
  PROVE  GraphInv'
<1>0. PICK x \in (table \cap slice) \ (alive \cup retired) : \E new \in Choices[x] :
        /\ \A d \in Clients : Busy(d) => x \notin call[d].rows
        /\ Allowed(x, new)
        /\ Begin(c, [op |-> "create", rows |-> {x}, refs |-> new, over |-> {}, stale |-> FALSE, moved |-> FALSE])
  BY DEF BeginCreate
<1>1. PICK new \in Choices[x] :
        /\ \A d \in Clients : Busy(d) => x \notin call[d].rows
        /\ Allowed(x, new)
        /\ Begin(c, [op |-> "create", rows |-> {x}, refs |-> new, over |-> {}, stale |-> FALSE, moved |-> FALSE])
  BY <1>0
<1>2. PICK what : what = [op |-> "create", rows |-> {x}, refs |-> new, over |-> {}, stale |-> FALSE, moved |-> FALSE]
  OBVIOUS
<1>3. x \in Rows /\ new \in SUBSET Possible[x] /\ Complete(x, new) /\ new \in SUBSET AllReferences
  BY <1>1, ChoiceOf
<1>4. /\ what.op = "create" /\ what.rows = {x} /\ what.refs = new /\ what.over = {}
      /\ what \in Work
  BY <1>2, <1>3 DEF Work
<1>5. Writes(what, x)
  BY <1>1, <1>3, <1>4 DEF Writes, Creates, Complete
<1>6. CallSound(what)
  BY <1>3, <1>4, <1>5 DEF CallSound
<1>7. Fresh(what)
  BY <1>1, <1>3, <1>4, AllowedIsFresh DEF Fresh, FreshWrite
<1>8. ~crossed => TreeKnown(what)
  BY <1>1, <1>3, <1>4, AllowedIsFresh, AboveIs DEF TreeKnown, ParentsKnown, GraphInv, TreeInv
<1> QED BY <1>1, <1>2, <1>4, <1>6, <1>7, <1>8, BeginKeeps

(* Only the fields that differ are written: where the row has them still, it  *)
(* gets what was asked for, and where not, it keeps one target for each.      *)
LEMMA UpdateIsComplete ==
  ASSUME NEW x \in Rows, NEW now \in SUBSET Possible[x], NEW new \in SUBSET Possible[x],
         Complete(x, now), Complete(x, new),
         NEW over, \A f : f \in over <=> \E t \in (new \ now) \cup (now \ new) : t[2] = f,
         NEW old \in SUBSET Possible[x], Complete(x, old)
  PROVE  Complete(x, {t \in old : t[2] \notin over} \cup (new \ now))
<1> DEFINE all == {t \in old : t[2] \notin over} \cup (new \ now)
<1>1. \A t \in new \ now : t[2] \in over
  OBVIOUS
<1>2. ASSUME NEW t \in all, NEW u \in all, t[2] = u[2] PROVE t = u
  BY <1>1, <1>2 DEF Complete
<1>3. ASSUME NEW f \in FieldsOf(x), Reference[f].required PROVE \E t \in all : t[2] = f
  <2>1. CASE f \notin over
    <3>1. PICK t \in old : t[2] = f
      BY <1>3 DEF Complete
    <3> QED BY <2>1, <3>1
  <2>2. CASE f \in over
    <3>1. PICK t \in new : t[2] = f
      BY <1>3 DEF Complete
    <3>2. PICK u \in (new \ now) \cup (now \ new) : u[2] = f
      BY <2>2
    <3>3. t \notin now
      BY <3>1, <3>2 DEF Complete
    <3> QED BY <3>1, <3>3
  <2> QED BY <2>1, <2>2
<1> HIDE DEF all
<1>4. Complete(x, all)
  BY <1>2, <1>3 DEF Complete
<1> QED BY <1>4 DEF all

LEMMA UpdateStep ==
  ASSUME GraphInv, NEW c \in Clients, NEW table \in SUBSET Rows, BeginUpdate(c, table)
  PROVE  GraphInv'
<1>0. PICK x \in alive \cap table : \E new \in Choices[x] :
        LET now == {t \in refs : t[1] = x} IN
        /\ Allowed(x, new)
        /\ Begin(c, [op |-> "update", rows |-> {x}, refs |-> new \ now,
                     over |-> {t[2] : t \in (new \ now) \cup (now \ new)},
                     stale |-> FALSE, moved |-> FALSE])
  BY DEF BeginUpdate
<1>1. PICK new \in Choices[x] :
        LET now == {t \in refs : t[1] = x} IN
        /\ Allowed(x, new)
        /\ Begin(c, [op |-> "update", rows |-> {x}, refs |-> new \ now,
                     over |-> {t[2] : t \in (new \ now) \cup (now \ new)},
                     stale |-> FALSE, moved |-> FALSE])
  BY <1>0
<1>2. x \in Rows /\ new \in SUBSET Possible[x] /\ Complete(x, new) /\ new \in SUBSET AllReferences
  BY <1>1, ChoiceOf
<1>3. PICK now : now = {t \in refs : t[1] = x}
  OBVIOUS
<1>4. now \in SUBSET Possible[x] /\ Complete(x, now)
  BY <1>1, <1>3, OwnReferences DEF GraphInv
<1>5. PICK over : over = {t[2] : t \in (new \ now) \cup (now \ new)}
  OBVIOUS
<1>6. over \in SUBSET Fields
  <2>1. \A t \in new \cup now : t[2] \in Fields
    BY <1>2, <1>4, ReferenceParts
  <2> QED BY <1>5, <2>1
<1>7. PICK what : what = [op |-> "update", rows |-> {x}, refs |-> new \ now, over |-> over,
                          stale |-> FALSE, moved |-> FALSE]
  OBVIOUS
<1>8. /\ what.op = "update" /\ what.rows = {x} /\ what.refs = new \ now /\ what.over = over
      /\ what \in Work
  BY <1>2, <1>6, <1>7 DEF Work
<1>9. Updates(what, x)
  <2> SUFFICES ASSUME NEW old \in SUBSET Possible[x], Complete(x, old)
               PROVE  Complete(x, Replaces(what, old))
    BY DEF Updates
  <2>1. Replaces(what, old) = {t \in old : t[2] \notin over} \cup (new \ now)
    BY <1>8 DEF Replaces
  <2>2. \A f : f \in over <=> \E t \in (new \ now) \cup (now \ new) : t[2] = f
    BY <1>5
  <2>3. Complete(x, {t \in old : t[2] \notin over} \cup (new \ now))
    BY <1>2, <1>4, <2>2, UpdateIsComplete
  <2> QED BY <2>1, <2>3
<1>10. Writes(what, x)
  BY <1>2, <1>8, <1>9 DEF Writes, Complete
<1>11. CallSound(what)
  BY <1>2, <1>8, <1>10 DEF CallSound
<1>12. Fresh(what)
  BY <1>1, <1>2, <1>8, AllowedIsFresh DEF Fresh, FreshWrite
<1>13. ~crossed => TreeKnown(what)
  BY <1>1, <1>2, <1>8, AllowedIsFresh, AboveIs DEF TreeKnown, ParentsKnown, GraphInv, TreeInv
<1>14. Begin(c, what)
  BY <1>1, <1>3, <1>5, <1>7
<1> QED BY <1>8, <1>11, <1>12, <1>13, <1>14, BeginKeeps

LEMMA DeleteStep ==
  ASSUME GraphInv, NEW c \in Clients, NEW table \in SUBSET Rows, BeginDelete(c, table)
  PROVE  GraphInv'
<1>1. PICK x \in alive \cap table :
        LET gone == Dependents({x}) IN
        Begin(c, [op |-> "delete", rows |-> gone, over |-> {}, stale |-> FALSE, moved |-> FALSE,
                  refs |-> {t \in refs : /\ t[3] \in gone /\ t[1] \notin gone
                                         /\ Reference[t[2]].session = "nullify"}])
  BY DEF BeginDelete
<1>2. RowsTyped
  BY DEF GraphInv
<1>3. PICK gone : gone = Dependents({x})
  OBVIOUS
<1>4. gone \subseteq alive /\ gone \subseteq Rows
  BY <1>2, <1>3, DependentsAlive DEF RowsTyped
<1>5. PICK nulls : nulls = {t \in refs : /\ t[3] \in gone /\ t[1] \notin gone
                                         /\ Reference[t[2]].session = "nullify"}
  OBVIOUS
<1>6. nulls \in SUBSET AllReferences
  BY <1>2, <1>5, RefsTyped
<1>7. PICK what : what = [op |-> "delete", rows |-> gone, over |-> {}, stale |-> FALSE, moved |-> FALSE, refs |-> nulls]
  OBVIOUS
<1>8. what.op = "delete" /\ what.rows = gone /\ what.refs = nulls /\ what \in Work
  BY <1>4, <1>6, <1>7 DEF Work
<1>9. CallSound(what)
  BY <1>8 DEF CallSound
<1>10. Fresh(what)
  BY <1>2, <1>3, <1>5, <1>8, DependentsClosed DEF Fresh, FreshDelete
<1>11. Begin(c, what)
  BY <1>1, <1>3, <1>5, <1>7
<1>12. TreeKnown(what)
  <2>1. \A u \in refs : u[2] = "parent" => Reference[u[2]].session = "nullify"
    BY <1>2, RefsTyped, ReferencesTyped, ReferenceSound DEF KeyOK
  <2> QED BY <1>5, <1>8, <2>1 DEF TreeKnown, ChildrenKnown
<1> QED BY <1>8, <1>9, <1>10, <1>11, <1>12, BeginKeeps

-----------------------------------------------------------------------------
(* A call that commits: those in progress keep what they are about to do, and *)
(* nothing is expected of their checks any more.                              *)
LEMMA CommitKeeps ==
  ASSUME GraphInv, NEW c \in Clients, NEW left, NEW rs, Commit(c, left, rs),
         left \subseteq slice, left \subseteq Rows,
         rs \subseteq UNION {Possible[x] : x \in left},
         \A x \in left : Complete(x, {t \in rs : t[1] = x}),
         \A d \in Clients : d # c /\ Busy(d) /\ call[d].op = "create" => call[d].rows \cap left = {},
         NoReferenceDangles',
         ~crossed' => /\ NoCycleIn(rs)
                      /\ \A t \in rs : t[2] = "parent" => t[3] \in left,
         ~crossed' /\ ~ChangesTheTree(call[c]) =>
           /\ Categories \cap alive \subseteq left
           /\ \A t \in rs : t[2] = "parent" => t \in refs
  PROVE  GraphInv'
<1>1. /\ alive' = left /\ refs' = rs
      /\ UNCHANGED <<slice, enforced, overlaps>>
      /\ raced' = (raced \/ call[c].stale)
      /\ crossed' = (crossed \/ (call[c].moved /\ ChangesTheTree(call[c])))
      /\ call' = [d \in Clients |-> IF d = c \/ ~Busy(d) THEN Idle
                                   ELSE [call[d] EXCEPT !.stale = TRUE,
                                                        !.moved = @ \/ ChangesTheTree(call[c])]]
  BY DEF Commit
<1>2. RowsTyped'
  <2>1. raced' \in BOOLEAN /\ crossed' \in BOOLEAN
    BY <1>1
  <2>2. call' = [d \in Clients |-> call'[d]]
    BY <1>1
  <2> QED BY <1>1, <2>1, <2>2 DEF GraphInv, RowsTyped
<1>3. ASSUME NEW d \in Clients, Busy(d)'
      PROVE  /\ d # c /\ Busy(d) /\ CallSound(call[d])
             /\ call'[d] = [call[d] EXCEPT !.stale = TRUE, !.moved = @ \/ ChangesTheTree(call[c])]
  BY <1>1, <1>3 DEF Busy, GraphInv, CallsSound
<1>4. ASSUME NEW d \in Clients, Busy(d)'
      PROVE  /\ call'[d] \in Work /\ call'[d].stale
             /\ call'[d].op = call[d].op /\ call'[d].rows = call[d].rows
             /\ call'[d].refs = call[d].refs /\ call'[d].over = call[d].over
             /\ call'[d].moved = (call[d].moved \/ ChangesTheTree(call[c]))
  <2>1. PICK old : old = call[d]
    OBVIOUS
  <2>2. PICK turned \in BOOLEAN : turned = (old.moved \/ ChangesTheTree(call[c]))
    OBVIOUS
  <2>3. PICK new : new = [old EXCEPT !.stale = TRUE, !.moved = turned]
    OBVIOUS
  <2>4. old \in Work
    BY <1>3, <1>4, <2>1 DEF CallSound
  <2>5. new \in Work /\ new.stale = TRUE /\ new.op = old.op /\ new.rows = old.rows
        /\ new.refs = old.refs /\ new.over = old.over /\ new.moved = turned
    BY <2>3, <2>4 DEF Work
  <2>6. call'[d] = new
    BY <1>3, <1>4, <2>1, <2>2, <2>3
  <2> QED BY <2>1, <2>2, <2>5, <2>6
<1>5. CallsSound'
  <2>1. ASSUME NEW d \in Clients, Busy(d)'
        PROVE  CallSound(call[d])'
    <3>1. PICK old : old = call[d]
      OBVIOUS
    <3>2. PICK new : new = call'[d]
      OBVIOUS
    <3>3. CallSound(old) /\ new \in Work /\ new.op = old.op /\ new.rows = old.rows
          /\ new.refs = old.refs /\ new.over = old.over
      BY <1>3, <1>4, <2>1, <3>1, <3>2
    <3>4. old.op = "create" => old.rows \cap left = {}
      BY <1>3, <2>1, <3>1
    <3>5. ASSUME NEW x \in Rows, Writes(old, x)
          PROVE  /\ new.rows = {x} /\ new.refs \subseteq Possible[x]
                 /\ \A t, u \in new.refs : t[2] = u[2] => t = u
                 /\ new.op = "create" => x \in slice /\ x \notin left /\ new.over = {} /\ Complete(x, new.refs)
                 /\ new.op = "update" => Updates(new, x)
      <4>1. new.op = "update" => Updates(new, x)
        BY <3>3, <3>5 DEF Writes, Updates, Replaces
      <4> QED BY <3>3, <3>4, <3>5, <4>1 DEF Writes, Creates
    <3>6. new.op \in {"create", "update"} => \E x \in Rows : Writes(old, x)
      BY <3>3 DEF CallSound
    <3>7. new.op \in {"create", "update"} => \E x \in Rows : Writes(new, x)'
      <4>1. \A x \in Rows : Writes(old, x) => Writes(new, x)'
        BY <1>1, <3>5 DEF Writes, Creates, Updates, Replaces
      <4> QED BY <3>3, <3>6, <4>1
    <3> QED BY <3>2, <3>3, <3>7 DEF CallSound, Writes, Creates, Updates, Replaces
  <2>2. ASSUME NEW d \in Clients, NEW e \in Clients, d # e, Busy(d)', Busy(e)',
               call'[d].op = "create", call'[e].op = "create"
        PROVE  call'[d].rows \cap call'[e].rows = {}
    BY <1>3, <1>4, <2>2 DEF GraphInv, CallsSound
  <2> QED BY <2>1, <2>2 DEF CallsSound
<1>6. ChecksHold'
  BY <1>4 DEF ChecksHold
<1>7. ASSUME ~crossed', NEW d \in Clients, Busy(d)', ~call'[d].moved
      PROVE  TreeKnown(call[d])'
  <2>1. PICK old : old = call[d]
    OBVIOUS
  <2>2. PICK new : new = call'[d]
    OBVIOUS
  <2>3. ~crossed /\ ~ChangesTheTree(call[c]) /\ ~old.moved
    BY <1>1, <1>4, <1>7, <2>1
  <2>4. TreeKnown(old) /\ CallSound(old) /\ new.op = old.op /\ new.rows = old.rows /\ new.refs = old.refs
    BY <1>3, <1>4, <1>7, <2>1, <2>2, <2>3 DEF GraphInv, TreeInv
  <2>5. /\ Categories \cap alive \subseteq left
        /\ \A t \in rs : t[2] = "parent" => t \in refs
    BY <1>7, <2>3
  <2>6. ASSUME NEW t \in new.refs, t[2] = "parent", new.op \in {"create", "update"}
        PROVE  t[3] \in left /\ t[1] \notin AboveIn(rs, t[3])
    <3>1. t[3] \in alive /\ t[1] \notin AboveIn(refs, t[3])
      BY <2>4, <2>6 DEF TreeKnown, ParentsKnown
    <3>2. t[3] \in Categories
      BY <2>4, <2>6, ReferencesTyped DEF CallSound, Work
    <3>3. AboveIn(rs, t[3]) \subseteq AboveIn(refs, t[3])
      BY <2>5, FewerAbove
    <3> QED BY <2>5, <3>1, <3>2, <3>3
  <2>7. ASSUME NEW u \in rs, u[2] = "parent", u[3] \in new.rows, new.op = "delete"
        PROVE  u[1] \in new.rows \/ u \in new.refs
    BY <2>4, <2>5, <2>7 DEF TreeKnown, ChildrenKnown
  <2> QED BY <1>1, <2>2, <2>6, <2>7 DEF TreeKnown, ParentsKnown, ChildrenKnown
<1>8. TreeInv'
  BY <1>1, <1>7 DEF TreeInv
<1> QED BY <1>1, <1>2, <1>5, <1>6, <1>8 DEF GraphInv

LEMMA WriteStep ==
  ASSUME GraphInv, NEW c \in Clients, CommitWrite(c)
  PROVE  GraphInv'
<1>1. PICK w : w = call[c]
  OBVIOUS
<1>2. Busy(c) /\ w.op \in {"create", "update"} /\ Accepted(w) /\ CallSound(w)
  BY <1>1 DEF CommitWrite, GraphInv, CallsSound
<1>3. PICK x \in Rows : Writes(w, x)
  BY <1>2 DEF CallSound
<1>4. w.rows = {x} /\ w.refs \subseteq Possible[x]
  BY <1>3 DEF Writes
<1>5. w.op = "update" => x \in alive
  <2>1. x = CHOOSE y \in w.rows : TRUE
    BY <1>4
  <2> QED BY <1>2, <2>1 DEF Accepted
<1>6. w.op = "create" => Creates(w, x)
  BY <1>3 DEF Writes
<1>7. PICK left : left = alive \cup {x}
  OBVIOUS
<1>8. PICK rs : rs = {t \in refs : ~(t[1] = x /\ t[2] \in w.over)} \cup w.refs
  OBVIOUS
<1>9. Target(w) = rs
  BY <1>4, <1>8 DEF Target
<1>10. Commit(c, left, rs)
  BY <1>1, <1>4, <1>7, <1>9 DEF CommitWrite
<1>11. /\ alive' = left /\ refs' = rs /\ enforced' = enforced /\ raced' = (raced \/ w.stale)
      /\ crossed' = (crossed \/ (w.moved /\ ChangesTheTree(w)))
  BY <1>1, <1>10 DEF Commit
<1>12. RowsTyped
  BY DEF GraphInv
<1>13. left \subseteq slice /\ left \subseteq Rows
  BY <1>2, <1>5, <1>6, <1>7, <1>12 DEF RowsTyped, Creates
<1>14. rs \subseteq UNION {Possible[y] : y \in left}
  BY <1>4, <1>7, <1>8, <1>12 DEF RowsTyped
<1>15. \A t \in w.refs : t[1] = x
  BY <1>4, ReferenceParts
<1>16. ASSUME NEW y \in left
       PROVE  Complete(y, {t \in rs : t[1] = y})
  <2>1. CASE y # x
    <3>1. {t \in rs : t[1] = y} = {t \in refs : t[1] = y}
      BY <1>8, <1>15, <2>1
    <3> QED BY <1>7, <1>12, <1>16, <2>1, <3>1 DEF RowsTyped
  <2>2. CASE y = x /\ w.op = "create"
    <3>1. \A t \in refs : t[1] # x
      BY <1>6, <1>12, <2>2, RefsTyped DEF Creates
    <3>2. {t \in rs : t[1] = y} = w.refs
      BY <1>8, <1>15, <2>2, <3>1
    <3> QED BY <1>6, <2>2, <3>2 DEF Creates
  <2>3. CASE y = x /\ w.op = "update"
    <3>1. PICK old : old = {t \in refs : t[1] = x}
      OBVIOUS
    <3>2. old \in SUBSET Possible[x] /\ Complete(x, old)
      BY <1>5, <1>12, <2>3, <3>1, OwnReferences
    <3>3. {t \in rs : t[1] = y} = Replaces(w, old)
      BY <1>8, <1>15, <2>3, <3>1 DEF Replaces
    <3> QED BY <1>3, <2>3, <3>2, <3>3 DEF Writes, Updates
  <2> QED BY <1>2, <2>1, <2>2, <2>3
<1>17. ASSUME NEW d \in Clients, d # c, Busy(d), call[d].op = "create"
       PROVE  call[d].rows \cap left = {}
  <2>1. PICK y \in Rows : call[d].rows = {y} /\ y \notin alive
    BY <1>17 DEF GraphInv, CallsSound, CallSound, Writes, Creates
  <2>2. w.op = "create" => y # x
    BY <1>1, <1>2, <1>4, <1>17, <2>1 DEF GraphInv, CallsSound
  <2> QED BY <1>2, <1>5, <1>7, <2>1, <2>2
<1>18. ~w.stale => FreshWrite(w)
  BY <1>1, <1>2 DEF GraphInv, ChecksHold, Fresh
<1>19. NoReferenceDangles'
  <2> SUFFICES ASSUME NEW t \in rs
               PROVE  \/ t[3] \in left \/ Loose(t)
                      \/ ~enforced /\ (raced' \/ Reference[t[2]].session = "leave")
    BY <1>11 DEF NoReferenceDangles, Loose
  <2>1. CASE t \in refs
    BY <1>7, <1>11, <2>1 DEF GraphInv, NoReferenceDangles
  <2>2. CASE t \in w.refs
    <3>1. enforced => t[3] \in alive \/ Loose(t)
      BY <1>2, <2>2 DEF Accepted
    <3>2. ~w.stale => t[3] \in alive \/ Loose(t)
      <4>1. t \in AllReferences
        BY <1>4, <2>2 DEF AllReferences
      <4>2. t[2] = "relationship_type" => Loose(t)
        BY <4>1, ReferencesTyped, ReferenceSound DEF KeyOK, Loose
      <4> QED BY <1>18, <2>2, <4>2 DEF FreshWrite
    <3> QED BY <1>7, <1>11, <3>1, <3>2
  <2> QED BY <1>8, <2>1, <2>2
<1>20. ASSUME ~crossed'
       PROVE  NoCycleIn(rs) /\ \A t \in rs : t[2] = "parent" => t[3] \in left
  <2>1. /\ NoCycleIn(refs)
        /\ \A t \in refs : t[2] = "parent" => t[3] \in alive
        /\ ChangesTheTree(w) => ParentsKnown(w)
    BY <1>1, <1>2, <1>11, <1>20 DEF GraphInv, TreeInv, TreeKnown
  <2>2. CASE \A t \in w.refs : t[2] # "parent"
    <3>1. \A t \in rs : t[2] = "parent" => t \in refs
      BY <1>8, <2>2
    <3> QED BY <1>7, <2>1, <3>1, FewerParents
  <2>3. CASE \E t \in w.refs : t[2] = "parent"
    <3>1. PICK t \in w.refs : t[2] = "parent"
      BY <2>3
    <3>2. t \in AllReferences
      BY <1>4 DEF AllReferences
    <3>3. PICK p \in Categories : p = t[3]
      BY <3>1, <3>2, ReferencesTyped
    <3>4. x \notin AboveIn(refs, p)
      BY <1>15, <2>1, <2>3, <3>1, <3>3 DEF ParentsKnown, ChangesTheTree
    <3>5. \A u \in rs : u[2] = "parent" => u \in refs \/ (u[1] = x /\ u[3] = p)
      BY <1>3, <1>8, <1>15, <3>1, <3>3 DEF Writes
    <3>6. \A u \in rs : u[2] = "parent" => u[3] \in left
      BY <1>7, <1>8, <2>1, <2>3 DEF ParentsKnown, ChangesTheTree
    <3> QED BY <1>12, <2>1, <3>4, <3>5, <3>6, RefsBetween, ParentClosesNoCycle
  <2> QED BY <2>2, <2>3
<1>21. ~ChangesTheTree(w) => /\ Categories \cap alive \subseteq left
                             /\ \A t \in rs : t[2] = "parent" => t \in refs
  BY <1>7, <1>8 DEF ChangesTheTree
<1> QED BY <1>1, <1>10, <1>13, <1>14, <1>16, <1>17, <1>19, <1>20, <1>21, CommitKeeps

(* What is deleted takes the rows with it that could not do without, or the   *)
(* deletion is refused.                                                       *)
LEMMA DeletionStep ==
  ASSUME GraphInv, NEW c \in Clients, CommitDelete(c)
  PROVE  GraphInv'
<1>1. PICK w : w = call[c]
  OBVIOUS
<1>2. Busy(c) /\ w.op = "delete" /\ Deletable(w)
  BY <1>1 DEF CommitDelete
<1>3. PICK gone : gone = IF enforced THEN Cascade(w.rows) ELSE w.rows
  OBVIOUS
<1>4. PICK rs : rs = {t \in refs : /\ t[1] \notin gone
                                   /\ ~\E u \in w.refs : u[1] = t[1] /\ u[2] = t[2]
                                   /\ ~(enforced /\ t[3] \in gone /\ ~Loose(t))}
  OBVIOUS
<1>5. PICK left : left = alive \ gone
  OBVIOUS
<1>6. Commit(c, left, rs)
  BY <1>1, <1>3, <1>4, <1>5 DEF CommitDelete
<1>7. /\ alive' = left /\ refs' = rs /\ enforced' = enforced /\ raced' = (raced \/ w.stale)
      /\ crossed' = (crossed \/ (w.moved /\ ChangesTheTree(w)))
  BY <1>1, <1>6 DEF Commit
<1>8. RowsTyped /\ enforced \in BOOLEAN
  BY DEF GraphInv, RowsTyped
<1>9. left \subseteq slice /\ left \subseteq Rows
  BY <1>5, <1>8 DEF RowsTyped
<1>10. rs \subseteq UNION {Possible[x] : x \in left}
  <2>1. ASSUME NEW t \in rs PROVE t[1] \in left /\ t \in Possible[t[1]]
    BY <1>4, <1>5, <1>8, <2>1, RefsTyped
  <2> QED BY <2>1
<1>11. ASSUME NEW t \in refs, t[1] \notin gone, Reference[t[2]].required
       PROVE  t \in rs
  <2>1. ASSUME NEW u \in w.refs, u[1] = t[1], u[2] = t[2] PROVE FALSE
    BY <1>2, <1>11, <2>1 DEF Deletable
  <2>2. ASSUME enforced, t[3] \in gone, ~Loose(t) PROVE FALSE
    <3>1. gone = Cascade(w.rows)
      BY <1>3, <2>2
    <3>2. ~Restricted(t)
      BY <1>2, <2>2, <3>1 DEF Deletable
    <3>3. Cascading(t)
      BY <1>11, <2>2, <3>2 DEF Cascading
    <3> QED BY <1>8, <1>11, <2>2, <3>1, <3>3, CascadeClosed
  <2> QED BY <1>4, <1>11, <2>1, <2>2
<1>12. ASSUME NEW x \in left
       PROVE  Complete(x, {t \in rs : t[1] = x})
  <2>1. Complete(x, {t \in refs : t[1] = x})
    BY <1>5, <1>8, OwnReferences
  <2>2. \A t \in refs : t[1] = x /\ Reference[t[2]].required => t \in rs
    BY <1>5, <1>11
  <2> QED BY <1>4, <2>1, <2>2 DEF Complete
<1>13. ASSUME NEW d \in Clients, d # c, Busy(d), call[d].op = "create"
       PROVE  call[d].rows \cap left = {}
  BY <1>5, <1>13 DEF GraphInv, CallsSound, CallSound, Writes, Creates
<1>14. NoReferenceDangles'
  <2> SUFFICES ASSUME NEW t \in rs
               PROVE  \/ t[3] \in left \/ Loose(t)
                      \/ ~enforced /\ (raced' \/ Reference[t[2]].session = "leave")
    BY <1>7 DEF NoReferenceDangles, Loose
  <2>1. \/ t[3] \in alive \/ Loose(t)
        \/ ~enforced /\ (raced' \/ Reference[t[2]].session = "leave")
    BY <1>4, <1>7 DEF GraphInv, NoReferenceDangles
  <2>2. ASSUME t[3] \in gone, ~Loose(t), ~enforced, ~raced'
        PROVE  Reference[t[2]].session = "leave"
    <3>1. FreshDelete(w) /\ gone = w.rows
      BY <1>1, <1>2, <1>3, <1>7, <2>2 DEF GraphInv, ChecksHold, Fresh
    <3>2. t \in AllReferences
      BY <1>4, <1>8, RefsTyped
    <3>3. Reference[t[2]].session \in {"delete", "nullify", "leave"}
      BY <2>2, <3>2, ReferencesTyped, ReferenceSound DEF KeyOK, Loose
    <3> QED BY <1>4, <2>2, <3>1, <3>3 DEF FreshDelete
  <2> QED BY <1>4, <1>5, <1>8, <2>1, <2>2
<1>15. \A t \in rs : t[2] = "parent" => t \in refs
  BY <1>4
<1>16. ASSUME NEW x \in gone, x \in Categories PROVE x \in w.rows
  <2>1. CASE enforced
    BY <1>3, <1>8, <1>16, <2>1, CascadeSparesCategories
  <2> QED BY <1>3, <1>16, <2>1
<1>17. ~ChangesTheTree(w) => Categories \cap alive \subseteq left
  BY <1>2, <1>5, <1>16 DEF ChangesTheTree
<1>18. ASSUME ~crossed'
       PROVE  NoCycleIn(rs) /\ \A t \in rs : t[2] = "parent" => t[3] \in left
  <2>1. ~crossed /\ (ChangesTheTree(w) => ~w.moved)
    BY <1>7, <1>18
  <2>2. NoCycleIn(rs)
    BY <1>15, <2>1, FewerParents DEF GraphInv, TreeInv
  <2>3. ASSUME NEW t \in rs, t[2] = "parent", t[3] \in gone PROVE FALSE
    <3>1. t \in refs /\ t[3] \in Categories
      BY <1>4, <1>8, <2>3, RefsTyped, ReferencesTyped
    <3>2. t[3] \in w.rows
      BY <1>16, <2>3, <3>1
    <3>3. ChangesTheTree(w)
      BY <1>2, <3>1, <3>2 DEF ChangesTheTree
    <3>4. ChildrenKnown(w)
      BY <1>1, <1>2, <2>1, <3>3 DEF GraphInv, TreeInv, TreeKnown
    <3>5. w.rows \subseteq gone
      BY <1>3 DEF Cascade, WithReferring
    <3> QED BY <1>4, <2>3, <3>1, <3>2, <3>4, <3>5 DEF ChildrenKnown
  <2> QED BY <1>4, <1>5, <2>1, <2>2, <2>3 DEF GraphInv, TreeInv
<1> QED BY <1>1, <1>6, <1>9, <1>10, <1>12, <1>13, <1>14, <1>15, <1>17, <1>18, CommitKeeps

(* A call that fails leaves no trace.                                         *)
LEMMA FailStep ==
  ASSUME GraphInv, NEW c \in Clients, Fail(c)
  PROVE  GraphInv'
<1>1. UNCHANGED <<slice, enforced, alive, refs, overlaps, raced, crossed>> /\ call' = [call EXCEPT ![c] = Idle]
  BY DEF Fail
<1>2. call = [d \in Clients |-> call[d]]
  BY DEF GraphInv, RowsTyped
<1>3. \A d \in Clients : Busy(d)' => Busy(d) /\ call'[d] = call[d]
  BY <1>1, <1>2 DEF Busy
<1>4. call' = [d \in Clients |-> call'[d]]
  BY <1>1, <1>2
<1>5. RowsTyped'
  BY <1>1, <1>4 DEF GraphInv, RowsTyped
<1>6. CallsSound'
  <2>1. ASSUME NEW d \in Clients, Busy(d)'
        PROVE  CallSound(call[d])'
    <3>1. PICK w : w = call'[d]
      OBVIOUS
    <3>2. CallSound(w)
      BY <1>3, <2>1, <3>1 DEF GraphInv, CallsSound
    <3> QED BY <1>1, <3>1, <3>2 DEF CallSound, Writes, Creates, Updates, Replaces
  <2>2. ASSUME NEW d \in Clients, NEW e \in Clients, d # e, Busy(d)', Busy(e)',
               call'[d].op = "create", call'[e].op = "create"
        PROVE  call'[d].rows \cap call'[e].rows = {}
    BY <1>3, <2>2 DEF GraphInv, CallsSound
  <2> QED BY <2>1, <2>2 DEF CallsSound
<1>7. ChecksHold'
  <2> SUFFICES ASSUME NEW d \in Clients, Busy(d)', ~call'[d].stale
               PROVE  Fresh(call[d])'
    BY DEF ChecksHold
  <2>1. PICK w : w = call'[d]
    OBVIOUS
  <2>2. Fresh(w)
    BY <1>3, <2>1 DEF GraphInv, ChecksHold
  <2> QED BY <1>1, <2>1, <2>2 DEF Fresh, FreshWrite, FreshDelete
<1>8. NoReferenceDangles'
  BY <1>1 DEF GraphInv, NoReferenceDangles, Loose
<1>9. TreeInv'
  <2>1. ASSUME ~crossed, NEW d \in Clients, Busy(d)', ~call'[d].moved
        PROVE  TreeKnown(call[d])'
    <3>1. PICK w : w = call'[d]
      OBVIOUS
    <3>2. TreeKnown(w)
      BY <1>3, <2>1, <3>1 DEF GraphInv, TreeInv
    <3> QED BY <1>1, <3>1, <3>2 DEF TreeKnown, ParentsKnown, ChildrenKnown
  <2> QED BY <1>1, <2>1 DEF GraphInv, TreeInv
<1> QED BY <1>5, <1>6, <1>7, <1>8, <1>9 DEF GraphInv

-----------------------------------------------------------------------------
LEMMA GraphInvInit == GraphInit => GraphInv
<1> SUFFICES ASSUME GraphInit PROVE GraphInv
  OBVIOUS
<1>1. \A c \in Clients : ~Busy(c)
  BY DEF GraphInit, Busy
<1>2. RowsTyped
  <2>1. call = [c \in Clients |-> call[c]]
    BY DEF GraphInit
  <2>2. alive = {} /\ refs = {} /\ enforced \in BOOLEAN /\ raced \in BOOLEAN /\ crossed \in BOOLEAN
    BY DEF GraphInit
  <2>3. overlaps \in 0..MaxOverlaps
    BY OverlapsAssumption DEF GraphInit
  <2> QED BY <2>1, <2>2, <2>3 DEF RowsTyped
<1>3. CallsSound /\ ChecksHold
  BY <1>1 DEF CallsSound, ChecksHold
<1>4. NoReferenceDangles
  BY DEF GraphInit, NoReferenceDangles
<1>5. TreeInv
  BY <1>1 DEF GraphInit, TreeInv, NoCycleIn, ParentIn
<1> QED BY <1>2, <1>3, <1>4, <1>5 DEF GraphInv

LEMMA EditStep ==
  ASSUME GraphInv, NEW c \in Clients, NEW table \in SUBSET Rows,
         BeginCreate(c, table) \/ BeginUpdate(c, table) \/ BeginDelete(c, table)
  PROVE  GraphInv'
BY CreateStep, UpdateStep, DeleteStep

LEMMA GraphStep ==
  ASSUME GraphInv, [GraphNext]_graphVars
  PROVE  GraphInv'
<1>1. CASE UNCHANGED graphVars
  <2>1. UNCHANGED <<slice, enforced, alive, refs, call, overlaps, raced, crossed>>
    BY <1>1 DEF graphVars
  <2>2. RowsTyped'
    BY <2>1 DEF GraphInv, RowsTyped
  <2>3. CallsSound'
    BY <2>1 DEF GraphInv, CallsSound, CallSound, Writes, Creates, Updates, Replaces, Busy
  <2>4. ChecksHold'
    BY <2>1 DEF GraphInv, ChecksHold, Fresh, FreshWrite, FreshDelete, Busy
  <2>5. NoReferenceDangles'
    BY <2>1 DEF GraphInv, NoReferenceDangles, Loose
  <2>6. TreeInv'
    BY <2>1 DEF GraphInv, TreeInv, TreeKnown, ParentsKnown, ChildrenKnown, Busy
  <2> QED BY <2>2, <2>3, <2>4, <2>5, <2>6 DEF GraphInv
<1>2. ASSUME NEW c \in Clients,
             \E table \in SUBSET Rows : BeginCreate(c, table) \/ BeginUpdate(c, table) \/ BeginDelete(c, table)
      PROVE  GraphInv'
  BY <1>2, EditStep
<1>3. ASSUME NEW c \in Clients,
             \/ CategoryCalls(c) \/ ConceptCalls(c) \/ ClaimCalls(c) \/ EvidenceCalls(c)
             \/ SourceCalls(c) \/ SourcePartCalls(c) \/ RelationshipCalls(c)
             \/ TagCalls(c) \/ EntityCalls(c)
      PROVE  \E table \in SUBSET Rows : BeginCreate(c, table) \/ BeginUpdate(c, table) \/ BeginDelete(c, table)
  <2>1. {Categories, Concepts, Taggings, Claims, Evidence, Sources, SourceParts, Relationships, Tags,
         UNION {FinancialEntities, AssetClasses, Instruments, CaseStudies}} \subseteq SUBSET Rows
    BY DEF Rows
  <2> QED BY <1>3, <2>1 DEF CategoryCalls, ConceptCalls, ClaimCalls, EvidenceCalls, SourceCalls,
            SourcePartCalls, RelationshipCalls, TagCalls, EntityCalls, Edit
<1>4. ASSUME NEW c \in Clients,
             \/ DocumentCalls(c) \/ ArticleCalls(c) \/ SectionCalls(c) \/ QuestionCalls(c)
             \/ AliasCalls(c) \/ ReviewCalls(c) \/ ConflictCalls(c) \/ AssessmentCalls(c)
      PROVE  \E table \in SUBSET Rows : BeginCreate(c, table) \/ BeginUpdate(c, table) \/ BeginDelete(c, table)
  <2>1. {Documents, Articles, Sections, Questions, Aliases, Reviews, Conflicts, Assessments}
          \subseteq SUBSET Rows
    BY DEF Rows
  <2> QED BY <1>4, <2>1 DEF DocumentCalls, ArticleCalls, SectionCalls, QuestionCalls, AliasCalls,
            ReviewCalls, ConflictCalls, AssessmentCalls, Edit
<1>5. CASE \E c \in Clients : CommitWrite(c) \/ CommitDelete(c) \/ Fail(c)
  BY <1>5, WriteStep, DeletionStep, FailStep
<1> QED BY <1>1, <1>2, <1>3, <1>4, <1>5 DEF GraphNext

(* Every call of the graph's services, whatever others commit between its     *)
(* check and its write, keeps what rows, references and calls in progress     *)
(* show of each other.                                                        *)
THEOREM GraphInvariant == GraphSpec => []GraphInv
<1>1. GraphInit => GraphInv
  BY GraphInvInit
<1>2. GraphInv /\ [GraphNext]_graphVars => GraphInv'
  BY GraphStep
<1> QED BY <1>1, <1>2, PTL DEF GraphSpec

(* Whatever calls overlap, the rows have their types, every required field    *)
(* has its target, and no row refers to a deleted one: where the database     *)
(* checks foreign keys never, and where it does not only through a field the  *)
(* session leaves to it, or after a call wrote what it had checked too early. *)
THEOREM GraphStaysConsistent == GraphSpec => []GraphConsistent
<1>1. GraphInv => GraphConsistent
  <2> SUFFICES ASSUME GraphInv PROVE GraphConsistent
    OBVIOUS
  <2>1. \A c \in Clients : Busy(c) => call[c].op \in {"create", "update", "delete"}
    BY DEF GraphInv, CallsSound, CallSound, Work
  <2>2. GraphTypeOK
    BY <2>1 DEF GraphInv, RowsTyped, GraphTypeOK
  <2> QED BY <2>2 DEF GraphInv, GraphConsistent
<1> QED BY <1>1, GraphInvariant, PTL

(* No category is above itself unless two calls that move or delete           *)
(* categories have crossed: the walk up from the new parent has passed all    *)
(* there is above, and what other calls write meanwhile adds nothing to it.   *)
THEOREM CategoriesStayATree == GraphSpec => []CategoriesAreATree
<1>1. GraphInv => CategoriesAreATree
  <2> SUFFICES ASSUME GraphInv, ~crossed, NEW p \in Categories \cap alive, InCycle(p)
               PROVE  FALSE
    BY DEF CategoriesAreATree
  <2>0. \A t \in refs : t[2] = "parent" => t[3] \in alive
    BY DEF GraphInv, TreeInv
  <2>1. PICK q \in Above(p) : q \in UNION {Above(u) : u \in ParentOf({q})}
    BY DEF InCycle
  <2>2. PICK u \in ParentOf({q}) : q \in Above(u)
    BY <2>1
  <2>3. q \in Categories
    BY <2>1 DEF Above
  <2>4. u \in ParentIn(refs, {q})
    BY <2>0, <2>2, AboveIs
  <2>5. u \in Categories
    BY <2>4, RefsBetween DEF GraphInv, Between, ParentIn
  <2>6. q \in AboveIn(refs, u)
    BY <2>0, <2>2, AboveIs
  <2> QED BY <2>3, <2>4, <2>5, <2>6 DEF GraphInv, TreeInv, NoCycleIn
<1> QED BY <1>1, GraphInvariant, PTL
=============================================================================
