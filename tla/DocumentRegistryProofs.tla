----------------------- MODULE DocumentRegistryProofs -----------------------
(***************************************************************************)
(* That a document with versions has exactly one current version, for any  *)
(* number of documents, clients and overlapping calls.  What makes it      *)
(* inductive is what the calls in progress know: a version about to be     *)
(* inserted without becoming current clears nothing and belongs to a       *)
(* document that has versions already, and versions are never deleted.     *)
(***************************************************************************)
EXTENDS DocumentRegistry, TLAPS

(* What a call in progress relies on when it writes.                       *)
CallOK(w) ==
  /\ w.op \in {"version", "current", "insert", "point"} => w.row \in Documents
  /\ w.op = "insert" /\ ~w.make => w.clear = {} /\ Labels(w.row) # {}
  /\ w.op \in {"current", "point"} => w.label \in Labels(w.row)

RowsOK ==
  /\ versions = [d \in Documents |-> versions[d]]
  /\ current = [d \in Documents |-> current[d]]
  /\ \A d \in Documents : current[d] \subseteq Labels(d)

CallsOK ==
  /\ call = [c \in Clients |-> call[c]]
  /\ \A c \in Clients : CallOK(call[c])

VersionsInv == RowsOK /\ CallsOK /\ OneCurrentVersion

-----------------------------------------------------------------------------
(* A client's call moves on and no version changes.                        *)
LEMMA CallMoves ==
  ASSUME VersionsInv, NEW c \in Clients, NEW w, CallOK(w),
         call' = [call EXCEPT ![c] = w], UNCHANGED <<versions, current>>
  PROVE  VersionsInv'
<1>1. RowsOK' /\ OneCurrentVersion'
  BY DEF VersionsInv, RowsOK, OneCurrentVersion, Labels
<1>2. call' = [e \in Clients |-> call'[e]]
  BY DEF VersionsInv, CallsOK
<1>3. ASSUME NEW e \in Clients PROVE CallOK(call[e])'
  <2>1. call'[e] = IF e = c THEN w ELSE call[e]
    BY DEF VersionsInv, CallsOK
  <2>2. CallOK(call'[e])
    BY <2>1 DEF VersionsInv, CallsOK
  <2> QED BY <2>2 DEF CallOK, Labels
<1> QED BY <1>1, <1>2, <1>3 DEF VersionsInv, CallsOK

LEMMA IdleIsOK == CallOK(Idle)
BY DEF CallOK, Idle

(* Steps that touch neither versions nor calls.                            *)
LEMMA Untouched ==
  ASSUME VersionsInv, UNCHANGED <<versions, current, call>>
  PROVE  VersionsInv'
BY DEF VersionsInv, RowsOK, CallsOK, CallOK, OneCurrentVersion, Labels

(* A call ends without a write to the versions.                            *)
LEMMA CallEnds ==
  ASSUME VersionsInv, NEW c \in Clients, call' = [call EXCEPT ![c] = Idle],
         UNCHANGED <<versions, current>>
  PROVE  VersionsInv'
BY CallMoves, IdleIsOK

(* The constraint of the table and a version that is to be current.        *)
LEMMA TheOnlyOne ==
  ASSUME NEW S, NEW v \in S, AtMostOne(S)
  PROVE  S = {v}
BY DEF AtMostOne

(* The insertion of a version: either it is the one that is current now,   *)
(* or the document's current version stays what it was.                    *)
LEMMA Insertion ==
  ASSUME VersionsInv, NEW c \in Clients, InsertVersion(c)
  PROVE  VersionsInv'
<1> DEFINE w == call[c]
           d == w.row
           now == (current[d] \ w.clear) \cup (IF w.make THEN {w.label} ELSE {})
<1>1. d \in Documents /\ (~w.make => w.clear = {} /\ Labels(d) # {})
  BY DEF VersionsInv, CallsOK, CallOK, InsertVersion
<1>2. CASE ~Insertable(d, now, w.label, w.sum)
  <2>1. End(c) BY <1>2 DEF InsertVersion
  <2> QED BY <2>1, CallEnds DEF End, rowVars
<1>3. CASE Insertable(d, now, w.label, w.sum)
  <2>1. /\ versions' = [versions EXCEPT ![d] =
             [v \in Labels(d) \cup {w.label} |-> IF v = w.label THEN w.sum ELSE versions[d][v]]]
        /\ current' = [current EXCEPT ![d] = now]
        /\ call' = [call EXCEPT ![c] = Idle]
    BY <1>3 DEF InsertVersion, Commit
  <2>2. /\ DOMAIN versions'[d] = Labels(d) \cup {w.label}
        /\ \A e \in Documents \ {d} : versions'[e] = versions[e]
        /\ versions' = [e \in Documents |-> versions'[e]]
    BY <2>1, <1>1 DEF VersionsInv, RowsOK
  <2>3. /\ current'[d] = now
        /\ \A e \in Documents \ {d} : current'[e] = current[e]
        /\ current' = [e \in Documents |-> current'[e]]
    BY <2>1, <1>1 DEF VersionsInv, RowsOK
  <2>4. \E v \in Labels(d) \cup {w.label} : now = {v}
    <3>1. CASE w.make
      <4>1. now = {w.label}
        BY <3>1, <1>3, TheOnlyOne DEF Insertable
      <4> QED BY <4>1
    <3>2. CASE ~w.make
      <4>1. now = current[d] BY <3>2, <1>1
      <4>2. \E v \in Labels(d) : current[d] = {v}
        BY <3>2, <1>1 DEF VersionsInv, OneCurrentVersion
      <4> QED BY <4>1, <4>2
    <3> QED BY <3>1, <3>2
  <2>5. \A e \in Documents : Labels(e) \subseteq DOMAIN versions'[e]
    BY <2>2 DEF Labels
  <2>6. RowsOK'
    <3>1. \A e \in Documents : current'[e] \subseteq DOMAIN versions'[e]
      BY <2>2, <2>3, <2>4 DEF VersionsInv, RowsOK, Labels
    <3> QED BY <3>1, <2>2, <2>3 DEF RowsOK, Labels
  <2>7. OneCurrentVersion'
    <3> SUFFICES ASSUME NEW e \in Documents, DOMAIN versions'[e] # {}
                 PROVE  \E v \in DOMAIN versions'[e] : current'[e] = {v}
      BY DEF OneCurrentVersion, Labels
    <3>1. CASE e = d BY <3>1, <2>2, <2>3, <2>4
    <3>2. CASE e # d BY <3>2, <2>2, <2>3 DEF VersionsInv, OneCurrentVersion, Labels
    <3> QED BY <3>1, <3>2
  <2>8. CallsOK'
    <3>1. call' = [e \in Clients |-> call'[e]]
      BY <2>1 DEF VersionsInv, CallsOK
    <3>2. ASSUME NEW e \in Clients PROVE CallOK(call[e])'
      <4>1. call'[e] = Idle \/ call'[e] = call[e]
        BY <2>1 DEF VersionsInv, CallsOK
      <4>2. CallOK(call'[e])
        BY <4>1, IdleIsOK DEF VersionsInv, CallsOK
      <4> QED BY <4>2, <2>5 DEF CallOK, Labels
    <3> QED BY <3>1, <3>2 DEF CallsOK
  <2> QED BY <2>6, <2>7, <2>8 DEF VersionsInv
<1> QED BY <1>2, <1>3

(* set_current_version: what it points to is the only current version.     *)
LEMMA Pointing ==
  ASSUME VersionsInv, NEW c \in Clients, PointToVersion(c)
  PROVE  VersionsInv'
<1> DEFINE w == call[c]
           now == (current[w.row] \ w.clear) \cup {w.label}
<1>1. w.row \in Documents /\ w.label \in Labels(w.row)
  BY DEF VersionsInv, CallsOK, CallOK, PointToVersion
<1>2. CASE ~AtMostOne(now)
  <2>1. End(c) BY <1>2 DEF PointToVersion
  <2> QED BY <2>1, CallEnds DEF End, rowVars
<1>3. CASE AtMostOne(now)
  <2>1. /\ current' = [current EXCEPT ![w.row] = now]
        /\ call' = [call EXCEPT ![c] = Idle] /\ versions' = versions
    BY <1>3 DEF PointToVersion, Commit
  <2>2. now = {w.label} BY <1>3, TheOnlyOne
  <2>3. /\ current'[w.row] = {w.label}
        /\ \A e \in Documents \ {w.row} : current'[e] = current[e]
        /\ current' = [e \in Documents |-> current'[e]]
    BY <2>1, <2>2, <1>1 DEF VersionsInv, RowsOK
  <2>4. RowsOK' /\ OneCurrentVersion'
    BY <2>1, <2>3, <1>1 DEF VersionsInv, RowsOK, OneCurrentVersion, Labels
  <2>5. CallsOK'
    <3>1. call' = [e \in Clients |-> call'[e]]
      BY <2>1 DEF VersionsInv, CallsOK
    <3>2. ASSUME NEW e \in Clients PROVE CallOK(call[e])'
      <4>1. call'[e] = Idle \/ call'[e] = call[e]
        BY <2>1 DEF VersionsInv, CallsOK
      <4>2. CallOK(call'[e])
        BY <4>1, IdleIsOK DEF VersionsInv, CallsOK
      <4> QED BY <4>2, <2>1 DEF CallOK, Labels
    <3> QED BY <3>1, <3>2 DEF CallsOK
  <2> QED BY <2>4, <2>5 DEF VersionsInv
<1> QED BY <1>2, <1>3

(* The queries that precede the write.                                     *)
LEMMA Looking ==
  ASSUME VersionsInv, NEW c \in Clients, LookAtVersions(c) \/ LookAtCurrent(c)
  PROVE  VersionsInv'
<1>1. CASE LookAtVersions(c)
  <2> DEFINE w == call[c]
             next == [op |-> "insert", row |-> w.row, label |-> w.label, sum |-> w.sum,
                      make |-> MakesCurrent(w),
                      clear |-> IF MakesCurrent(w) THEN Cleared(w) ELSE {}]
  <2>1. CASE End(c) BY <2>1, CallEnds DEF End, rowVars
  <2>2. CASE call' = [call EXCEPT ![c] = next] /\ UNCHANGED rowVars
    <3>1. w.row \in Documents
      BY <1>1 DEF VersionsInv, CallsOK, CallOK, LookAtVersions
    <3>2. ~MakesCurrent(w) => Labels(w.row) # {}
      BY <3>1 DEF MakesCurrent, VersionsInv, RowsOK
    <3>3. CallOK(next) BY <3>1, <3>2 DEF CallOK
    <3> QED BY <2>2, <3>3, CallMoves DEF rowVars
  <2> QED BY <1>1, <2>1, <2>2 DEF LookAtVersions
<1>2. CASE LookAtCurrent(c)
  <2> DEFINE next == [op |-> "point", row |-> call[c].row, label |-> call[c].label,
                      clear |-> Cleared(call[c])]
  <2>1. call[c].row \in Documents /\ call[c].label \in Labels(call[c].row)
    BY <1>2 DEF VersionsInv, CallsOK, CallOK, LookAtCurrent
  <2>2. CallOK(next) BY <2>1 DEF CallOK
  <2>3. call' = [call EXCEPT ![c] = next] /\ UNCHANGED <<versions, current>>
    BY <1>2 DEF LookAtCurrent, rowVars
  <2> QED BY <2>2, <2>3, CallMoves
<1> QED BY <1>1, <1>2

(* Loading the document.                                                   *)
LEMMA Loading ==
  ASSUME VersionsInv, NEW c \in Clients, LoadDocument(c)
  PROVE  VersionsInv'
<1>1. PICK d \in Documents :
        \/ \E label \in Spellings, sum \in Checksums, wanted \in BOOLEAN :
             Begin(c, "version", [op |-> "version", row |-> d, label |-> label, sum |-> sum,
                   wanted |-> wanted, known |-> Labels(d), copy |-> current[d]])
        \/ \E label \in Labels(d) \ current[d] :
             Begin(c, "current", [op |-> "current", row |-> d, label |-> label,
                   known |-> Labels(d), copy |-> current[d]])
  BY DEF LoadDocument
<1>2. ASSUME NEW label, NEW sum, NEW wanted,
             Begin(c, "version", [op |-> "version", row |-> d, label |-> label, sum |-> sum,
                   wanted |-> wanted, known |-> Labels(d), copy |-> current[d]])
      PROVE  VersionsInv'
  <2> DEFINE w == [op |-> "version", row |-> d, label |-> label, sum |-> sum,
                   wanted |-> wanted, known |-> Labels(d), copy |-> current[d]]
  <2>1. CallOK(w) BY DEF CallOK
  <2>2. call' = [call EXCEPT ![c] = w] /\ UNCHANGED <<versions, current>>
    BY <1>2 DEF Begin, rowVars
  <2> QED BY <2>1, <2>2, CallMoves
<1>3. ASSUME NEW label \in Labels(d) \ current[d],
             Begin(c, "current", [op |-> "current", row |-> d, label |-> label,
                   known |-> Labels(d), copy |-> current[d]])
      PROVE  VersionsInv'
  <2> DEFINE w == [op |-> "current", row |-> d, label |-> label,
                   known |-> Labels(d), copy |-> current[d]]
  <2>1. CallOK(w) BY DEF CallOK
  <2>2. call' = [call EXCEPT ![c] = w] /\ UNCHANGED <<versions, current>>
    BY <1>3 DEF Begin, rowVars
  <2> QED BY <2>1, <2>2, CallMoves
<1> QED BY <1>1, <1>2, <1>3

(* The calls about life cycles and identifiers: their records are of no    *)
(* kind the versions depend on.                                            *)
LEMMA OtherCallsBegin ==
  ASSUME VersionsInv, NEW c \in Clients,
         Register(c) \/ Update(c) \/ ArchiveOrRestore(c)
           \/ CheckIdentifier(c)
  PROVE  VersionsInv'
<1>1. ASSUME NEW op, NEW w, w.op \in {"write", "identify"}, Begin(c, op, w)
      PROVE  VersionsInv'
  <2>1. CallOK(w) BY <1>1 DEF CallOK
  <2>2. call' = [call EXCEPT ![c] = w] /\ UNCHANGED <<versions, current>>
    BY <1>1 DEF Begin, rowVars
  <2> QED BY <2>1, <2>2, CallMoves
<1>2. CASE Register(c) BY <1>2, <1>1 DEF Register
<1>3. CASE Update(c) BY <1>3, <1>1 DEF Update
<1>4. CASE ArchiveOrRestore(c) BY <1>4, <1>1 DEF ArchiveOrRestore
<1>5. CASE CheckIdentifier(c) BY <1>5, <1>1 DEF CheckIdentifier
<1> QED BY <1>2, <1>3, <1>4, <1>5

LEMMA OtherCallsEnd ==
  ASSUME VersionsInv, NEW c \in Clients,
         Write(c) \/ InsertIdentifier(c)
  PROVE  VersionsInv'
<1>1. call' = [call EXCEPT ![c] = Idle] /\ UNCHANGED <<versions, current>>
  BY DEF Write, InsertIdentifier, Commit, End, rowVars
<1> QED BY <1>1, CallEnds

LEMMA VersionsStep == VersionsInv /\ [Next]_vars => VersionsInv'
<1> SUFFICES ASSUME VersionsInv, [Next]_vars PROVE VersionsInv'
  OBVIOUS
<1>1. CASE UNCHANGED vars BY <1>1, Untouched DEF vars
<1>2. ASSUME NEW c \in Clients, RegisterFile(c) \/ RemoveIdentifier(c) PROVE VersionsInv'
  BY <1>2, Untouched DEF RegisterFile, RemoveIdentifier
<1> QED
  BY <1>1, <1>2, Insertion, Pointing, Looking, Loading, OtherCallsBegin, OtherCallsEnd DEF Next

LEMMA VersionsInit == Init => VersionsInv
BY IdleIsOK DEF Init, VersionsInv, RowsOK, CallsOK, OneCurrentVersion, Labels

(* Register_version and set_current_version keep exactly one version of a  *)
(* document current, however their calls interleave.                       *)
THEOREM CurrentVersionIsUnique == Spec => []OneCurrentVersion
<1>1. VersionsInv => OneCurrentVersion BY DEF VersionsInv
<1> QED BY VersionsInit, VersionsStep, <1>1, PTL DEF Spec

-----------------------------------------------------------------------------
(* The other columns.  What a call has looked at holds until somebody else *)
(* commits, and then the call is stale: either it is not, and the database *)
(* is still what it decided on, or its write makes a race of it, from      *)
(* which only the constraints of the tables protect.                       *)
Typed(w) ==
  /\ w.op = "write" => /\ w.row \in Records /\ w.new \in Values /\ w.columns \subseteq Columns
                       /\ ValidLifecycle(w.row, w.new)
  /\ w.op \in {"version", "insert", "identify"} => w.label \in Spellings
  /\ w.op \in {"version", "insert"} => w.sum \in Checksums

Fresh(w) ==
  /\ w.op = "write" /\ record[w.row] # None =>
       \A k \in Columns \ w.columns : record[w.row][k] = w.new[k]
  /\ w.op = "insert" => \A v \in Labels(w.row) : Fold(v) # Fold(w.label)
  /\ w.op = "identify" => \A t \in identifiers : Fold(t) # Fold(w.label)

Shapes ==
  /\ record = [x \in Records |-> record[x]]
  /\ filed = [d \in Documents |-> filed[d]]

CallsInv ==
  /\ \A c \in Clients : Typed(call[c])
  /\ \A c \in Clients : c \notin stale => Fresh(call[c])

RowsInv == Shapes /\ RowsConsistent /\ SpellingsDiffer

RegistryInv == RowsInv /\ CallsInv

LEMMA IdleIsTyped == Typed(Idle) /\ Fresh(Idle)
BY DEF Typed, Fresh, Idle

LEMMA SameRows ==
  ASSUME RowsInv, UNCHANGED <<record, versions, current, filed, identifiers, collated>>,
         raced => raced'
  PROVE  RowsInv'
<1>1. TypeOK' BY DEF RowsInv, RowsConsistent, TypeOK, Labels
<1>2. LifecyclesAgree' BY DEF RowsInv, RowsConsistent, LifecyclesAgree
<1>3. SpellingsDiffer' BY DEF RowsInv, SpellingsDiffer, Labels
<1>4. Shapes' BY DEF RowsInv, Shapes
<1> QED BY <1>1, <1>2, <1>3, <1>4 DEF RowsInv, RowsConsistent

(* A call goes on, and the rows stay.                                      *)
LEMMA RegistryMoves ==
  ASSUME VersionsInv, RegistryInv, NEW c \in Clients, NEW w, Typed(w), Fresh(w),
         call' = [call EXCEPT ![c] = w], UNCHANGED <<rowVars, collated, raced>>,
         \A e \in Clients \ {c} : e \in stale => e \in stale'
  PROVE  RegistryInv'
<1>1. /\ record' = record /\ versions' = versions /\ current' = current /\ filed' = filed
      /\ identifiers' = identifiers /\ collated' = collated /\ raced' = raced
  BY DEF rowVars
<1>2. call'[c] = w /\ \A e \in Clients \ {c} : call'[e] = call[e]
  BY DEF VersionsInv, CallsOK
<1>3. RowsInv'
  BY <1>1, SameRows DEF RegistryInv
<1>4. \A e \in Clients : Typed(call'[e])
  BY <1>2 DEF RegistryInv, CallsInv
<1>5. ASSUME NEW e \in Clients, e \notin stale'
      PROVE  Fresh(call[e])'
  <2>1. Fresh(call'[e])
    BY <1>2, <1>5 DEF RegistryInv, CallsInv
  <2> QED BY <1>1, <2>1 DEF Fresh, Labels
<1> QED BY <1>3, <1>4, <1>5 DEF RegistryInv, CallsInv, Typed

(* A call commits: the others are stale, and so know nothing for certain.  *)
LEMMA RegistryCommits ==
  ASSUME VersionsInv, RegistryInv, RowsInv',
         \A e \in Clients : call'[e] \in {call[e], Idle},
         \A e \in Clients : Busy(e)' => e \in stale'
  PROVE  RegistryInv'
<1>1. \A e \in Clients : Typed(call'[e])
  BY IdleIsTyped DEF RegistryInv, CallsInv
<1>2. ASSUME NEW e \in Clients, e \notin stale'
      PROVE  Fresh(call[e])'
  <2>1. call'[e] = Idle BY <1>2 DEF Busy
  <2> QED BY <2>1 DEF Fresh, Idle
<1> QED BY <1>1, <1>2 DEF RegistryInv, CallsInv, Typed

LEMMA CommitShape ==
  ASSUME VersionsInv, NEW c \in Clients, Commit(c)
  PROVE  /\ \A e \in Clients : call'[e] \in {call[e], Idle}
         /\ \A e \in Clients : Busy(e)' => e \in stale'
         /\ raced' = (raced \/ c \in stale) /\ collated' = collated
BY DEF Commit, Busy, VersionsInv, CallsOK

LEMMA RegistryEnds ==
  ASSUME VersionsInv, RegistryInv, NEW c \in Clients, End(c)
  PROVE  RegistryInv'
<1>1. \A e \in Clients \ {c} : e \in stale => e \in stale'
  BY DEF End
<1> QED BY <1>1, IdleIsTyped, RegistryMoves DEF End

LEMMA RegistryBegins ==
  ASSUME VersionsInv, RegistryInv, NEW c \in Clients, NEW op, NEW w, Begin(c, op, w), Typed(w), Fresh(w)
  PROVE  RegistryInv'
<1>1. /\ call' = [call EXCEPT ![c] = w] /\ UNCHANGED <<rowVars, collated, raced>>
      /\ \A e \in Clients \ {c} : e \in stale => e \in stale'
  BY DEF Begin
<1> QED BY <1>1, RegistryMoves

-----------------------------------------------------------------------------
LEMMA Registering ==
  ASSUME VersionsInv, RegistryInv, NEW c \in Clients, Register(c) \/ Update(c)
  PROVE  RegistryInv'
<1>1. PICK x \in Records, v \in Values, op \in {"register", "update"}, columns \in SUBSET Columns :
        /\ ValidLifecycle(x, v)
        /\ record[x] # None => \A k \in Columns \ columns : record[x][k] = v[k]
        /\ Begin(c, op, [op |-> "write", row |-> x, new |-> v, columns |-> columns])
  <2>1. CASE Register(c) BY <2>1 DEF Register
  <2>2. CASE Update(c)
    <3>1. PICK x \in Records, v \in Values :
            /\ ValidLifecycle(x, v)
            /\ Begin(c, "update", [op |-> "write", row |-> x, new |-> v,
                                   columns |-> {k \in Columns : v[k] # record[x][k]}])
      BY <2>2 DEF Update
    <3> DEFINE columns == {k \in Columns : v[k] # record[x][k]}
    <3>2. columns \subseteq Columns /\ \A k \in Columns \ columns : record[x][k] = v[k] OBVIOUS
    <3>3. Begin(c, "update", [op |-> "write", row |-> x, new |-> v, columns |-> columns]) BY <3>1
    <3> HIDE DEF columns
    <3> QED BY <3>1, <3>2, <3>3
  <2> QED BY <2>1, <2>2
<1> DEFINE w == [op |-> "write", row |-> x, new |-> v, columns |-> columns]
<1>2. Typed(w) BY <1>1 DEF Typed
<1>3. Fresh(w) BY <1>1 DEF Fresh
<1> QED BY <1>1, <1>2, <1>3, RegistryBegins

(* What archiving and restoring write is a valid life cycle of its own.    *)
LEMMA ArchivedIsValid ==
  ASSUME NEW x \in Records, NEW a \in Values,
         NEW v \in {OfSource(x, Archived(a)), OfSource(x, Restored(a))}
  PROVE  v \in Values /\ ValidLifecycle(x, v)
<1> USE DEF Values, DocumentStatuses
<1>1. /\ Archived(a) \in Values /\ ~Archived(a).active
      /\ Archived(a).status = "archived"
  BY DEF Archived
<1>2. Restored(a) \in Values /\ ~Restored(a).archived
  BY DEF Restored
<1>3. ASSUME NEW b \in Values, NEW u, u = OfSource(x, b)
      PROVE  /\ u \in Values /\ u.active = b.active /\ u.archived = b.archived
             /\ x \in Documents => u.status = b.status
  BY <1>3, RecordsAssumption DEF OfSource
<1> QED BY <1>1, <1>2, <1>3 DEF ValidLifecycle

LEMMA Archiving ==
  ASSUME VersionsInv, RegistryInv, NEW c \in Clients, ArchiveOrRestore(c)
  PROVE  RegistryInv'
<1>1. PICK x \in Records : record[x] # None /\
        \E v \in {OfSource(x, Archived(record[x])), OfSource(x, Restored(record[x]))} :
          Begin(c, "archive", [op |-> "write", row |-> x, new |-> v,
                               columns |-> {k \in Columns : v[k] # record[x][k]}])
  BY DEF ArchiveOrRestore
<1>2. PICK v \in {OfSource(x, Archived(record[x])), OfSource(x, Restored(record[x]))} :
        Begin(c, "archive", [op |-> "write", row |-> x, new |-> v,
                             columns |-> {k \in Columns : v[k] # record[x][k]}])
  BY <1>1
<1>3. record[x] \in Values BY <1>1 DEF RegistryInv, RowsInv, RowsConsistent, TypeOK
<1>4. v \in Values /\ ValidLifecycle(x, v) BY <1>3, ArchivedIsValid
<1> DEFINE columns == {k \in Columns : v[k] # record[x][k]}
           w == [op |-> "write", row |-> x, new |-> v, columns |-> columns]
<1>5. columns \subseteq Columns /\ \A k \in Columns \ columns : record[x][k] = v[k] OBVIOUS
<1> HIDE DEF columns
<1>6. Typed(w) BY <1>4, <1>5 DEF Typed
<1>7. Fresh(w) BY <1>5 DEF Fresh
<1>8. Begin(c, "archive", w) BY <1>2 DEF columns
<1> QED BY <1>6, <1>7, <1>8, RegistryBegins

(* The write: with the copy still true the row becomes what was validated, *)
(* and without only the constraint on documents stands.                    *)
LEMMA Writing ==
  ASSUME VersionsInv, RegistryInv, NEW c \in Clients, Write(c)
  PROVE  RegistryInv'
<1>1. PICK w, x, v : w = call[c] /\ x = w.row /\ v = Overwrite(w) OBVIOUS
<1>2. /\ Typed(w) /\ w.op = "write" /\ (c \notin stale => Fresh(w))
  BY <1>1 DEF RegistryInv, CallsInv, Write
<1>3. x \in Records /\ w.new \in Values /\ ValidLifecycle(x, w.new)
  BY <1>1, <1>2 DEF Typed
<1>4. CASE End(c) BY <1>4, RegistryEnds
<1>5. CASE /\ StoredLifecycle(x, v)
           /\ record' = [record EXCEPT ![x] = v]
           /\ Commit(c)
           /\ UNCHANGED <<versions, current, filed, identifiers>>
  <2>1. v \in Values
    <3>1. CASE record[x] = None BY <1>1, <1>3, <3>1 DEF Overwrite
    <3>2. CASE record[x] # None
      <4>1. record[x] \in Values BY <1>3, <3>2 DEF RegistryInv, RowsInv, RowsConsistent, TypeOK
      <4>2. v = [k \in Columns |-> IF k \in w.columns THEN w.new[k] ELSE record[x][k]]
        BY <1>1, <3>2 DEF Overwrite
      <4> QED BY <1>3, <4>1, <4>2 DEF Values, Columns
    <3> QED BY <3>1, <3>2
  <2>2. c \notin stale => /\ v.active = w.new.active /\ v.archived = w.new.archived
                          /\ v.status = w.new.status
    <3>1. CASE record[x] = None BY <1>1, <3>1 DEF Overwrite
    <3>2. CASE record[x] # None
      <4>1. v = [k \in Columns |-> IF k \in w.columns THEN w.new[k] ELSE record[x][k]]
        BY <1>1, <3>2 DEF Overwrite
      <4>2. c \notin stale => \A k \in Columns \ w.columns : record[x][k] = w.new[k]
        BY <1>1, <1>2, <3>2 DEF Fresh
      <4>3. c \notin stale => \A k \in Columns : v[k] = w.new[k] BY <4>1, <4>2
      <4> QED BY <4>3 DEF Columns
    <3> QED BY <3>1, <3>2
  <2>3. raced' = (raced \/ c \in stale) /\ collated' = collated BY <1>5, CommitShape
  <2>4. record'[x] = v /\ record' = [y \in Records |-> record'[y]]
        /\ \A y \in Records \ {x} : record'[y] = record[y]
    BY <1>3, <1>5 DEF RegistryInv, RowsInv, Shapes
  <2>5. /\ v.active /\ v.archived => raced' /\ x \in Sources
        /\ x \in Documents /\ v.archived => raced' \/ v.status = "archived"
    BY <1>3, <1>5, <2>2, <2>3 DEF ValidLifecycle, StoredLifecycle, Records
  <2>6. LifecyclesAgree'
    <3>1. ASSUME NEW y \in Records, record'[y] # None
          PROVE  /\ record'[y].active /\ record'[y].archived => raced' /\ y \in Sources
                 /\ y \in Documents /\ record'[y].archived => raced' \/ record'[y].status = "archived"
      <4>1. CASE y = x BY <2>4, <2>5, <4>1
      <4>2. CASE y # x BY <2>3, <2>4, <3>1, <4>2 DEF RegistryInv, RowsInv, RowsConsistent, LifecyclesAgree
      <4> QED BY <4>1, <4>2
    <3> QED BY <3>1 DEF LifecyclesAgree
  <2>7. TypeOK'
    BY <1>5, <2>1, <2>4 DEF RegistryInv, RowsInv, RowsConsistent, TypeOK, Labels
  <2>8. SpellingsDiffer'
    BY <1>5, <2>3 DEF RegistryInv, RowsInv, SpellingsDiffer, Labels
  <2>9. Shapes' BY <1>5, <2>4 DEF RegistryInv, RowsInv, Shapes
  <2> QED BY <1>5, <2>6, <2>7, <2>8, <2>9, CommitShape, RegistryCommits DEF RowsInv, RowsConsistent
<1> QED BY <1>1, <1>4, <1>5 DEF Write

LEMMA Inserting ==
  ASSUME VersionsInv, RegistryInv, NEW c \in Clients, InsertVersion(c)
  PROVE  RegistryInv'
<1>1. PICK w, d, now : /\ w = call[c] /\ d = w.row
                       /\ now = (current[d] \ w.clear) \cup (IF w.make THEN {w.label} ELSE {})
  OBVIOUS
<1>2. /\ d \in Documents /\ w.label \in Spellings /\ w.sum \in Checksums
      /\ c \notin stale => \A v \in Labels(d) : Fold(v) # Fold(w.label)
  BY <1>1 DEF RegistryInv, CallsInv, Typed, Fresh, InsertVersion, VersionsInv, CallsOK, CallOK
<1>3. CASE ~Insertable(d, now, w.label, w.sum)
  BY <1>1, <1>3, RegistryEnds DEF InsertVersion
<1>4. CASE Insertable(d, now, w.label, w.sum)
  <2>1. /\ versions' = [versions EXCEPT ![d] =
              [v \in Labels(d) \cup {w.label} |-> IF v = w.label THEN w.sum ELSE versions[d][v]]]
        /\ current' = [current EXCEPT ![d] = now]
        /\ Commit(c) /\ record' = record /\ filed' = filed /\ identifiers' = identifiers
    BY <1>1, <1>4 DEF InsertVersion
  <2>2. raced' = (raced \/ c \in stale) /\ collated' = collated BY <2>1, CommitShape
  <2>3. /\ \A v \in Labels(d) : v # w.label /\ versions[d][v] # w.sum
        /\ \A v \in Labels(d) : Fold(v) # Fold(w.label) \/ (raced' /\ ~collated)
    BY <1>2, <1>4, <2>2 DEF Insertable, Same
  <2>4. /\ DOMAIN versions'[d] = Labels(d) \cup {w.label}
        /\ versions'[d][w.label] = w.sum
        /\ \A v \in Labels(d) : versions'[d][v] = versions[d][v]
        /\ \A e \in Documents \ {d} : versions'[e] = versions[e]
    BY <1>2, <2>1, <2>3 DEF VersionsInv, RowsOK
  <2>5. ASSUME NEW e \in Documents, NEW v \in DOMAIN versions'[e], NEW u \in DOMAIN versions'[e], v # u
        PROVE  /\ versions'[e][v] # versions'[e][u]
               /\ Fold(v) # Fold(u) \/ (raced' /\ ~collated')
    <3>1. \A a, b \in Labels(e) : a # b =>
            versions[e][a] # versions[e][b] /\ (Fold(a) # Fold(b) \/ (raced /\ ~collated))
      BY DEF RegistryInv, RowsInv, SpellingsDiffer
    <3>2. CASE e # d BY <2>2, <2>4, <2>5, <3>1, <3>2 DEF Labels
    <3>3. CASE e = d /\ v \in Labels(d) /\ u \in Labels(d) BY <2>2, <2>4, <2>5, <3>1, <3>3
    <3>4. CASE e = d /\ v \in Labels(d) /\ u = w.label BY <2>2, <2>3, <2>4, <3>4
    <3>5. CASE e = d /\ v = w.label /\ u \in Labels(d) BY <2>2, <2>3, <2>4, <3>5
    <3> QED BY <2>4, <2>5, <3>2, <3>3, <3>4, <3>5
  <2>6. SpellingsDiffer'
    <3>1. \A s, t \in identifiers : s # t => Fold(s) # Fold(t) \/ (raced' /\ ~collated')
      BY <2>2 DEF RegistryInv, RowsInv, SpellingsDiffer
    <3> QED BY <2>1, <2>5, <3>1 DEF SpellingsDiffer, Labels
  <2>7. TypeOK'
    <3>1. \A e \in Documents : DOMAIN versions[e] \subseteq DOMAIN versions'[e] BY <2>4 DEF Labels
    <3>2. VersionsInv' BY Insertion
    <3>3. \A e \in Documents : current'[e] \cup filed[e] \subseteq DOMAIN versions'[e]
      BY <3>1, <3>2 DEF VersionsInv, RowsOK, RegistryInv, RowsInv, RowsConsistent, TypeOK, Labels
    <3>4. \A e \in Documents : /\ DOMAIN versions'[e] \subseteq Spellings
                                /\ \A v \in DOMAIN versions'[e] : versions'[e][v] \in Checksums
      BY <1>2, <2>4 DEF RegistryInv, RowsInv, RowsConsistent, TypeOK, Labels
    <3> QED BY <2>1, <3>3, <3>4 DEF RegistryInv, RowsInv, RowsConsistent, TypeOK, Labels
  <2>8. LifecyclesAgree'
    BY <2>1, <2>2 DEF RegistryInv, RowsInv, RowsConsistent, LifecyclesAgree
  <2>9. Shapes' BY <2>1 DEF RegistryInv, RowsInv, Shapes
  <2> QED BY <2>1, <2>6, <2>7, <2>8, <2>9, CommitShape, RegistryCommits DEF RowsInv, RowsConsistent
<1> QED BY <1>3, <1>4

LEMMA PointingKeepsRows ==
  ASSUME VersionsInv, RegistryInv, NEW c \in Clients, PointToVersion(c)
  PROVE  RegistryInv'
<1>1. CASE End(c) BY <1>1, RegistryEnds
<1>2. CASE Commit(c) /\ UNCHANGED <<record, versions, filed, identifiers>>
  <2>1. raced' = (raced \/ c \in stale) /\ collated' = collated BY <1>2, CommitShape
  <2>2. VersionsInv' BY Pointing
  <2>3. \A d \in Documents : current'[d] \subseteq DOMAIN versions[d]
    BY <1>2, <2>2 DEF VersionsInv, RowsOK, Labels
  <2>4. TypeOK'
    BY <1>2, <2>3 DEF RegistryInv, RowsInv, RowsConsistent, TypeOK, Labels
  <2>5. LifecyclesAgree'
    BY <1>2, <2>1 DEF RegistryInv, RowsInv, RowsConsistent, LifecyclesAgree
  <2>6. SpellingsDiffer'
    BY <1>2, <2>1 DEF RegistryInv, RowsInv, SpellingsDiffer, Labels
  <2>7. Shapes' BY <1>2 DEF RegistryInv, RowsInv, Shapes
  <2> QED BY <1>2, <2>4, <2>5, <2>6, <2>7, CommitShape, RegistryCommits DEF RowsInv, RowsConsistent
<1> QED BY <1>1, <1>2 DEF PointToVersion

LEMMA LookingKeepsRows ==
  ASSUME VersionsInv, RegistryInv, NEW c \in Clients, LookAtVersions(c) \/ LookAtCurrent(c)
  PROVE  RegistryInv'
<1>1. CASE LookAtVersions(c)
  <2>1. PICK w : w = call[c] OBVIOUS
  <2>2. w.label \in Spellings /\ w.sum \in Checksums
    BY <1>1, <2>1 DEF LookAtVersions, RegistryInv, CallsInv, Typed
  <2> DEFINE next == [op |-> "insert", row |-> w.row, label |-> w.label, sum |-> w.sum,
                      make |-> MakesCurrent(w),
                      clear |-> IF MakesCurrent(w) THEN Cleared(w) ELSE {}]
  <2>3. CASE End(c) BY <2>3, RegistryEnds
  <2>4. CASE ~End(c)
    <3>1. /\ \A v \in Labels(w.row) : Fold(v) # Fold(w.label)
          /\ call' = [call EXCEPT ![c] = next] /\ UNCHANGED <<rowVars, collated, raced, stale>>
      BY <1>1, <2>1, <2>4 DEF LookAtVersions
    <3>2. next.op = "insert" /\ next.label = w.label /\ next.sum = w.sum /\ next.row = w.row OBVIOUS
    <3> HIDE DEF next
    <3>3. Typed(next) /\ Fresh(next) BY <2>2, <3>1, <3>2 DEF Typed, Fresh
    <3> QED BY <3>1, <3>3, RegistryMoves
  <2> QED BY <2>3, <2>4
<1>2. CASE LookAtCurrent(c)
  <2> DEFINE next == [op |-> "point", row |-> call[c].row, label |-> call[c].label,
                      clear |-> Cleared(call[c])]
  <2>1. Typed(next) /\ Fresh(next) BY DEF Typed, Fresh
  <2>2. call' = [call EXCEPT ![c] = next] /\ UNCHANGED <<rowVars, collated, raced, stale>>
    BY <1>2 DEF LookAtCurrent
  <2> HIDE DEF next
  <2> QED BY <2>1, <2>2, RegistryMoves
<1> QED BY <1>1, <1>2

LEMMA LoadingKeepsRows ==
  ASSUME VersionsInv, RegistryInv, NEW c \in Clients, LoadDocument(c)
  PROVE  RegistryInv'
<1>1. ASSUME NEW d, NEW label \in Spellings, NEW sum \in Checksums, NEW wanted,
             Begin(c, "version", [op |-> "version", row |-> d, label |-> label, sum |-> sum,
                   wanted |-> wanted, known |-> Labels(d), copy |-> current[d]])
      PROVE  RegistryInv'
  <2> DEFINE w == [op |-> "version", row |-> d, label |-> label, sum |-> sum,
                   wanted |-> wanted, known |-> Labels(d), copy |-> current[d]]
  <2>1. Typed(w) /\ Fresh(w) BY DEF Typed, Fresh
  <2> QED BY <1>1, <2>1, RegistryBegins
<1>2. ASSUME NEW d, NEW label,
             Begin(c, "current", [op |-> "current", row |-> d, label |-> label,
                   known |-> Labels(d), copy |-> current[d]])
      PROVE  RegistryInv'
  <2> DEFINE w == [op |-> "current", row |-> d, label |-> label,
                   known |-> Labels(d), copy |-> current[d]]
  <2>1. Typed(w) /\ Fresh(w) BY DEF Typed, Fresh
  <2> QED BY <1>2, <2>1, RegistryBegins
<1> QED BY <1>1, <1>2 DEF LoadDocument

LEMMA FilingKeepsRows ==
  ASSUME VersionsInv, RegistryInv, NEW c \in Clients, RegisterFile(c)
  PROVE  RegistryInv'
<1>1. PICK d \in Documents : \E v \in Labels(d) : filed' = [filed EXCEPT ![d] = @ \cup {v}]
  BY DEF RegisterFile
<1>2. PICK v \in Labels(d) : filed' = [filed EXCEPT ![d] = @ \cup {v}] BY <1>1
<1>3. /\ UNCHANGED <<collated, record, versions, current, identifiers, call, raced>>
      /\ \A e \in Clients : Busy(e) => e \in stale'
  BY DEF RegisterFile
<1>4. /\ filed' = [e \in Documents |-> filed'[e]]
      /\ filed'[d] = filed[d] \cup {v} /\ \A e \in Documents \ {d} : filed'[e] = filed[e]
  BY <1>2 DEF RegistryInv, RowsInv, Shapes
<1>5. \A e \in Documents : filed'[e] \subseteq Labels(e)
  BY <1>4 DEF RegistryInv, RowsInv, RowsConsistent, TypeOK
<1>6. TypeOK' BY <1>3, <1>5 DEF RegistryInv, RowsInv, RowsConsistent, TypeOK, Labels
<1>7. LifecyclesAgree' /\ SpellingsDiffer' /\ Shapes'
  BY <1>3, <1>4 DEF RegistryInv, RowsInv, RowsConsistent, LifecyclesAgree, SpellingsDiffer, Shapes, Labels
<1> QED BY <1>3, <1>6, <1>7, RegistryCommits DEF RowsInv, RowsConsistent, Busy

LEMMA Identifying ==
  ASSUME VersionsInv, RegistryInv, NEW c \in Clients,
         CheckIdentifier(c) \/ InsertIdentifier(c) \/ RemoveIdentifier(c)
  PROVE  RegistryInv'
<1>1. CASE CheckIdentifier(c)
  <2>1. PICK d \in Documents, s \in Spellings :
          Unused(s) /\ Begin(c, "identifier", [op |-> "identify", row |-> d, label |-> s])
    BY <1>1 DEF CheckIdentifier
  <2> DEFINE w == [op |-> "identify", row |-> d, label |-> s]
  <2>2. Typed(w) BY DEF Typed
  <2>3. Fresh(w) BY <2>1 DEF Fresh, Unused
  <2> QED BY <2>1, <2>2, <2>3, RegistryBegins
<1>2. CASE InsertIdentifier(c)
  <2>1. PICK l : l = call[c].label OBVIOUS
  <2>2. l \in Spellings /\ (c \notin stale => \A t \in identifiers : Fold(t) # Fold(l))
    BY <1>2, <2>1 DEF InsertIdentifier, RegistryInv, CallsInv, Typed, Fresh
  <2>3. CASE \E t \in identifiers : Same(t, l)
    BY <1>2, <2>1, <2>3, RegistryEnds DEF InsertIdentifier
  <2>4. CASE ~\E t \in identifiers : Same(t, l)
    <3>1. /\ identifiers' = identifiers \cup {l} /\ Commit(c)
          /\ UNCHANGED <<record, versions, current, filed>>
      BY <1>2, <2>1, <2>4 DEF InsertIdentifier
    <3>2. raced' = (raced \/ c \in stale) /\ collated' = collated BY <3>1, CommitShape
    <3>3. \A t \in identifiers : Fold(t) # Fold(l) \/ (raced' /\ ~collated)
      BY <2>2, <2>4, <3>2 DEF Same
    <3>4. SpellingsDiffer'
      BY <3>1, <3>2, <3>3 DEF RegistryInv, RowsInv, SpellingsDiffer, Labels
    <3>5. TypeOK' BY <2>2, <3>1 DEF RegistryInv, RowsInv, RowsConsistent, TypeOK, Labels
    <3>6. LifecyclesAgree' /\ Shapes'
      BY <3>1, <3>2 DEF RegistryInv, RowsInv, RowsConsistent, LifecyclesAgree, Shapes
    <3> QED BY <3>1, <3>4, <3>5, <3>6, CommitShape, RegistryCommits DEF RowsInv, RowsConsistent
  <2> QED BY <2>3, <2>4
<1>3. CASE RemoveIdentifier(c)
  <2>1. /\ identifiers' \subseteq identifiers
        /\ UNCHANGED <<collated, record, versions, current, filed, call, raced>>
        /\ \A e \in Clients : Busy(e) => e \in stale'
    BY <1>3 DEF RemoveIdentifier
  <2>2. RowsInv'
    BY <2>1 DEF RegistryInv, RowsInv, RowsConsistent, TypeOK, LifecyclesAgree, SpellingsDiffer, Shapes, Labels
  <2> QED BY <2>1, <2>2, RegistryCommits DEF Busy
<1> QED BY <1>1, <1>2, <1>3

LEMMA RegistryStep == VersionsInv /\ RegistryInv /\ [Next]_vars => RegistryInv'
<1> SUFFICES ASSUME VersionsInv, RegistryInv, [Next]_vars PROVE RegistryInv'
  OBVIOUS
<1>1. CASE UNCHANGED vars
  <2>1. RowsInv' BY <1>1, SameRows DEF vars, RegistryInv
  <2>2. CallsInv' BY <1>1 DEF vars, RegistryInv, CallsInv, Fresh, Labels
  <2> QED BY <2>1, <2>2 DEF RegistryInv
<1> QED BY <1>1, Registering, Archiving, Writing, Inserting, PointingKeepsRows, LookingKeepsRows,
           LoadingKeepsRows, FilingKeepsRows, Identifying DEF Next

LEMMA RegistryInit == Init => RegistryInv
<1> SUFFICES ASSUME Init PROVE RegistryInv
  OBVIOUS
<1>1. Registered \in Values /\ ~Registered.archived
  BY DEF Registered, Values, DocumentStatuses
<1>2. \A x \in Records : record[x] \in {None, Registered} BY DEF Init
<1>3. \A d \in Documents : Labels(d) = {} /\ current[d] = {} /\ filed[d] = {}
  <2>1. DOMAIN << >> = {} OBVIOUS
  <2> QED BY <2>1 DEF Init, Labels
<1>4. TypeOK BY <1>1, <1>2, <1>3 DEF Init, TypeOK
<1>5. LifecyclesAgree BY <1>1, <1>2 DEF LifecyclesAgree
<1>6. SpellingsDiffer BY <1>3 DEF Init, SpellingsDiffer
<1>7. Shapes BY DEF Init, Shapes
<1>8. CallsInv BY IdleIsTyped DEF Init, CallsInv
<1> QED BY <1>4, <1>5, <1>6, <1>7, <1>8 DEF RegistryInv, RowsInv, RowsConsistent

(* However calls overlap, a document is never active and archived at once    *)
(* (ck_documents_lifecycle), and a source only after two calls have raced;   *)
(* an archived document has archived status unless two have                  *)
(* (_validate_lifecycle of the two services).                                *)
THEOREM LifecyclesAreConsistent == Spec => []RowsConsistent
<1>1. RegistryInv => RowsConsistent BY DEF RegistryInv, RowsInv
<1> QED BY VersionsInit, VersionsStep, RegistryInit, RegistryStep, <1>1, PTL DEF Spec

(* No two versions of a document share a checksum, and none share a label,   *)
(* nor two identifiers a value, but for the case they are written in, unless *)
(* calls overlapped on a database that tells case apart (register_version,   *)
(* add_identifier and the unique constraints).                               *)
THEOREM SpellingsStayApart == Spec => []SpellingsDiffer
<1>1. RegistryInv => SpellingsDiffer BY DEF RegistryInv, RowsInv
<1> QED BY VersionsInit, VersionsStep, RegistryInit, RegistryStep, <1>1, PTL DEF Spec
=============================================================================
