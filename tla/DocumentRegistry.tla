-------------------------- MODULE DocumentRegistry --------------------------
(***************************************************************************)
(* The registry of sources and documents (services/source_service.py,      *)
(* services/document_service.py over models/source.py, models/document.py):*)
(* the life cycle of a source and of its documents, the versions of a      *)
(* document and which of them is current, file metadata and identifiers.   *)
(* A call loads the row, decides on that copy, and at its commit writes    *)
(* the columns it changed; nothing is locked, so calls of several clients  *)
(* interleave and only the constraints of the tables stand between them.   *)
(* The eligibility of a document for ingestion is only read from here; it  *)
(* is a flag of the document in IngestionOrchestration.                    *)
(***************************************************************************)
EXTENDS Naturals

CONSTANTS Documents, Sources,
          Spellings,      \* version labels and identifier values as written
          Fold(_),        \* a spelling without its case
          Checksums,
          Clients,
          Slices,         \* bound: the operations of one behaviour
          MaxOverlaps,    \* bound: calls begun while another is in progress
          None

(* Sources and documents are rows of different tables.                     *)
ASSUME RecordsAssumption == Documents \cap Sources = {}

VARIABLES collated,    \* the database compares text ignoring case (MySQL)
          slice,
          record,      \* the life-cycle columns of a source or document
          versions,    \* per document, label -> checksum
          current,     \* per document, the labels with is_current set
          filed,       \* per document, the labels with a file
          identifiers, \* identifier values, of whatever document
          call,        \* what each client is doing
          stale,       \* clients whose call began before the last commit
          overlaps,
          raced        \* history: a call wrote after another one's commit

vars == <<collated, slice, record, versions, current, filed, identifiers,
          call, stale, overlaps, raced>>
rowVars == <<record, versions, current, filed, identifiers>>

Records == Documents \cup Sources
Columns == {"active", "archived", "status"}
DocumentStatuses == {"registered", "published", "archived"}
Values == [active : BOOLEAN, archived : BOOLEAN, status : DocumentStatuses]

(* Sources have no status of this kind.                                    *)
Own(x) == IF x \in Documents THEN Columns ELSE Columns \ {"status"}

Idle == [op |-> "idle"]
Busy(c) == call[c] # Idle

Begin(c, op, what) ==
  /\ ~Busy(c) /\ op \in slice
  /\ LET others == \E e \in Clients \ {c} : Busy(e)
     IN /\ others => overlaps < MaxOverlaps
        /\ overlaps' = IF others THEN overlaps + 1 ELSE overlaps
  /\ call' = [call EXCEPT ![c] = what]
  /\ UNCHANGED <<collated, slice, rowVars, stale, raced>>

(* A commit: every call in progress now works on an older database.        *)
Commit(c) ==
  /\ raced' = (raced \/ c \in stale)
  /\ stale' = {e \in Clients \ {c} : Busy(e)}
  /\ call' = [call EXCEPT ![c] = Idle]
  /\ UNCHANGED <<collated, slice, overlaps>>

(* A refused commit or a call that changes nothing.                        *)
End(c) == /\ call' = [call EXCEPT ![c] = Idle]
          /\ stale' = stale \ {c}
          /\ UNCHANGED <<collated, slice, rowVars, overlaps, raced>>

-----------------------------------------------------------------------------
(* Life cycle *)

(* _validate_lifecycle of the two services.                                *)
\* bug: the rule about the status is forgotten
ActiveRuleOnly(x, v) == ~(v.active /\ v.archived)
ValidLifecycle(x, v) ==
  /\ ~(v.active /\ v.archived)
  /\ x \in Documents /\ v.archived => v.status = "archived"

(* ck_documents_lifecycle; the sources table has no such constraint.       *)
StoredLifecycle(x, v) == x \in Documents => ~(v.active /\ v.archived)

(* register_document, create_source.                                       *)
Register(c) ==
  \E x \in Records : \E v \in Values :
    /\ record[x] = None
    /\ \A e \in Clients : Busy(e) => call[e].row # x
    /\ x \in Documents => \E s \in Sources : record[s] # None
    /\ x \in Sources => v.status = "registered"
    /\ ValidLifecycle(x, v)
    /\ Begin(c, "register", [op |-> "write", row |-> x, new |-> v, columns |-> Columns])

(* update_document, update_source: the new values are validated together   *)
(* with the copy of the columns the request leaves alone.                  *)
Update(c) ==
  \E x \in Records : \E v \in Values :
    LET copy == record[x]
    IN /\ copy # None
       /\ \A k \in Columns \ Own(x) : v[k] = copy[k]
       /\ v # copy
       /\ ValidLifecycle(x, v)
       /\ Begin(c, "update", [op |-> "write", row |-> x, new |-> v,
                              columns |-> {k \in Columns : v[k] # copy[k]}])

Archived(v) == [v EXCEPT !.active = FALSE, !.archived = TRUE, !.status = "archived"]
Restored(v) == [v EXCEPT !.active = TRUE, !.archived = FALSE,
                         !.status = IF v.status = "archived" THEN "registered" ELSE v.status]
OfSource(x, v) == IF x \in Sources THEN [v EXCEPT !.status = "registered"] ELSE v

(* archive_document, archive_source, restore_document, restore_source: set *)
(* without a check, but a column the copy already has is not written.      *)
ArchiveOrRestore(c) ==
  \E x \in Records :
    LET copy == record[x]
    IN /\ copy # None
       /\ \E v \in {OfSource(x, Archived(copy)), OfSource(x, Restored(copy))} :
            Begin(c, "archive", [op |-> "write", row |-> x, new |-> v,
                                 columns |-> {k \in Columns : v[k] # copy[k]}])

Overwrite(w) ==
  IF record[w.row] = None THEN w.new
  ELSE [k \in Columns |-> IF k \in w.columns THEN w.new[k] ELSE record[w.row][k]]

Write(c) ==
  /\ Busy(c) /\ call[c].op = "write"
  /\ LET x == call[c].row
         v == Overwrite(call[c])
     IN \/ /\ StoredLifecycle(x, v)
           /\ record' = [record EXCEPT ![x] = v]
           /\ Commit(c)
           /\ UNCHANGED <<versions, current, filed, identifiers>>
        \/ ~StoredLifecycle(x, v) /\ End(c)

-----------------------------------------------------------------------------
(* Versions *)

Labels(d) == DOMAIN versions[d]
Same(a, b) == IF collated THEN Fold(a) = Fold(b) ELSE a = b

(* register_version and set_current_version first load the document with   *)
(* its versions, and keep those copies for the rest of the session.        *)
LoadDocument(c) ==
  \E d \in Documents : record[d] # None /\
    \/ \E label \in Spellings, sum \in Checksums, wanted \in BOOLEAN :
         Begin(c, "version", [op |-> "version", row |-> d, label |-> label, sum |-> sum,
               wanted |-> wanted, known |-> Labels(d), copy |-> current[d]])
    \/ \E label \in Labels(d) \ current[d] :
         Begin(c, "current", [op |-> "current", row |-> d, label |-> label,
               known |-> Labels(d), copy |-> current[d]])

(* The versions the database says are current and whose copy in the        *)
(* session says so too: for the others setting False changes nothing.      *)
Cleared(w) == {v \in current[w.row] : v \in w.known => v \in w.copy}

(* The first version of a document is current in any case.                 *)
\* bug: it becomes current only if the request asks for it
WantedOnly(w) == w.wanted
MakesCurrent(w) == w.wanted \/ current[w.row] = {}

(* register_version: the duplicate check, which ignores case, and the      *)
(* query for the current version.                                          *)
LookAtVersions(c) ==
  /\ Busy(c) /\ call[c].op = "version"
  /\ LET w == call[c]
     IN IF \E v \in Labels(w.row) : Fold(v) = Fold(w.label) \/ versions[w.row][v] = w.sum
        THEN End(c)
        ELSE /\ call' = [call EXCEPT ![c] =
                  [op |-> "insert", row |-> w.row, label |-> w.label, sum |-> w.sum,
                   make |-> MakesCurrent(w),
                   clear |-> IF MakesCurrent(w) THEN Cleared(w) ELSE {}]]
             /\ UNCHANGED <<collated, slice, rowVars, stale, overlaps, raced>>

(* set_current_version: the query for the versions to clear.               *)
LookAtCurrent(c) ==
  /\ Busy(c) /\ call[c].op = "current"
  /\ call' = [call EXCEPT ![c] = [op |-> "point", row |-> call[c].row, label |-> call[c].label,
                                  clear |-> Cleared(call[c])]]
  /\ UNCHANGED <<collated, slice, rowVars, stale, overlaps, raced>>

(* uq_document_version, uq_document_version_checksum and                   *)
(* uq_document_current_version, where a version that is not current holds  *)
(* NULL and so conflicts with none.                                        *)
AtMostOne(S) == \A v, w \in S : v = w
Insertable(d, now, label, sum) ==
  /\ \A v \in Labels(d) : ~Same(v, label) /\ versions[d][v] # sum
  /\ AtMostOne(now)

InsertVersion(c) ==
  /\ Busy(c) /\ call[c].op = "insert"
  /\ LET w == call[c]
         d == w.row
         now == (current[d] \ w.clear) \cup (IF w.make THEN {w.label} ELSE {})
     IN IF Insertable(d, now, w.label, w.sum)
        THEN /\ versions' = [versions EXCEPT ![d] =
                  [v \in Labels(d) \cup {w.label} |-> IF v = w.label THEN w.sum ELSE versions[d][v]]]
             /\ current' = [current EXCEPT ![d] = now]
             /\ Commit(c)
             /\ UNCHANGED <<record, filed, identifiers>>
        ELSE End(c)

PointToVersion(c) ==
  /\ Busy(c) /\ call[c].op = "point"
  /\ LET w == call[c]
         now == (current[w.row] \ w.clear) \cup {w.label}
     IN IF AtMostOne(now)
        THEN /\ current' = [current EXCEPT ![w.row] = now]
             /\ Commit(c)
             /\ UNCHANGED <<record, versions, filed, identifiers>>
        ELSE End(c)

(* register_file_metadata: versions are never deleted, so the check and    *)
(* the insertion are one step.                                             *)
RegisterFile(c) ==
  /\ ~Busy(c) /\ "file" \in slice
  /\ \E d \in Documents : \E v \in Labels(d) \ filed[d] :
       filed' = [filed EXCEPT ![d] = @ \cup {v}]
  /\ stale' = {e \in Clients : Busy(e)}
  /\ UNCHANGED <<collated, slice, record, versions, current, identifiers,
                 call, overlaps, raced>>

-----------------------------------------------------------------------------
(* Identifiers *)

(* add_identifier: no document has the value, whatever its case.           *)
\* bug: the check compares the spelling as it is stored
ExactCheck(s) == s \notin identifiers
Unused(s) == \A t \in identifiers : Fold(t) # Fold(s)

CheckIdentifier(c) ==
  \E d \in Documents, s \in Spellings :
    /\ record[d] # None
    /\ Unused(s)
    /\ Begin(c, "identifier", [op |-> "identify", row |-> d, label |-> s])

InsertIdentifier(c) ==
  /\ Busy(c) /\ call[c].op = "identify"
  /\ IF \E t \in identifiers : Same(t, call[c].label) THEN End(c)
     ELSE /\ identifiers' = identifiers \cup {call[c].label}
          /\ Commit(c)
          /\ UNCHANGED <<record, versions, current, filed>>

(* remove_identifier: the row is gone in any case.                         *)
RemoveIdentifier(c) ==
  /\ ~Busy(c) /\ "identifier" \in slice
  /\ \E s \in identifiers : identifiers' = identifiers \ {s}
  /\ stale' = {e \in Clients : Busy(e)}
  /\ UNCHANGED <<collated, slice, record, versions, current, filed,
                 call, overlaps, raced>>

(* A behaviour without registrations starts with a source and documents    *)
(* that were registered with the defaults.                                 *)
Registered == [active |-> TRUE, archived |-> FALSE, status |-> "registered"]

Init ==
  /\ collated \in BOOLEAN
  /\ slice \in Slices
  /\ record = [x \in Records |-> IF "register" \in slice THEN None ELSE Registered]
  /\ versions = [d \in Documents |-> <<>>]
  /\ current = [d \in Documents |-> {}]
  /\ filed = [d \in Documents |-> {}]
  /\ identifiers = {}
  /\ call = [c \in Clients |-> Idle]
  /\ stale = {}
  /\ overlaps = 0
  /\ raced = FALSE

Next ==
  \E c \in Clients :
    \/ Register(c) \/ Update(c) \/ ArchiveOrRestore(c) \/ Write(c)
    \/ LoadDocument(c) \/ LookAtVersions(c) \/ LookAtCurrent(c)
    \/ InsertVersion(c) \/ PointToVersion(c) \/ RegisterFile(c)
    \/ CheckIdentifier(c) \/ InsertIdentifier(c) \/ RemoveIdentifier(c)

Spec == Init /\ [][Next]_vars

-----------------------------------------------------------------------------
(* Rows have the columns of their tables, and is_current and files belong  *)
(* to versions that exist.                                                 *)
TypeOK ==
  /\ \A x \in Records : record[x] = None \/ record[x] \in Values
  /\ \A d \in Documents : /\ Labels(d) \subseteq Spellings
                          /\ \A v \in Labels(d) : versions[d][v] \in Checksums
                          /\ current[d] \cup filed[d] \subseteq Labels(d)
  /\ identifiers \subseteq Spellings

(* A document that has versions has exactly one current version, however   *)
(* registrations and changes of the current version interleave: a call     *)
(* that clears what another made current is refused by the constraint, and *)
(* none ends with the old one cleared and no new one.                      *)
OneCurrentVersion ==
  \A d \in Documents : Labels(d) # {} => \E v \in Labels(d) : current[d] = {v}

(* "An archived document cannot be active", "An archived document must     *)
(* have archived status": the first of a document whatever happens, since  *)
(* the table has a constraint; the rest unless two calls overlapped.       *)
LifecyclesAgree ==
  \A x \in Records : record[x] # None =>
    LET v == record[x]
    IN /\ v.active /\ v.archived => raced /\ x \in Sources
       /\ x \in Documents /\ v.archived => raced \/ v.status = "archived"

(* "Document version or checksum already exists", "Document identifier     *)
(* already exists": no two versions of a document or identifiers differ    *)
(* only by case, unless calls overlapped on a database that tells case     *)
(* apart; no two versions have one checksum in any case.                   *)
SpellingsDiffer ==
  /\ \A d \in Documents : \A v, w \in Labels(d) :
       v # w => /\ versions[d][v] # versions[d][w]
                /\ Fold(v) # Fold(w) \/ (raced /\ ~collated)
  /\ \A s, t \in identifiers : s # t => Fold(s) # Fold(t) \/ (raced /\ ~collated)

(* The rows have their types, and the lifecycle fields of each agree.      *)
RowsConsistent == TypeOK /\ LifecyclesAgree
=============================================================================
