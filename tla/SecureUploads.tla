---------------------------- MODULE SecureUploads ----------------------------
(* Upload sessions (services/storage_service.py): rows in the database,      *)
(* objects in a storage provider, and requests that change both without a    *)
(* transaction around the two.  Each request makes one API call and is split *)
(* where another request, or a crash, can come in: at its locking read, its  *)
(* provider calls and its commits.  A file is what its SHA-256 tells apart.  *)
EXTENDS FiniteSets

CONSTANTS
    Uploads,     \* upload_sessions rows
    Contents,    \* file contents, told apart by their hash
    Paths,       \* storage paths; a stored file gets a fresh one
    Requests,    \* concurrent API requests, one call each
    RowLocks,    \* does FOR UPDATE lock (not on SQLite)?
    None

ASSUME ModeAssumption == RowLocks \in BOOLEAN
ASSUME NoneAssumption == None \notin Paths \cup Contents \cup Uploads \cup Requests
ASSUME NoFileAssumption == None \notin [content : Contents, path : Paths]

VARIABLES
    status,       \* UploadSession.status as committed, "absent" before creation
    completedAt,  \* is UploadSession.completed_at set?
    cancelledAt,  \* is UploadSession.cancelled_at set?
    overdue,      \* has expires_at passed?
    file,         \* the StoredFile row of the session: content and path, or None
    objects,      \* paths at which the provider holds an object
    lock,         \* which request holds the row's lock
    request       \* what each request is doing

rows == <<status, completedAt, cancelledAt, file>>
vars == <<rows, overdue, objects, lock, request>>

-----------------------------------------------------------------------------
TerminalUploadStatuses == {"completed", "cancelled", "expired"}
UploadStatuses == TerminalUploadStatuses \cup {"created", "receiving", "validating", "failed"}

(* What a request remembers: the row's status and completed_at as it read    *)
(* them, since only the columns it changes from there are written.           *)
Idle == [op |-> "none", pc |-> "idle", upload |-> None, content |-> None, path |-> None,
         was |-> None, completed |-> FALSE]

At(r, pc) == request[r].pc = pc

(* Row locks are taken by a locking read; the write transaction that a flush *)
(* opens locks the row, and on SQLite the whole database.                    *)
ForUpdateIgnored(r, u) == TRUE    \* bug: _locked_session without with_for_update
CanRead(r, u) == RowLocks => lock[u] \in {None, r}
ReadLock(r, u) == lock' = IF RowLocks THEN [lock EXCEPT ![u] = r] ELSE lock
CanWrite(r, u) ==
    IF RowLocks THEN lock[u] \in {None, r} ELSE \A v \in Uploads : lock[v] \in {None, r}
WriteLock(r, u) ==
    lock' = IF RowLocks THEN [lock EXCEPT ![u] = r] ELSE [v \in Uploads |-> r]
NotRolledBack(r) == UNCHANGED lock    \* bug: an error path that neither commits nor rolls back
Unlock(r) == lock' = [v \in Uploads |-> IF lock[v] = r THEN None ELSE lock[v]]

Goto(r, pc) == request' = [request EXCEPT ![r].pc = pc]

(* Commit or roll back and go on at pc.                                      *)
Leave(r, pc) == Goto(r, pc) /\ Unlock(r)

Init ==
    /\ status = [u \in Uploads |-> "absent"]
    /\ completedAt = [u \in Uploads |-> FALSE]
    /\ cancelledAt = [u \in Uploads |-> FALSE]
    /\ overdue = [u \in Uploads |-> FALSE]
    /\ file = [u \in Uploads |-> None]
    /\ objects = {}
    /\ lock = [u \in Uploads |-> None]
    /\ request = [r \in Requests |-> Idle]

CreateUploadSession(r, u) ==
    /\ At(r, "idle")
    /\ status[u] = "absent"
    /\ CanWrite(r, u)
    /\ status' = [status EXCEPT ![u] = "created"]
    /\ UNCHANGED <<completedAt, cancelledAt, file, overdue, objects, lock, request>>

BecomeOverdue(u) ==
    /\ status[u] # "absent"
    /\ ~overdue[u]
    /\ overdue' = [overdue EXCEPT ![u] = TRUE]
    /\ UNCHANGED <<rows, objects, lock, request>>

-----------------------------------------------------------------------------
(* POST /uploads/{id}: store_file, then complete_upload.                     *)
StoreRead(r, u, c) ==
    /\ At(r, "idle")
    /\ status[u] # "absent"
    /\ CanRead(r, u)
    /\ request' = [request EXCEPT ![r] =
         [Idle EXCEPT !.op = "upload", !.upload = u, !.content = c,
            !.pc = IF overdue[u] THEN "expire" ELSE IF status[u] = "created" THEN "flush" ELSE "done"]]
    /\ IF overdue[u] \/ status[u] # "created" THEN UNCHANGED lock ELSE ReadLock(r, u)
    /\ UNCHANGED <<rows, overdue, objects>>

(* The flush of status "receiving" opens the write transaction; nothing of   *)
(* it is visible before the commit.                                          *)
StoreFlush(r) ==
    /\ At(r, "flush")
    /\ CanWrite(r, request[r].upload)
    /\ WriteLock(r, request[r].upload)
    /\ Goto(r, "validate")
    /\ UNCHANGED <<rows, overdue, objects>>

Stored(c) == \E u \in Uploads : file[u] # None /\ file[u].content = c

(* Name, size, extension and MIME type may refuse any upload; a known        *)
(* SHA-256 always does.                                                      *)
Refused(r) == Goto(r, "failing")
StoreValidate(r) ==
    /\ At(r, "validate")
    /\ \/ Refused(r)
       \/ ~Stored(request[r].content) /\ Goto(r, "provide")
    /\ UNCHANGED <<rows, overdue, objects, lock>>

UsedPaths == objects \cup {request[r].path : r \in Requests}
                     \cup {file[u].path : u \in {v \in Uploads : file[v] # None}}

(* The provider writes to a temporary file and renames it: all or nothing.   *)
ProviderStore(r) ==
    /\ At(r, "provide")
    /\ \/ Goto(r, "failing") /\ UNCHANGED objects
       \/ \E p \in Paths \ UsedPaths :
            /\ objects' = objects \cup {p}
            /\ request' = [request EXCEPT ![r].path = p, ![r].pc = "commit"]
    /\ UNCHANGED <<rows, overdue, lock>>

(* The unique constraints on sha256 and upload_session_id are tried when the *)
(* row is flushed; the flush or the commit may fail for other reasons too,   *)
(* and only a failed commit has rolled back before the object is deleted.    *)
ViolatesUnique(u, c) == file[u] # None \/ Stored(c)
StoreCommit(r) == LET u == request[r].upload IN
    /\ At(r, "commit")
    /\ \/ /\ ~ViolatesUnique(u, request[r].content)
          /\ status' = [status EXCEPT ![u] = "validating"]
          /\ file' = [file EXCEPT ![u] = [content |-> request[r].content, path |-> request[r].path]]
          /\ Leave(r, "reload")
       \/ Goto(r, "undo") /\ UNCHANGED <<status, file, lock>>
       \/ Leave(r, "undo") /\ UNCHANGED <<status, file>>
    /\ UNCHANGED <<completedAt, cancelledAt, overdue, objects>>

(* get_file after the commit is still inside the try: when it fails, or the   *)
(* row is gone again, the error handler deletes the object of a row that is  *)
(* committed.  What the request does from there on is called "revoke".       *)
StoreReload(r) == LET u == request[r].upload IN
    /\ At(r, "reload")
    /\ \/ file[u] # None /\ file[u].path = request[r].path /\ Goto(r, "complete")
       \/ request' = [request EXCEPT ![r].op = "revoke", ![r].pc = "revoke"]
    /\ UNCHANGED <<rows, overdue, objects, lock>>

ObjectKept(r) ==    \* bug: the new object is not deleted when the commit fails
    /\ request[r].pc \in {"undo", "revoke"}
    /\ Goto(r, "failing")
    /\ UNCHANGED <<rows, overdue, objects, lock>>
StoreUndo(r) ==
    /\ request[r].pc \in {"undo", "revoke"}
    /\ objects' = objects \ {request[r].path}
    /\ Goto(r, "failing")
    /\ UNCHANGED <<rows, overdue, lock>>

(* _mark_failed: roll back, read the row without a lock, and write "failed"  *)
(* when the status read was not a terminal one (nor "failed" already).       *)
MarkFailedRead(r) ==
    /\ At(r, "failing")
    /\ LET seen == status[request[r].upload]
       IN Leave(r, IF seen \in TerminalUploadStatuses \cup {"failed"} THEN "done" ELSE "mark")
    /\ UNCHANGED <<rows, overdue, objects>>

MarkFailedWrite(r) == LET u == request[r].upload IN
    /\ At(r, "mark")
    /\ CanWrite(r, u)
    /\ status' = [status EXCEPT ![u] = "failed"]
    /\ Goto(r, "done")
    /\ UNCHANGED <<completedAt, cancelledAt, file, overdue, objects, lock>>

(* complete_upload runs in the same session: it may still see the status     *)
(* store_file left, whatever the row says now; the file is looked up anew.   *)
CompleteRead(r) == LET u == request[r].upload IN
    /\ At(r, "complete")
    /\ CanRead(r, u)
    /\ \E seen \in {"validating", status[u]} :
         IF seen = "validating" /\ file[u] # None
         THEN Goto(r, "completing") /\ ReadLock(r, u)
         ELSE Goto(r, "done") /\ UNCHANGED lock
    /\ UNCHANGED <<rows, overdue, objects>>

(* ck_upload_sessions_terminal_state: not both completed and cancelled.      *)
CompleteWrite(r) == LET u == request[r].upload IN
    /\ At(r, "completing")
    /\ CanWrite(r, u)
    /\ IF cancelledAt[u]
       THEN UNCHANGED <<status, completedAt>>
       ELSE /\ status' = [status EXCEPT ![u] = "completed"]
            /\ completedAt' = [completedAt EXCEPT ![u] = TRUE]
    /\ Leave(r, "done")
    /\ UNCHANGED <<cancelledAt, file, overdue, objects>>

-----------------------------------------------------------------------------
(* cancel_upload, and expire_upload which store_file calls for an overdue    *)
(* session: read under the lock, delete the object, then commit the rows.    *)
RemovalRead(r, u, op) ==
    /\ CanRead(r, u)
    /\ IF status[u] \in TerminalUploadStatuses
       THEN request' = [request EXCEPT ![r] = [Idle EXCEPT !.pc = "done"]] /\ UNCHANGED lock
       ELSE /\ ReadLock(r, u)
            /\ request' = [request EXCEPT ![r] =
                 [Idle EXCEPT !.op = op, !.upload = u, !.completed = completedAt[u],
                              !.pc = IF file[u] = None THEN "removed" ELSE "remove",
                              !.path = IF file[u] = None THEN None ELSE file[u].path]]
    /\ UNCHANGED <<rows, overdue, objects>>

CancelRead(r, u) ==
    /\ At(r, "idle")
    /\ status[u] # "absent"
    /\ RemovalRead(r, u, "cancel")

ExpireRead(r) == At(r, "expire") /\ RemovalRead(r, request[r].upload, "expire")

(* delete_file_metadata reads without a lock, and whatever the status.       *)
DeleteRead(r, u) ==
    /\ At(r, "idle")
    /\ file[u] # None
    /\ request' = [request EXCEPT ![r] =
         [Idle EXCEPT !.op = "delete", !.pc = "remove", !.upload = u, !.path = file[u].path,
                      !.was = status[u], !.completed = completedAt[u]]]
    /\ UNCHANGED <<rows, overdue, objects, lock>>

RemoveObject(r) ==
    /\ At(r, "remove")
    /\ objects' = objects \ {request[r].path}
    /\ Goto(r, "removed")
    /\ UNCHANGED <<rows, overdue, lock>>

(* The row found before is deleted.  completed_at is cleared only when it    *)
(* was read set: a completion in between stays, and the constraint           *)
(* ck_upload_sessions_terminal_state then refuses a cancellation.            *)
RowKept(u, p) == file    \* bug: _remove_stored_file deletes the object but not its row
WithoutFile(u, p) ==
    IF p # None /\ file[u] # None /\ file[u].path = p THEN [file EXCEPT ![u] = None] ELSE file

WithoutCompletion(r) ==
    [completedAt EXCEPT ![request[r].upload] = @ /\ ~request[r].completed]

CancelWrite(r) == LET u == request[r].upload IN
    /\ At(r, "removed")
    /\ request[r].op = "cancel"
    /\ CanWrite(r, u)
    /\ IF WithoutCompletion(r)[u]
       THEN UNCHANGED rows
       ELSE /\ status' = [status EXCEPT ![u] = "cancelled"]
            /\ cancelledAt' = [cancelledAt EXCEPT ![u] = TRUE]
            /\ completedAt' = WithoutCompletion(r)
            /\ file' = WithoutFile(u, request[r].path)
    /\ Leave(r, "done")
    /\ UNCHANGED <<overdue, objects>>

ExpireWrite(r) == LET u == request[r].upload IN
    /\ At(r, "removed")
    /\ request[r].op = "expire"
    /\ CanWrite(r, u)
    /\ status' = [status EXCEPT ![u] = "expired"]
    /\ completedAt' = WithoutCompletion(r)
    /\ file' = WithoutFile(u, request[r].path)
    /\ Leave(r, "done")
    /\ UNCHANGED <<cancelledAt, overdue, objects>>

DeleteWrite(r) == LET u == request[r].upload IN
    /\ At(r, "removed")
    /\ request[r].op = "delete"
    /\ CanWrite(r, u)
    /\ status' = [status EXCEPT ![u] = IF request[r].was = "failed" THEN @ ELSE "failed"]
    /\ completedAt' = WithoutCompletion(r)
    /\ file' = WithoutFile(u, request[r].path)
    /\ Leave(r, "done")
    /\ UNCHANGED <<cancelledAt, overdue, objects>>

(* The process dies or loses its connection: the database rolls back, the    *)
(* provider does not.                                                        *)
Crash(r) ==
    /\ request[r].pc \notin {"idle", "done", "crashed"}
    /\ Leave(r, "crashed")
    /\ UNCHANGED <<rows, overdue, objects>>

Advance(r) ==
    \/ StoreFlush(r) \/ StoreValidate(r) \/ ProviderStore(r) \/ StoreCommit(r) \/ StoreReload(r)
    \/ StoreUndo(r)
    \/ MarkFailedRead(r) \/ MarkFailedWrite(r) \/ CompleteRead(r) \/ CompleteWrite(r)
    \/ ExpireRead(r) \/ RemoveObject(r) \/ CancelWrite(r) \/ ExpireWrite(r) \/ DeleteWrite(r)

Next ==
    \/ \E r \in Requests, u \in Uploads :
        \/ CreateUploadSession(r, u)
        \/ \E c \in Contents : StoreRead(r, u, c)
        \/ CancelRead(r, u)
        \/ DeleteRead(r, u)
    \/ \E r \in Requests : Advance(r) \/ Crash(r)
    \/ \E u \in Uploads : BecomeOverdue(u)

Spec == Init /\ [][Next]_vars

(* A request the server has begun to handle is not suspended for ever.       *)
FairSpec == Spec /\ \A r \in Requests : WF_vars(Advance(r))

-----------------------------------------------------------------------------
TypeOK ==
    /\ status \in [Uploads -> UploadStatuses \cup {"absent"}]
    /\ completedAt \in [Uploads -> BOOLEAN]
    /\ cancelledAt \in [Uploads -> BOOLEAN]
    /\ overdue \in [Uploads -> BOOLEAN]
    /\ file \in [Uploads -> [content : Contents, path : Paths] \cup {None}]
    /\ objects \subseteq Paths
    /\ lock \in [Uploads -> Requests \cup {None}]
    /\ request \in [Requests ->
         [op : {"none", "upload", "revoke", "cancel", "expire", "delete"},
          pc : {"idle", "expire", "flush", "validate", "provide", "commit", "reload", "undo", "revoke",
                "failing", "mark", "complete", "completing", "remove", "removed", "done", "crashed"},
          upload : Uploads \cup {None}, content : Contents \cup {None}, path : Paths \cup {None},
          was : UploadStatuses \cup {None}, completed : BOOLEAN]]

(* A completed upload has its metadata row and its object: no concurrent     *)
(* cancellation, expiry, error handler or second upload took either away.    *)
(* Only a deletion of its metadata may, or a removal that died half way.     *)
Removed(u) == \E r \in Requests :
    /\ request[r].upload = u
    /\ request[r].op = "delete" \/ (request[r].op \in {"cancel", "expire"} /\ At(r, "crashed"))
CompletedUploadsAreStored == \A u \in Uploads :
    status[u] = "completed" => Removed(u) \/ (file[u] # None /\ file[u].path \in objects)

(* "Cancellation, expiration, and metadata deletion similarly remove the     *)
(* provider object before committing metadata changes": no upload that runs  *)
(* beside a cancellation or an expiry leaves a file behind in the session    *)
(* they have ended.                                                          *)
EndedUploadsHoldNoFile ==
    \A u \in Uploads : status[u] \in {"cancelled", "expired"} => file[u] = None

(* "Provider storage succeeds before file metadata commits. If the database  *)
(* commit then fails, the newly stored object is deleted": every object has  *)
(* its row, or the request that will commit the row or delete the object, or *)
(* died before it could.                                                     *)
NoOrphanObjects ==
    \A p \in objects :
        \/ \E u \in Uploads : file[u] # None /\ file[u].path = p
        \/ \E r \in Requests : request[r].path = p /\ request[r].pc \in {"commit", "undo", "crashed"}

(* Every file row has its object, or can be put down to the one request that *)
(* deleted it: a removal that has yet to commit, or died before it could, or  *)
(* an upload whose reload failed after its commit.                           *)
DeletedBy(q, p) ==
    /\ q.path = p
    /\ \/ q.op = "revoke"
       \/ q.op \in {"cancel", "expire", "delete"} /\ q.pc \in {"removed", "crashed"}
FilesHaveObjects == \A u \in Uploads : file[u] # None =>
    \/ file[u].path \in objects
    \/ \E r \in Requests : DeletedBy(request[r], file[u].path)

(* No request waits for ever: every path gives back the locks it took, and   *)
(* none waits for a lock while another waits for it.                         *)
RequestsEnd == \A r \in Requests : ~At(r, "idle") ~> request[r].pc \in {"done", "crashed"}

(* What a session shows is what it holds: a completed one its file, a         *)
(* cancelled or expired one none, whatever ran beside its end.                *)
SessionsConsistent == TypeOK /\ CompletedUploadsAreStored /\ EndedUploadsHoldNoFile
=============================================================================
