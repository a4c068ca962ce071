------------------------- MODULE SecureUploadsProofs -------------------------
(* Proofs about SecureUploads, for any uploads, contents, paths and requests.*)
(* The database and the provider are changed in separate steps, so what      *)
(* holds of both rests on what a request in progress knows: the path it      *)
(* writes or deletes, and the lock that keeps others from the row.           *)
EXTENDS SecureUploads, TLAPS

Ops == {"none", "upload", "revoke", "cancel", "expire", "delete"}
Steps == {"idle", "expire", "flush", "validate", "provide", "commit", "reload", "undo", "revoke",
          "failing", "mark", "complete", "completing", "remove", "removed", "done", "crashed"}
FileRows == [content : Contents, path : Paths]
RequestType == [op : Ops, pc : Steps, upload : Uploads \cup {None}, content : Contents \cup {None},
                path : Paths \cup {None}, was : UploadStatuses \cup {None}, completed : BOOLEAN]

(* What a request is doing follows from where it is.                         *)
Storing(q) == q.pc \in {"expire", "flush", "validate", "provide", "commit", "reload", "undo",
                        "complete", "completing"}
Uploading(q) == Storing(q) \/ q.pc \in {"revoke", "failing", "mark"}
Removing(q) == q.pc \in {"remove", "removed"}
Fits(q) ==
    /\ q.pc = "idle" => q = Idle
    /\ Uploading(q) => q.op \in {"upload", "revoke"} /\ q.upload \in Uploads /\ q.content \in Contents
    /\ Storing(q) => q.op = "upload"
    /\ q.pc = "revoke" => q.op = "revoke"
    /\ q.pc \in {"commit", "reload", "undo", "revoke", "remove"} => q.path \in Paths
    /\ q.pc \in {"expire", "flush", "validate", "provide"} => q.path = None
    /\ Removing(q) => q.op \in {"cancel", "expire", "delete"} /\ q.upload \in Uploads
    /\ q.op = "delete" => q.upload \in Uploads /\ (Removing(q) \/ q.pc \in {"done", "crashed"})
    /\ q.op = "revoke" => q.upload \in Uploads /\ q.pc \in {"revoke", "failing", "mark", "done", "crashed"}

Begun == 
    /\ \A u \in Uploads : status[u] = "absent" => file[u] = None
    /\ \A r \in Requests : request[r].upload # None => status[request[r].upload] # "absent"

Requested == \A r \in Requests : Fits(request[r])

Typed == TypeOK /\ Requested /\ Begun

(* A path is given out once.  Until its row is committed nobody else knows   *)
(* it; afterwards one row names it, that of the session each request that    *)
(* knows it works for; once the object is removed it does not come back.     *)
PathsAreFresh ==
    /\ \A r \in Requests : request[r].pc \in {"commit", "undo"} =>
         /\ request[r].path \in objects
         /\ \A q \in Requests : q # r => request[q].path # request[r].path
         /\ \A u \in Uploads : file[u] # None => file[u].path # request[r].path
    /\ \A u, v \in Uploads :
         file[u] # None /\ file[v] # None /\ file[u].path = file[v].path => u = v
    /\ \A r \in Requests : At(r, "removed") => request[r].path \notin objects
    /\ \A r \in Requests, u \in Uploads :
         file[u] # None /\ file[u].path = request[r].path => request[r].upload = u

(* Where row locks exist, a request that stores, completes, cancels or       *)
(* expires has the row to itself from its locking read to its commit.        *)
HoldsRow(q) ==
    \/ q.pc \in {"flush", "validate", "provide", "commit", "completing"}
    \/ Removing(q) /\ q.op # "delete"
RowsAreLocked == RowLocks => \A r \in Requests : HoldsRow(request[r]) => lock[request[r].upload] = r

(* So what it read there is still true.                                      *)
Remembers(q) ==
    /\ Removing(q) /\ q.op # "delete" =>
         /\ status[q.upload] \notin TerminalUploadStatuses
         /\ q.completed = completedAt[q.upload]
         /\ q.path = IF file[q.upload] = None THEN None ELSE file[q.upload].path
    /\ q.pc = "completing" => file[q.upload] # None
    /\ q.pc \in {"flush", "validate", "provide", "commit"} => status[q.upload] = "created"
RowsAreAsRead == RowLocks => \A r \in Requests : Remembers(request[r])

(* So one request commits a file for a session, since none is ever created   *)
(* again, and the session is completed by that one or by none.               *)
Reloads(q) == q.pc = "reload" \/ q.op = "revoke"
Owns(q) == Reloads(q) \/ q.pc \in {"complete", "completing"}
OneStores == RowLocks => \A r \in Requests :
    /\ Owns(request[r]) => status[request[r].upload] # "created"
    /\ Reloads(request[r]) => status[request[r].upload] # "completed"
    /\ \A q \in Requests : Owns(request[r]) /\ Owns(request[q]) /\ q # r =>
         request[q].upload # request[r].upload

IInv == Typed /\ PathsAreFresh /\ RowsAreLocked /\ RowsAreAsRead /\ OneStores
        /\ NoOrphanObjects
        /\ (RowLocks => EndedUploadsHoldNoFile /\ CompletedUploadsAreStored /\ FilesHaveObjects)

-----------------------------------------------------------------------------
(* Going on at another step changes nothing else about a request.            *)
LEMMA Going ==
    ASSUME TypeOK, NEW r \in Requests, NEW c \in Steps, Goto(r, c)
    PROVE  \E w \in RequestType :
             /\ request' = [request EXCEPT ![r] = w]
             /\ w.pc = c /\ w.op = request[r].op /\ w.upload = request[r].upload
             /\ w.content = request[r].content /\ w.path = request[r].path
             /\ w.completed = request[r].completed
<1> DEFINE w == [request[r] EXCEPT !.pc = c]
<1>1. request[r] \in RequestType
  BY DEF TypeOK, RequestType, Ops, Steps
<1>2. /\ w \in RequestType
      /\ w.pc = c /\ w.op = request[r].op /\ w.upload = request[r].upload
      /\ w.content = request[r].content /\ w.path = request[r].path
      /\ w.completed = request[r].completed
  BY <1>1 DEF RequestType
<1>3. request' = [request EXCEPT ![r] = w]
  BY DEF Goto, TypeOK
<1> QED BY <1>2, <1>3

LEMMA IdleType ==
    /\ Idle \in RequestType /\ Idle.pc = "idle" /\ Idle.op = "none" /\ Idle.upload = None
    /\ Idle.path = None /\ Idle.content = None
BY DEF Idle, RequestType, Ops, Steps

LEMMA Requests1 ==
    ASSUME TypeOK, NEW r \in Requests, NEW w \in RequestType, request' = [request EXCEPT ![r] = w]
    PROVE  /\ request' \in [Requests -> RequestType]
           /\ request'[r] = w
           /\ \A q \in Requests : q # r => request'[q] = request[q]
<1>1. request \in [Requests -> RequestType]
  BY DEF TypeOK, RequestType, Ops, Steps
<1> QED BY <1>1

(* How locks change: only r gains or loses one.                              *)
LocksOf(r) == \A u \in Uploads, q \in Requests : q # r => (lock'[u] = q <=> lock[u] = q)

LEMMA LockFacts ==
    ASSUME TypeOK, NEW r \in Requests
    PROVE  /\ Unlock(r) => lock' \in [Uploads -> Requests \cup {None}] /\ LocksOf(r)
           /\ \A u \in Uploads : CanRead(r, u) /\ ReadLock(r, u) =>
                /\ lock' \in [Uploads -> Requests \cup {None}]
                /\ RowLocks => LocksOf(r) /\ lock'[u] = r
           /\ \A u \in Uploads : CanWrite(r, u) /\ WriteLock(r, u) =>
                /\ lock' \in [Uploads -> Requests \cup {None}]
                /\ RowLocks => LocksOf(r) /\ lock'[u] = r
BY NoneAssumption DEF TypeOK, Unlock, ReadLock, WriteLock, CanRead, CanWrite, LocksOf

-----------------------------------------------------------------------------
(* What every step of a request has to see to: it stays what it is, keeps    *)
(* away from the locks of others and has the row it works on.                *)
WellMoved(r, w) ==
    /\ w \in RequestType
    /\ request' = [request EXCEPT ![r] = w]
    /\ Fits(w)
    /\ ~At(r, "crashed")
    /\ request[r].op = "delete" => w.op = "delete" /\ w.upload = request[r].upload
    /\ request[r].op = "revoke" => w.op = "revoke" /\ w.path = request[r].path
    /\ lock' \in [Uploads -> Requests \cup {None}]
    /\ RowLocks => LocksOf(r)
    /\ RowLocks /\ HoldsRow(w) => lock'[w.upload] = r
    /\ w.upload # None => status[w.upload] # "absent"

LEMMA LocksKept ==
    ASSUME IInv, NEW r \in Requests, NEW w, WellMoved(r, w)
    PROVE  RowsAreLocked'
<1>1. /\ request' \in [Requests -> RequestType]
      /\ request'[r] = w
      /\ \A q \in Requests : q # r => request'[q] = request[q]
  BY Requests1 DEF IInv, Typed, WellMoved
<1> SUFFICES ASSUME RowLocks, NEW q \in Requests, HoldsRow(request'[q])
             PROVE  lock'[request'[q].upload] = q
  BY DEF RowsAreLocked
<1>2. CASE q = r
  BY <1>1, <1>2 DEF WellMoved
<1>3. CASE q # r
  <2>1. HoldsRow(request[q]) /\ request'[q] = request[q]
    BY <1>1, <1>3
  <2>2. lock[request[q].upload] = q
    BY <2>1 DEF IInv, RowsAreLocked
  <2>3. request[q].upload \in Uploads
    BY <2>1 DEF IInv, Typed, Requested, Fits, HoldsRow, Uploading, Storing
  <2> QED BY <1>3, <2>1, <2>2, <2>3 DEF WellMoved, LocksOf
<1> QED BY <1>2, <1>3

(* What a request did to a session or a path stays on record.                *)
LEMMA RemovedLasts ==
    ASSUME IInv, NEW r \in Requests, NEW w, WellMoved(r, w), NEW u \in Uploads, Removed(u)
    PROVE  Removed(u)'
<1>1. /\ request' \in [Requests -> RequestType]
      /\ request'[r] = w
      /\ \A q \in Requests : q # r => request'[q] = request[q]
  BY Requests1 DEF IInv, Typed, WellMoved
<1>2. PICK q \in Requests :
        /\ request[q].upload = u
        /\ request[q].op = "delete" \/ (request[q].op \in {"cancel", "expire"} /\ request[q].pc = "crashed")
  BY DEF Removed, At
<1>3. /\ request'[q].upload = u
      /\ request'[q].op = "delete" \/ (request'[q].op \in {"cancel", "expire"} /\ request'[q].pc = "crashed")
  BY <1>1, <1>2 DEF WellMoved, At
<1> QED BY <1>3 DEF Removed, At

LEMMA DeletedLasts ==
    ASSUME IInv, NEW r \in Requests, NEW w, WellMoved(r, w), NEW q \in Requests, NEW p,
           DeletedBy(request[q], p),
           At(r, "removed") =>
             q # r \/ (w.pc = "crashed" /\ w.op = request[r].op /\ w.path = request[r].path)
    PROVE  DeletedBy(request'[q], p)
<1>1. /\ request' \in [Requests -> RequestType]
      /\ request'[r] = w
      /\ \A x \in Requests : x # r => request'[x] = request[x]
  BY Requests1 DEF IInv, Typed, WellMoved
<1>2. CASE q # r
  BY <1>1, <1>2
<1>3. CASE q = r
  BY <1>1, <1>3 DEF DeletedBy, WellMoved, At
<1> QED BY <1>2, <1>3

(* Nobody comes to own a session but by committing its file, and only its    *)
(* owner completes it.                                                       *)
LEMMA OwnersKept ==
    ASSUME IInv, NEW r \in Requests, NEW w, WellMoved(r, w),
           \A v \in Uploads : status'[v] = "created" => status[v] \in {"created", "absent"},
           \A v \in Uploads : status'[v] = "completed" =>
             status[v] = "completed" \/ (At(r, "completing") /\ request[r].upload = v),
           Reloads(w) => Reloads(request[r]),
           Owns(w) => Owns(request[r]) /\ w.upload = request[r].upload
    PROVE  OneStores'
<1>1. /\ request' \in [Requests -> RequestType]
      /\ request'[r] = w
      /\ \A q \in Requests : q # r => request'[q] = request[q]
  BY Requests1 DEF IInv, Typed, WellMoved
<1>2. ASSUME NEW q \in Requests, Owns(request'[q])
      PROVE  /\ Owns(request[q]) /\ request'[q].upload = request[q].upload
             /\ Reloads(request'[q]) => Reloads(request[q])
  BY <1>1, <1>2
<1>3. ASSUME NEW q \in Requests, Owns(request[q])
      PROVE  request[q].upload \in Uploads /\ status[request[q].upload] # "absent"
  <2>1. request[q].upload \in Uploads
    BY <1>3 DEF Owns, Reloads, IInv, Typed, Requested, Fits, Uploading, Storing
  <2> QED BY <2>1, NoneAssumption DEF IInv, Typed, Begun
<1> SUFFICES ASSUME RowLocks, NEW q \in Requests, Owns(request'[q])
             PROVE  /\ status'[request'[q].upload] # "created"
                    /\ Reloads(request'[q]) => status'[request'[q].upload] # "completed"
                    /\ \A x \in Requests : Owns(request'[x]) /\ x # q =>
                         request'[x].upload # request'[q].upload
  BY DEF OneStores, Owns
<1>4. Owns(request[q]) /\ request'[q].upload = request[q].upload
      /\ (Reloads(request'[q]) => Reloads(request[q]))
  BY <1>2
<1>5. status[request[q].upload] # "created" /\ status[request[q].upload] # "absent"
      /\ request[q].upload \in Uploads
  BY <1>3, <1>4 DEF IInv, OneStores
<1>6. ASSUME Reloads(request'[q]), status'[request'[q].upload] = "completed"
      PROVE  FALSE
  <2>1. Reloads(request[q]) /\ status[request[q].upload] # "completed"
    BY <1>4, <1>6 DEF IInv, OneStores
  <2>2. request[r].pc = "completing" /\ request[r].upload = request[q].upload
    BY <1>4, <1>5, <1>6, <2>1 DEF At
  <2>3. ~Reloads(request[r]) /\ Owns(request[r])
    BY <2>2 DEF Reloads, Owns, IInv, Typed, Requested, Fits, Storing
  <2> QED BY <1>4, <2>1, <2>2, <2>3 DEF IInv, OneStores
<1>7. ASSUME NEW x \in Requests, Owns(request'[x]), x # q
      PROVE  request'[x].upload # request'[q].upload
  <2>1. Owns(request[x]) /\ request'[x].upload = request[x].upload
    BY <1>2, <1>7
  <2> QED BY <1>4, <1>7, <2>1 DEF IInv, OneStores
<1> QED BY <1>4, <1>5, <1>6, <1>7

(* A request goes on without touching rows or objects.                       *)
LEMMA OnlyMoves ==
    ASSUME IInv, NEW r \in Requests, NEW w, WellMoved(r, w), UNCHANGED <<rows, overdue, objects>>,
           \/ w.path = request[r].path /\ w.upload = request[r].upload
           \/ w.path = None
           \/ \E u \in Uploads : file[u] # None /\ w.path = file[u].path /\ w.upload = u,
           w.pc \in {"commit", "undo"} =>
             request[r].pc \in {"commit", "undo"} /\ w.path = request[r].path,
           request[r].pc \in {"commit", "undo"} =>
             w.pc \in {"commit", "undo", "crashed"} /\ w.path = request[r].path,
           w.pc = "removed" => w.path = None,
           At(r, "removed") =>
             w.pc = "crashed" /\ w.op = request[r].op /\ w.path = request[r].path,
           RowLocks => Remembers(w),
           Reloads(w) => Reloads(request[r]),
           Owns(w) => Owns(request[r]) /\ w.upload = request[r].upload
    PROVE  IInv'
<1>1. /\ request' \in [Requests -> RequestType]
      /\ request'[r] = w
      /\ \A q \in Requests : q # r => request'[q] = request[q]
  BY Requests1 DEF IInv, Typed, WellMoved
<1>2. /\ status' = status /\ completedAt' = completedAt /\ cancelledAt' = cancelledAt
      /\ file' = file /\ overdue' = overdue /\ objects' = objects
  BY DEF rows
<1>3. Typed'
  <2>1. TypeOK'
    BY <1>1, <1>2 DEF IInv, Typed, TypeOK, WellMoved, RequestType, Ops, Steps
  <2>2. Requested'
    BY <1>1 DEF IInv, Typed, Requested, WellMoved
  <2>3. Begun'
    BY <1>1, <1>2 DEF IInv, Typed, Begun, WellMoved
  <2> QED BY <2>1, <2>2, <2>3 DEF Typed
<1>4. PathsAreFresh'
  <2>1. ASSUME NEW q \in Requests, request'[q].pc \in {"commit", "undo"}
        PROVE  /\ request'[q].path \in objects
               /\ \A p \in Requests : p # q => request'[p].path # request'[q].path
               /\ \A u \in Uploads : file[u] # None => file[u].path # request'[q].path
    <3>1. request[q].pc \in {"commit", "undo"} /\ request[q].path = request'[q].path
      BY <1>1, <2>1
    <3>2. /\ request[q].path \in objects
          /\ \A p \in Requests : p # q => request[p].path # request[q].path
          /\ \A u \in Uploads : file[u] # None => file[u].path # request[q].path
      BY <3>1 DEF IInv, PathsAreFresh
    <3>3. request[q].path # None
      BY <3>2, NoneAssumption DEF IInv, Typed, TypeOK
    <3> QED BY <1>1, <3>1, <3>2, <3>3
  <2>2. \A q \in Requests : request'[q].pc = "removed" => request'[q].path \notin objects
    BY <1>1, NoneAssumption DEF IInv, PathsAreFresh, At, Typed, TypeOK
  <2>3. ASSUME NEW q \in Requests, NEW u \in Uploads, file[u] # None, file[u].path = request'[q].path
        PROVE  request'[q].upload = u
    <3>1. file[u].path # None
      BY <2>3, NoneAssumption DEF IInv, Typed, TypeOK
    <3>2. CASE q # r
      BY <1>1, <2>3, <3>2 DEF IInv, PathsAreFresh
    <3>3. CASE q = r
      BY <1>1, <2>3, <3>1, <3>3 DEF IInv, PathsAreFresh
    <3> QED BY <3>2, <3>3
  <2> QED BY <1>2, <2>1, <2>2, <2>3 DEF IInv, PathsAreFresh, At
<1>5. RowsAreLocked'
  BY LocksKept
<1>6. RowsAreAsRead'
  BY <1>1, <1>2 DEF IInv, RowsAreAsRead, Remembers
<1>7. OneStores'
  BY <1>2, OwnersKept
<1>8. NoOrphanObjects'
  <2> SUFFICES ASSUME NEW p \in objects, \A u \in Uploads : file[u] # None => file[u].path # p
               PROVE  \E q \in Requests :
                        request'[q].path = p /\ request'[q].pc \in {"commit", "undo", "crashed"}
    BY <1>2 DEF NoOrphanObjects
  <2>1. PICK q \in Requests : request[q].path = p /\ request[q].pc \in {"commit", "undo", "crashed"}
    BY DEF IInv, NoOrphanObjects
  <2>2. request'[q].path = p /\ request'[q].pc \in {"commit", "undo", "crashed"}
    BY <1>1, <2>1 DEF WellMoved, At
  <2> QED BY <2>2
<1>9. EndedUploadsHoldNoFile => EndedUploadsHoldNoFile'
  BY <1>2 DEF EndedUploadsHoldNoFile
<1>10. CompletedUploadsAreStored => CompletedUploadsAreStored'
  BY <1>2, RemovedLasts DEF CompletedUploadsAreStored
<1>11. FilesHaveObjects => FilesHaveObjects'
  <2> SUFFICES ASSUME FilesHaveObjects, NEW u \in Uploads, file[u] # None,
                      file[u].path \notin objects
               PROVE  \E q \in Requests : DeletedBy(request'[q], file[u].path)
    BY <1>2 DEF FilesHaveObjects
  <2>1. PICK q \in Requests : DeletedBy(request[q], file[u].path)
    BY DEF FilesHaveObjects
  <2>2. DeletedBy(request'[q], file[u].path)
    BY <2>1, DeletedLasts
  <2> QED BY <2>2
<1> QED BY <1>3, <1>4, <1>5, <1>6, <1>7, <1>8, <1>9, <1>10, <1>11 DEF IInv

-----------------------------------------------------------------------------
(* A request about to complete a session finds the object of its file there, *)
(* unless the metadata is being deleted or a removal died: a removal at work *)
(* would hold the lock, and an upload that revoked the file would own the    *)
(* session.                                                                  *)
LEMMA CompletedHasObject ==
    ASSUME IInv, RowLocks, NEW r \in Requests, At(r, "completing"),
           NEW u \in Uploads, request[r].upload = u, file[u] # None
    PROVE  Removed(u) \/ file[u].path \in objects
<1> SUFFICES ASSUME file[u].path \notin objects
             PROVE  Removed(u)
  OBVIOUS
<1>1. PICK q \in Requests : DeletedBy(request[q], file[u].path)
  BY DEF IInv, FilesHaveObjects
<1>2. request[q].upload = u
  BY <1>1 DEF IInv, PathsAreFresh, DeletedBy
<1>3. Owns(request[r]) /\ request[r].op = "upload"
  BY DEF Owns, At, IInv, Typed, Requested, Fits, Storing
<1>4. CASE request[q].op = "revoke"
  <2>1. Owns(request[q]) /\ q # r
    BY <1>3, <1>4 DEF Owns, Reloads
  <2> QED BY <1>2, <1>3, <2>1 DEF IInv, OneStores
<1>5. CASE request[q].op \in {"cancel", "expire"} /\ request[q].pc = "removed"
  <2>1. HoldsRow(request[q]) /\ HoldsRow(request[r])
    BY <1>5 DEF HoldsRow, Removing, At
  <2>2. lock[u] = q /\ lock[u] = r
    BY <1>2, <2>1 DEF IInv, RowsAreLocked
  <2> QED BY <1>5, <2>2 DEF At
<1>6. CASE request[q].op = "delete" \/ (request[q].op \in {"cancel", "expire"} /\ request[q].pc = "crashed")
  BY <1>2, <1>6 DEF Removed, At
<1> QED BY <1>1, <1>4, <1>5, <1>6 DEF DeletedBy

(* The commit of a request changes the row it works on, and no row that      *)
(* another one has locked.                                                   *)
OthersKept(u) == \A v \in Uploads \ {u} :
    /\ status'[v] = status[v] /\ completedAt'[v] = completedAt[v]
    /\ cancelledAt'[v] = cancelledAt[v] /\ file'[v] = file[v]

RowsTyped ==
    /\ status \in [Uploads -> UploadStatuses \cup {"absent"}]
    /\ completedAt \in [Uploads -> BOOLEAN]
    /\ cancelledAt \in [Uploads -> BOOLEAN]
    /\ file \in [Uploads -> FileRows \cup {None}]

LEMMA RowWritten ==
    ASSUME IInv, NEW r \in Requests, NEW w, WellMoved(r, w), NEW u \in Uploads,
           RowsTyped', OthersKept(u), UNCHANGED <<overdue, objects>>, OneStores',
           request[r].upload = u, w.upload = u, w.path = request[r].path, w.op = request[r].op,
           w.pc \in {"reload", "done"},
           RowLocks => lock[u] \in {None, r},
           status'[u] # "absent",
           \/ file'[u] = None /\ (file[u] # None => At(r, "removed") /\ file[u].path = request[r].path)
           \/ file'[u] = file[u]
           \/ At(r, "commit"),
           At(r, "commit") => file[u] = None /\ file'[u] # None /\ file'[u].path = request[r].path,
           ~At(r, "undo"),
           RowLocks /\ At(r, "removed") /\ file'[u] # None => file'[u].path # request[r].path,
           RowLocks /\ status'[u] \in {"cancelled", "expired"} => file'[u] = None,
           RowLocks /\ status'[u] = "completed" =>
             w.op = "delete" \/ (At(r, "completing") /\ file'[u] = file[u] /\ file[u] # None)
    PROVE  IInv'
<1>1. /\ request' \in [Requests -> RequestType]
      /\ request'[r] = w
      /\ \A q \in Requests : q # r => request'[q] = request[q]
  BY Requests1 DEF IInv, Typed, WellMoved
<1>2. overdue' = overdue /\ objects' = objects
  OBVIOUS
<1>3. \A v \in Uploads : file[v] # None => file[v].path \in Paths
  BY DEF IInv, Typed, TypeOK
<1>4. Typed'
  <2>1. TypeOK'
    BY <1>1, <1>2 DEF IInv, Typed, TypeOK, WellMoved, RequestType, Ops, Steps, RowsTyped, FileRows
  <2>2. Requested'
    BY <1>1 DEF IInv, Typed, Requested, WellMoved
  <2>3. Begun'
    <3>1. \A v \in Uploads : status'[v] = "absent" => file'[v] = None
      BY DEF IInv, Typed, Begun, OthersKept
    <3>2. ASSUME NEW q \in Requests, request'[q].upload # None
          PROVE  status'[request'[q].upload] # "absent"
      <4>1. q = r \/ request'[q] = request[q]
        BY <1>1
      <4>2. request'[q].upload \in Uploads
        BY <1>1, <3>2 DEF RequestType
      <4>3. status[request'[q].upload] # "absent" \/ request'[q].upload = u
        BY <1>1, <3>2, <4>1 DEF IInv, Typed, Begun
      <4> QED BY <4>2, <4>3 DEF OthersKept
    <3> QED BY <3>1, <3>2 DEF Begun
  <2> QED BY <2>1, <2>2, <2>3 DEF Typed
<1>5. PathsAreFresh'
  <2>1. ASSUME NEW q \in Requests, request'[q].pc \in {"commit", "undo"}
        PROVE  /\ request'[q].path \in objects
               /\ \A p \in Requests : p # q => request'[p].path # request'[q].path
               /\ \A v \in Uploads : file'[v] # None => file'[v].path # request'[q].path
    <3>1. q # r /\ request[q].pc \in {"commit", "undo"} /\ request'[q] = request[q]
      BY <1>1, <2>1
    <3>2. /\ request[q].path \in objects
          /\ \A p \in Requests : p # q => request[p].path # request[q].path
          /\ \A v \in Uploads : file[v] # None => file[v].path # request[q].path
      BY <3>1 DEF IInv, PathsAreFresh
    <3>3. \A p \in Requests : p # q => request'[p].path # request'[q].path
      BY <1>1, <3>1, <3>2
    <3>4. ASSUME NEW v \in Uploads, file'[v] # None
          PROVE  file'[v].path # request'[q].path
      BY <3>1, <3>2, <3>4 DEF OthersKept
    <3> QED BY <3>1, <3>2, <3>3, <3>4
  <2>2. \A v, x \in Uploads :
          file'[v] # None /\ file'[x] # None /\ file'[v].path = file'[x].path => v = x
    <3>1. At(r, "commit") => \A v \in Uploads : file[v] # None => file[v].path # request[r].path
      BY DEF IInv, PathsAreFresh, At
    <3> QED BY <3>1 DEF IInv, PathsAreFresh, OthersKept
  <2>3. \A q \in Requests : request'[q].pc = "removed" => request'[q].path \notin objects
    BY <1>1 DEF IInv, PathsAreFresh, At
  <2>4. ASSUME NEW q \in Requests, NEW v \in Uploads, file'[v] # None, file'[v].path = request'[q].path
        PROVE  request'[q].upload = v
    <3>1. request'[q].path = request[q].path /\ request'[q].upload = request[q].upload
      BY <1>1
    <3>2. CASE file'[v] = file[v]
      BY <2>4, <3>1, <3>2 DEF IInv, PathsAreFresh
    <3>3. CASE file'[v] # file[v]
      <4>1. v = u /\ At(r, "commit") /\ file'[v].path = request[r].path
        BY <2>4, <3>3 DEF OthersKept
      <4>2. \A p \in Requests : p # r => request[p].path # request[r].path
        BY <4>1 DEF IInv, PathsAreFresh, At
      <4>3. q = r
        BY <2>4, <3>1, <4>1, <4>2
      <4> QED BY <3>1, <4>1, <4>3
    <3> QED BY <3>2, <3>3
  <2> QED BY <1>2, <2>1, <2>2, <2>3, <2>4 DEF PathsAreFresh, At
<1>6. RowsAreLocked'
  BY LocksKept
<1>7. RowsAreAsRead'
  <2> SUFFICES ASSUME RowLocks, NEW q \in Requests
               PROVE  Remembers(request[q])'
    BY DEF RowsAreAsRead
  <2>1. CASE q = r
    BY <1>1, <2>1 DEF Remembers, Removing
  <2>2. CASE q # r
    <3> DEFINE x == request[q]
    <3>1. request'[q] = x /\ Remembers(x)
      BY <1>1, <2>2 DEF IInv, RowsAreAsRead
    <3>2. HoldsRow(x) => x.upload \in Uploads \ {u}
      <4>1. HoldsRow(x) => x.upload \in Uploads /\ lock[x.upload] = q
        BY DEF IInv, Typed, Requested, RowsAreLocked, Fits, HoldsRow, Uploading, Storing
      <4> QED BY <2>2, <4>1, NoneAssumption
    <3>3. Removing(x) /\ x.op # "delete" => HoldsRow(x)
      BY DEF HoldsRow
    <3>4. x.pc \in {"flush", "validate", "provide", "commit", "completing"} => HoldsRow(x)
      BY DEF HoldsRow
    <3> QED BY <3>1, <3>2, <3>3, <3>4 DEF Remembers, OthersKept
  <2> QED BY <2>1, <2>2
<1>8. NoOrphanObjects'
  <2> SUFFICES ASSUME NEW p \in objects, \A v \in Uploads : file'[v] # None => file'[v].path # p
               PROVE  \E q \in Requests :
                        request'[q].path = p /\ request'[q].pc \in {"commit", "undo", "crashed"}
    BY <1>2 DEF NoOrphanObjects
  <2>1. At(r, "removed") => request[r].path \notin objects
    BY DEF IInv, PathsAreFresh
  <2>2. \A v \in Uploads : file[v] # None => file[v].path # p \/ At(r, "commit")
    BY <2>1 DEF OthersKept
  <2>3. \A v \in Uploads : file[v] # None /\ file[v].path = p => v = u /\ At(r, "commit")
    BY <2>2 DEF OthersKept
  <2>4. CASE \E v \in Uploads : file[v] # None /\ file[v].path = p
    <3>1. file[u] # None /\ file[u].path = p /\ At(r, "commit")
      BY <2>3, <2>4
    <3> QED BY <3>1
  <2>5. CASE \A v \in Uploads : ~(file[v] # None /\ file[v].path = p)
    <3>1. PICK q \in Requests : request[q].path = p /\ request[q].pc \in {"commit", "undo", "crashed"}
      BY <2>5 DEF IInv, NoOrphanObjects
    <3>2. q # r
      BY <3>1 DEF WellMoved, At
    <3> QED BY <1>1, <3>1, <3>2
  <2> QED BY <2>4, <2>5
<1>9. RowLocks => EndedUploadsHoldNoFile'
  BY DEF IInv, EndedUploadsHoldNoFile, OthersKept
<1>10. RowLocks => CompletedUploadsAreStored'
  <2> SUFFICES ASSUME RowLocks, NEW v \in Uploads, status'[v] = "completed", ~Removed(v)'
               PROVE  file'[v] # None /\ file'[v].path \in objects
    BY <1>2 DEF CompletedUploadsAreStored
  <2>1. ~Removed(v)
    BY RemovedLasts
  <2>2. CASE v # u
    BY <2>1, <2>2 DEF IInv, CompletedUploadsAreStored, OthersKept
  <2>3. CASE v = u
    <3>1. w.op # "delete"
      BY <1>1, <2>3 DEF Removed
    <3>2. At(r, "completing") /\ file'[u] = file[u] /\ file[u] # None
      BY <2>3, <3>1
    <3> QED BY <2>1, <2>3, <3>2, CompletedHasObject
  <2> QED BY <2>2, <2>3
<1>11. RowLocks => FilesHaveObjects'
  <2> SUFFICES ASSUME RowLocks, NEW v \in Uploads, file'[v] # None,
                      file'[v].path \notin objects
               PROVE  \E q \in Requests : DeletedBy(request'[q], file'[v].path)
    BY <1>2 DEF FilesHaveObjects
  <2>1. file'[v] = file[v]
    <3>1. At(r, "commit") => request[r].path \in objects
      BY DEF IInv, PathsAreFresh, At
    <3> QED BY <3>1 DEF OthersKept
  <2>2. PICK q \in Requests : DeletedBy(request[q], file[v].path)
    BY <2>1 DEF IInv, FilesHaveObjects
  <2>3. request[q].path = file'[v].path /\ request[q].upload = v
    BY <2>1, <2>2 DEF DeletedBy, IInv, PathsAreFresh
  <2>4. At(r, "removed") => q # r
    BY <2>3
  <2>5. DeletedBy(request'[q], file[v].path)
    BY <2>2, <2>4, DeletedLasts
  <2> QED BY <2>1, <2>5
<1> QED BY <1>4, <1>5, <1>6, <1>7, <1>8, <1>9, <1>10, <1>11 DEF IInv

-----------------------------------------------------------------------------
(* The steps that only move a request.                                       *)
LEMMA StoreFlushKeeps == ASSUME IInv, NEW r \in Requests, StoreFlush(r) PROVE IInv'
<1> DEFINE u == request[r].upload
<1>1. u \in Uploads /\ request[r].op = "upload" /\ request[r].content \in Contents /\ request[r].path = None
  BY DEF StoreFlush, At, IInv, Typed, Requested, Fits, Uploading, Storing
<1>2. PICK w \in RequestType :
        /\ request' = [request EXCEPT ![r] = w]
        /\ w.pc = "validate" /\ w.op = request[r].op /\ w.upload = request[r].upload
        /\ w.content = request[r].content /\ w.path = request[r].path
        /\ w.completed = request[r].completed
  BY Going DEF IInv, Typed, StoreFlush, Steps
<1>3. lock' \in [Uploads -> Requests \cup {None}] /\ (RowLocks => LocksOf(r) /\ lock'[u] = r)
  BY <1>1, LockFacts DEF IInv, Typed, StoreFlush
<1>4. WellMoved(r, w)
  BY <1>1, <1>2, <1>3 DEF WellMoved, Fits, Uploading, Storing, Removing, StoreFlush, At, IInv, Typed, Begun
<1>5. RowLocks => Remembers(w)
  BY <1>2 DEF Remembers, Removing, IInv, RowsAreAsRead, StoreFlush, At
<1> QED BY <1>1, <1>2, <1>4, <1>5, OnlyMoves DEF StoreFlush, At, Owns, Reloads

LEMMA StoreValidateKeeps == ASSUME IInv, NEW r \in Requests, StoreValidate(r) PROVE IInv'
<1> DEFINE u == request[r].upload
<1>1. u \in Uploads /\ request[r].op = "upload" /\ request[r].content \in Contents /\ request[r].path = None
  BY DEF StoreValidate, At, IInv, Typed, Requested, Fits, Uploading, Storing
<1>2. PICK c \in {"failing", "provide"} : Goto(r, c)
  BY DEF StoreValidate, Refused
<1>3. PICK w \in RequestType :
        /\ request' = [request EXCEPT ![r] = w]
        /\ w.pc = c /\ w.op = request[r].op /\ w.upload = request[r].upload
        /\ w.content = request[r].content /\ w.path = request[r].path
        /\ w.completed = request[r].completed
  BY <1>2, Going DEF IInv, Typed, Steps
<1>4. lock' = lock /\ (RowLocks => lock[u] = r)
  BY DEF IInv, RowsAreLocked, HoldsRow, StoreValidate, At
<1>5. WellMoved(r, w)
  BY <1>1, <1>3, <1>4
     DEF WellMoved, LocksOf, Fits, Uploading, Storing, Removing, StoreValidate, At, IInv, Typed, TypeOK, Begun
<1>6. RowLocks => Remembers(w)
  BY <1>3 DEF Remembers, Removing, IInv, RowsAreAsRead, StoreValidate, At
<1> QED BY <1>1, <1>3, <1>5, <1>6, OnlyMoves DEF StoreValidate, At, Owns, Reloads

LEMMA MarkFailedReadKeeps == ASSUME IInv, NEW r \in Requests, MarkFailedRead(r) PROVE IInv'
<1> DEFINE u == request[r].upload
<1>1. u \in Uploads /\ request[r].op \in {"upload", "revoke"} /\ request[r].content \in Contents
  BY DEF MarkFailedRead, At, IInv, Typed, Requested, Fits, Uploading, Storing
<1>2. PICK c \in {"done", "mark"} : Leave(r, c)
  BY DEF MarkFailedRead
<1>3. PICK w \in RequestType :
        /\ request' = [request EXCEPT ![r] = w]
        /\ w.pc = c /\ w.op = request[r].op /\ w.upload = request[r].upload
        /\ w.content = request[r].content /\ w.path = request[r].path
        /\ w.completed = request[r].completed
  BY <1>2, Going DEF IInv, Typed, Steps, Leave
<1>4. lock' \in [Uploads -> Requests \cup {None}] /\ LocksOf(r)
  BY <1>2, LockFacts DEF IInv, Typed, Leave
<1>5. WellMoved(r, w)
  BY <1>1, <1>3, <1>4
     DEF WellMoved, Fits, Uploading, Storing, Removing, HoldsRow, MarkFailedRead, At, IInv, Typed, Begun
<1>6. Remembers(w)
  BY <1>3 DEF Remembers, Removing
<1> QED BY <1>3, <1>5, <1>6, OnlyMoves DEF MarkFailedRead, At, Owns, Reloads

LEMMA CompleteReadKeeps == ASSUME IInv, NEW r \in Requests, CompleteRead(r) PROVE IInv'
<1> DEFINE u == request[r].upload
<1>1. u \in Uploads /\ request[r].op = "upload" /\ request[r].content \in Contents
  BY DEF CompleteRead, At, IInv, Typed, Requested, Fits, Uploading, Storing
<1>2. PICK c \in {"done", "completing"} :
        /\ Goto(r, c)
        /\ c = "completing" => ReadLock(r, u) /\ file[u] # None
        /\ c = "done" => lock' = lock
  BY DEF CompleteRead
<1>3. PICK w \in RequestType :
        /\ request' = [request EXCEPT ![r] = w]
        /\ w.pc = c /\ w.op = request[r].op /\ w.upload = request[r].upload
        /\ w.content = request[r].content /\ w.path = request[r].path
        /\ w.completed = request[r].completed
  BY <1>2, Going DEF IInv, Typed, Steps
<1>4. /\ lock' \in [Uploads -> Requests \cup {None}]
      /\ RowLocks => LocksOf(r)
      /\ RowLocks /\ c = "completing" => lock'[u] = r
  <2>1. CASE c = "completing"
    BY <1>1, <1>2, <2>1, LockFacts DEF IInv, Typed, CompleteRead
  <2>2. CASE c = "done"
    BY <1>2, <2>2 DEF IInv, Typed, TypeOK, LocksOf
  <2> QED BY <2>1, <2>2
<1>5. WellMoved(r, w)
  BY <1>1, <1>3, <1>4
     DEF WellMoved, Fits, Uploading, Storing, Removing, HoldsRow, CompleteRead, At, IInv, Typed, Begun
<1>6. Remembers(w)
  BY <1>2, <1>3 DEF Remembers, Removing
<1> QED BY <1>1, <1>3, <1>5, <1>6, OnlyMoves DEF CompleteRead, At, Owns, Reloads

LEMMA CrashKeeps == ASSUME IInv, NEW r \in Requests, Crash(r) PROVE IInv'
<1>1. PICK w \in RequestType :
        /\ request' = [request EXCEPT ![r] = w]
        /\ w.pc = "crashed" /\ w.op = request[r].op /\ w.upload = request[r].upload
        /\ w.content = request[r].content /\ w.path = request[r].path
        /\ w.completed = request[r].completed
  BY Going DEF IInv, Typed, Steps, Leave, Crash
<1>2. lock' \in [Uploads -> Requests \cup {None}] /\ LocksOf(r)
  BY LockFacts DEF IInv, Typed, Leave, Crash
<1>3. /\ w.upload # None => status[w.upload] # "absent"
      /\ Fits(request[r])
  BY <1>1 DEF IInv, Typed, Begun, Requested
<1>4. WellMoved(r, w)
  BY <1>1, <1>2, <1>3 DEF WellMoved, Fits, Uploading, Storing, Removing, HoldsRow, Crash, At
<1>5. Remembers(w)
  BY <1>1 DEF Remembers, Removing
<1> QED BY <1>1, <1>4, <1>5, OnlyMoves DEF Crash, At, Owns, Reloads

LEMMA StoreReadKeeps ==
    ASSUME IInv, NEW r \in Requests, NEW u \in Uploads, NEW c \in Contents, StoreRead(r, u, c)
    PROVE  IInv'
<1> DEFINE d == IF overdue[u] THEN "expire" ELSE IF status[u] = "created" THEN "flush" ELSE "done"
           w == [Idle EXCEPT !.op = "upload", !.upload = u, !.content = c, !.pc = d]
<1>1. request' = [request EXCEPT ![r] = w] /\ status[u] # "absent" /\ At(r, "idle")
  BY DEF StoreRead
<1>2. d \in {"expire", "flush", "done"}
  OBVIOUS
<1>3. /\ w \in RequestType
      /\ w.op = "upload" /\ w.upload = u /\ w.content = c /\ w.pc \in {"expire", "flush", "done"}
      /\ w.path = None
  BY <1>2 DEF Idle, RequestType, Ops, Steps
<1> HIDE DEF w
<1>4. /\ lock' \in [Uploads -> Requests \cup {None}]
      /\ RowLocks => LocksOf(r)
      /\ RowLocks /\ w.pc = "flush" => lock'[u] = r /\ status[u] = "created"
  <2>1. w.pc = "flush" => ReadLock(r, u) /\ status[u] = "created"
    BY DEF StoreRead, w, Idle
  <2>2. CASE ReadLock(r, u)
    BY <2>1, <2>2, LockFacts DEF IInv, Typed, StoreRead
  <2>3. CASE lock' = lock /\ ~ReadLock(r, u)
    BY <2>1, <2>3 DEF IInv, Typed, TypeOK, LocksOf
  <2> QED BY <2>2, <2>3 DEF StoreRead
<1>5. request[r] = Idle
  BY <1>1 DEF At, IInv, Typed, Requested, Fits
<1>6. Fits(w)
  BY <1>3 DEF Fits, Uploading, Storing, Removing
<1>7. WellMoved(r, w)
  BY <1>1, <1>3, <1>4, <1>5, <1>6, IdleType DEF WellMoved, HoldsRow, Removing, At
<1>8. RowLocks => Remembers(w)
  BY <1>3, <1>4 DEF Remembers, Removing
<1> QED BY <1>1, <1>3, <1>7, <1>8, OnlyMoves DEF StoreRead, At, Owns, Reloads

LEMMA RemovalReadKeeps ==
    ASSUME IInv, NEW r \in Requests, NEW u \in Uploads, NEW op \in {"cancel", "expire"},
           request[r].pc \in {"idle", "expire"}, request[r].op \notin {"delete", "revoke"}, status[u] # "absent",
           RemovalRead(r, u, op)
    PROVE  IInv'
<1>1. CASE status[u] \in TerminalUploadStatuses
  <2> DEFINE w == [Idle EXCEPT !.pc = "done"]
  <2>1. request' = [request EXCEPT ![r] = w] /\ lock' = lock
    BY <1>1 DEF RemovalRead
  <2>2. w \in RequestType /\ w.op = "none" /\ w.upload = None /\ w.pc = "done" /\ w.path = None
    BY DEF Idle, RequestType, Ops, Steps
  <2> HIDE DEF w
  <2>3. lock' \in [Uploads -> Requests \cup {None}] /\ LocksOf(r)
    BY <2>1 DEF IInv, Typed, TypeOK, LocksOf
  <2>4. WellMoved(r, w)
    BY <2>1, <2>2, <2>3 DEF WellMoved, Fits, HoldsRow, Uploading, Storing, Removing, At
  <2>5. Remembers(w)
    BY <2>2 DEF Remembers, Removing
  <2> QED BY <2>1, <2>2, <2>4, <2>5, OnlyMoves DEF RemovalRead, At, Owns, Reloads
<1>2. CASE status[u] \notin TerminalUploadStatuses
  <2> DEFINE d == IF file[u] = None THEN "removed" ELSE "remove"
             p == IF file[u] = None THEN None ELSE file[u].path
             w == [Idle EXCEPT !.op = op, !.upload = u, !.completed = completedAt[u],
                               !.pc = d, !.path = p]
  <2>1. request' = [request EXCEPT ![r] = w] /\ ReadLock(r, u) /\ CanRead(r, u)
    BY <1>2 DEF RemovalRead
  <2>2. p \in Paths \cup {None} /\ completedAt[u] \in BOOLEAN /\ d \in {"removed", "remove"}
        /\ (d = "remove" => p \in Paths /\ file[u] # None /\ p = file[u].path)
        /\ (d = "removed" => p = None)
    BY DEF IInv, Typed, TypeOK
  <2>3. p = IF file[u] = None THEN None ELSE file[u].path
    OBVIOUS
  <2> HIDE DEF d, p
  <2>4. /\ w \in RequestType
        /\ w.op = op /\ w.upload = u /\ w.pc = d /\ w.path = p /\ w.completed = completedAt[u]
    BY <2>2 DEF Idle, RequestType, Ops, Steps
  <2> HIDE DEF w
  <2>5. lock' \in [Uploads -> Requests \cup {None}] /\ (RowLocks => LocksOf(r) /\ lock'[u] = r)
    BY <2>1, LockFacts DEF IInv, Typed
  <2>6. Fits(w)
    BY <2>2, <2>4 DEF Fits, Uploading, Storing, Removing
  <2>7. WellMoved(r, w)
    BY <2>1, <2>4, <2>5, <2>6 DEF WellMoved, At
  <2>8. Remembers(w)
    BY <1>2, <2>2, <2>3, <2>4 DEF Remembers
  <2>9. w.pc \in {"removed", "remove"} /\ (w.pc = "removed" => w.path = None)
        /\ (w.path = None \/ (file[u] # None /\ w.path = file[u].path /\ w.upload = u))
    BY <2>2, <2>4
  <2>10. ~Owns(w) /\ ~Reloads(w)
    BY <2>4, <2>9 DEF Owns, Reloads
  <2> QED BY <2>7, <2>8, <2>9, <2>10, OnlyMoves DEF RemovalRead, At
<1> QED BY <1>1, <1>2

LEMMA CancelReadKeeps ==
    ASSUME IInv, NEW r \in Requests, NEW u \in Uploads, CancelRead(r, u)
    PROVE  IInv'
<1>1. request[r] = Idle /\ request[r].pc = "idle"
  BY DEF CancelRead, At, IInv, Typed, Requested, Fits
<1>2. request[r].op \notin {"delete", "revoke"}
  BY <1>1, IdleType
<1> QED BY <1>1, <1>2, RemovalReadKeeps DEF CancelRead

LEMMA ExpireReadKeeps == ASSUME IInv, NEW r \in Requests, ExpireRead(r) PROVE IInv'
<1>1. request[r].pc = "expire" /\ request[r].op = "upload" /\ request[r].upload \in Uploads
  BY DEF ExpireRead, At, IInv, Typed, Requested, Fits, Uploading, Storing
<1>2. status[request[r].upload] # "absent"
  BY <1>1, NoneAssumption DEF IInv, Typed, Begun
<1> QED BY <1>1, <1>2, RemovalReadKeeps DEF ExpireRead

LEMMA DeleteReadKeeps ==
    ASSUME IInv, NEW r \in Requests, NEW u \in Uploads, DeleteRead(r, u)
    PROVE  IInv'
<1> DEFINE w == [Idle EXCEPT !.op = "delete", !.pc = "remove", !.upload = u, !.path = file[u].path,
                             !.was = status[u], !.completed = completedAt[u]]
<1>1. request' = [request EXCEPT ![r] = w] /\ At(r, "idle") /\ file[u] # None /\ lock' = lock
  BY DEF DeleteRead
<1>2. file[u].path \in Paths /\ completedAt[u] \in BOOLEAN /\ status[u] \in UploadStatuses
  BY <1>1 DEF IInv, Typed, TypeOK, Begun
<1>3. /\ w \in RequestType
      /\ w.op = "delete" /\ w.upload = u /\ w.pc = "remove" /\ w.path = file[u].path
  BY <1>2 DEF Idle, RequestType, Ops, Steps
<1> HIDE DEF w
<1>4. lock' \in [Uploads -> Requests \cup {None}] /\ LocksOf(r)
  BY <1>1 DEF IInv, Typed, TypeOK, LocksOf
<1>5. status[u] # "absent"
  BY <1>1 DEF IInv, Typed, Begun
<1>6. request[r].op = "none"
  BY <1>1, IdleType DEF At, IInv, Typed, Requested, Fits
<1>7. WellMoved(r, w)
  BY <1>1, <1>2, <1>3, <1>4, <1>5, <1>6 DEF WellMoved, Fits, HoldsRow, Uploading, Storing, Removing, At
<1>8. Remembers(w)
  BY <1>3 DEF Remembers, Removing
<1>9. ~Owns(w) /\ ~Reloads(w)
  BY <1>3 DEF Owns, Reloads
<1> QED BY <1>1, <1>3, <1>7, <1>8, <1>9, OnlyMoves DEF DeleteRead, At

-----------------------------------------------------------------------------
(* The steps that change the provider's objects.  A new object's path is one *)
(* that nobody knows, and a deleted one is deleted by the request whose path *)
(* it is.                                                                    *)
LEMMA ObjectStored ==
    ASSUME IInv, NEW r \in Requests, NEW w, WellMoved(r, w), UNCHANGED <<rows, overdue>>,
           NEW p \in Paths \ UsedPaths, objects' = objects \cup {p},
           w.pc = "commit", w.path = p, request[r].path = None, At(r, "provide"),
           w.op = request[r].op, w.upload = request[r].upload, RowLocks => Remembers(w)
    PROVE  IInv'
<1>1. /\ request' \in [Requests -> RequestType]
      /\ request'[r] = w
      /\ \A q \in Requests : q # r => request'[q] = request[q]
  BY Requests1 DEF IInv, Typed, WellMoved
<1>2. /\ status' = status /\ completedAt' = completedAt /\ cancelledAt' = cancelledAt
      /\ file' = file /\ overdue' = overdue
  BY DEF rows
<1>3. /\ p \notin objects
      /\ \A q \in Requests : request[q].path # p
      /\ \A u \in Uploads : file[u] # None => file[u].path # p
  BY DEF UsedPaths
<1>4. Typed'
  <2>1. TypeOK'
    BY <1>1, <1>2 DEF IInv, Typed, TypeOK, WellMoved, RequestType, Ops, Steps
  <2>2. Requested'
    BY <1>1 DEF IInv, Typed, Requested, WellMoved
  <2>3. Begun'
    BY <1>1, <1>2 DEF IInv, Typed, Begun, WellMoved
  <2> QED BY <2>1, <2>2, <2>3 DEF Typed
<1>5. PathsAreFresh'
  <2>1. ASSUME NEW q \in Requests, request'[q].pc \in {"commit", "undo"}
        PROVE  /\ request'[q].path \in objects'
               /\ \A x \in Requests : x # q => request'[x].path # request'[q].path
               /\ \A u \in Uploads : file[u] # None => file[u].path # request'[q].path
    BY <1>1, <1>3, <2>1 DEF IInv, PathsAreFresh
  <2>2. \A q \in Requests : request'[q].pc = "removed" => request'[q].path \notin objects'
    BY <1>1, <1>3 DEF IInv, PathsAreFresh, At
  <2>3. \A q \in Requests, u \in Uploads :
          file[u] # None /\ file[u].path = request'[q].path => request'[q].upload = u
    BY <1>1, <1>3 DEF IInv, PathsAreFresh
  <2> QED BY <1>2, <2>1, <2>2, <2>3 DEF IInv, PathsAreFresh, At
<1>6. RowsAreLocked'
  BY LocksKept
<1>7. RowsAreAsRead' /\ OneStores'
  <2>1. RowsAreAsRead'
    BY <1>1, <1>2 DEF IInv, RowsAreAsRead, Remembers
  <2>2. request[r].op = "upload"
    BY DEF At, IInv, Typed, Requested, Fits, Uploading, Storing
  <2>3. ~Owns(w) /\ ~Reloads(w)
    BY <2>2 DEF Owns, Reloads
  <2> QED BY <1>2, <2>1, <2>3, OwnersKept
<1>8. NoOrphanObjects'
  <2> SUFFICES ASSUME NEW x \in objects', \A u \in Uploads : file[u] # None => file[u].path # x
               PROVE  \E q \in Requests :
                        request'[q].path = x /\ request'[q].pc \in {"commit", "undo", "crashed"}
    BY <1>2 DEF NoOrphanObjects
  <2>1. CASE x = p
    BY <1>1, <2>1
  <2>2. CASE x \in objects
    <3>1. PICK q \in Requests : request[q].path = x /\ request[q].pc \in {"commit", "undo", "crashed"}
      BY <2>2 DEF IInv, NoOrphanObjects
    <3>2. x # None
      BY <2>2, NoneAssumption DEF IInv, Typed, TypeOK
    <3> QED BY <1>1, <3>1, <3>2
  <2> QED BY <2>1, <2>2
<1>9. RowLocks => EndedUploadsHoldNoFile' /\ CompletedUploadsAreStored'
  BY <1>2, RemovedLasts DEF IInv, EndedUploadsHoldNoFile, CompletedUploadsAreStored
<1>10. RowLocks => FilesHaveObjects'
  <2> SUFFICES ASSUME RowLocks, NEW u \in Uploads, file[u] # None, file[u].path \notin objects'
               PROVE  \E q \in Requests : DeletedBy(request'[q], file[u].path)
    BY <1>2 DEF FilesHaveObjects
  <2>1. PICK q \in Requests : DeletedBy(request[q], file[u].path)
    BY DEF IInv, FilesHaveObjects
  <2>2. DeletedBy(request'[q], file[u].path)
    BY <2>1, DeletedLasts DEF At
  <2> QED BY <2>2
<1> QED BY <1>4, <1>5, <1>6, <1>7, <1>8, <1>9, <1>10 DEF IInv

LEMMA ObjectDeleted ==
    ASSUME IInv, NEW r \in Requests, NEW w, WellMoved(r, w), UNCHANGED <<rows, overdue>>,
           objects' = objects \ {request[r].path},
           \/ request[r].pc \in {"undo", "revoke"} /\ w.pc = "failing"
           \/ At(r, "remove") /\ w.pc = "removed",
           w.op = request[r].op, w.upload = request[r].upload, w.path = request[r].path,
           RowLocks => Remembers(w)
    PROVE  IInv'
<1> DEFINE p == request[r].path
<1>1. /\ request' \in [Requests -> RequestType]
      /\ request'[r] = w
      /\ \A q \in Requests : q # r => request'[q] = request[q]
  BY Requests1 DEF IInv, Typed, WellMoved
<1>2. /\ status' = status /\ completedAt' = completedAt /\ cancelledAt' = cancelledAt
      /\ file' = file /\ overdue' = overdue
  BY DEF rows
<1>3. \A q \in Requests : q # r /\ request[q].pc \in {"commit", "undo"} => request[q].path # p
  BY DEF IInv, PathsAreFresh
<1>4. Typed'
  <2>1. TypeOK'
    BY <1>1, <1>2 DEF IInv, Typed, TypeOK, WellMoved, RequestType, Ops, Steps
  <2>2. Requested'
    BY <1>1 DEF IInv, Typed, Requested, WellMoved
  <2>3. Begun'
    BY <1>1, <1>2 DEF IInv, Typed, Begun, WellMoved
  <2> QED BY <2>1, <2>2, <2>3 DEF Typed
<1>5. PathsAreFresh'
  <2>1. ASSUME NEW q \in Requests, request'[q].pc \in {"commit", "undo"}
        PROVE  /\ request'[q].path \in objects'
               /\ \A x \in Requests : x # q => request'[x].path # request'[q].path
               /\ \A u \in Uploads : file[u] # None => file[u].path # request'[q].path
    <3>1. q # r /\ request'[q] = request[q] /\ request[q].pc \in {"commit", "undo"}
      BY <1>1, <2>1
    <3>2. /\ request[q].path \in objects
          /\ \A x \in Requests : x # q => request[x].path # request[q].path
          /\ \A u \in Uploads : file[u] # None => file[u].path # request[q].path
      BY <3>1 DEF IInv, PathsAreFresh
    <3>3. \A x \in Requests : x # q => request'[x].path # request[q].path
      BY <1>1, <3>2
    <3> QED BY <1>3, <3>1, <3>2, <3>3
  <2>2. \A q \in Requests : request'[q].pc = "removed" => request'[q].path \notin objects'
    BY <1>1 DEF IInv, PathsAreFresh, At
  <2>3. \A q \in Requests : request'[q].path = request[q].path /\ request'[q].upload = request[q].upload
    BY <1>1
  <2> QED BY <1>2, <2>1, <2>2, <2>3 DEF IInv, PathsAreFresh, At
<1>6. RowsAreLocked'
  BY LocksKept
<1>7. RowsAreAsRead' /\ OneStores'
  <2>1. RowsAreAsRead'
    BY <1>1, <1>2 DEF IInv, RowsAreAsRead, Remembers
  <2>2. /\ Reloads(w) => Reloads(request[r])
        /\ Owns(w) => Owns(request[r])
    BY DEF Owns, Reloads
  <2> QED BY <1>2, <2>1, <2>2, OwnersKept
<1>8. NoOrphanObjects'
  <2> SUFFICES ASSUME NEW x \in objects', \A u \in Uploads : file[u] # None => file[u].path # x
               PROVE  \E q \in Requests :
                        request'[q].path = x /\ request'[q].pc \in {"commit", "undo", "crashed"}
    BY <1>2 DEF NoOrphanObjects
  <2>1. x \in objects /\ x # p
    OBVIOUS
  <2>2. PICK q \in Requests : request[q].path = x /\ request[q].pc \in {"commit", "undo", "crashed"}
    BY <2>1 DEF IInv, NoOrphanObjects
  <2> QED BY <1>1, <2>1, <2>2
<1>9. At(r, "undo") => \A u \in Uploads : file[u] # None => file[u].path # p
  BY DEF IInv, PathsAreFresh, At
<1>10. \A u \in Uploads : file[u] # None /\ file[u].path = p => request[r].upload = u
  BY DEF IInv, PathsAreFresh
<1>11. RowLocks => EndedUploadsHoldNoFile'
  BY <1>2 DEF IInv, EndedUploadsHoldNoFile
<1>12. RowLocks => CompletedUploadsAreStored'
  <2> SUFFICES ASSUME RowLocks, NEW u \in Uploads, status[u] = "completed", ~Removed(u)'
               PROVE  file[u] # None /\ file[u].path \in objects \ {p}
    BY <1>2 DEF CompletedUploadsAreStored
  <2>1. file[u] # None /\ file[u].path \in objects
    BY RemovedLasts DEF IInv, CompletedUploadsAreStored
  <2> SUFFICES ASSUME file[u].path = p
               PROVE  FALSE
    BY <2>1
  <2>2. request[r].upload = u
    BY <1>10, <2>1
  <2>3. CASE At(r, "undo")
    BY <1>9, <2>1, <2>3
  <2>4. CASE At(r, "revoke")
    <3>1. Reloads(request[r])
      BY <2>4 DEF Reloads, At, IInv, Typed, Requested, Fits
    <3> QED BY <2>2, <3>1 DEF IInv, OneStores
  <2>5. CASE At(r, "remove")
    <3>1. request[r].op # "delete"
      BY <1>1, <2>2 DEF Removed
    <3>2. status[u] \notin TerminalUploadStatuses
      BY <2>2, <2>5, <3>1 DEF IInv, RowsAreAsRead, Remembers, Removing, At
    <3> QED BY <3>2 DEF TerminalUploadStatuses
  <2> QED BY <2>3, <2>4, <2>5 DEF At
<1>13. RowLocks => FilesHaveObjects'
  <2> SUFFICES ASSUME RowLocks, NEW u \in Uploads, file[u] # None, file[u].path \notin objects \ {p}
               PROVE  \E q \in Requests : DeletedBy(request'[q], file[u].path)
    BY <1>2 DEF FilesHaveObjects
  <2>1. CASE file[u].path = p
    <3>1. ~At(r, "undo")
      BY <1>9, <2>1
    <3>2. At(r, "revoke") \/ At(r, "remove")
      BY <3>1 DEF At
    <3>3. DeletedBy(w, p)
      BY <3>2 DEF DeletedBy, At, IInv, Typed, Requested, Fits, Removing
    <3> QED BY <1>1, <2>1, <3>3
  <2>2. CASE file[u].path \notin objects
    <3>1. PICK q \in Requests : DeletedBy(request[q], file[u].path)
      BY <2>2 DEF IInv, FilesHaveObjects
    <3>2. DeletedBy(request'[q], file[u].path)
      BY <3>1, DeletedLasts DEF At
    <3> QED BY <3>2
  <2> QED BY <2>1, <2>2
<1> QED BY <1>4, <1>5, <1>6, <1>7, <1>8, <1>11, <1>12, <1>13 DEF IInv

LEMMA ProviderStoreKeeps == ASSUME IInv, NEW r \in Requests, ProviderStore(r) PROVE IInv'
<1> DEFINE u == request[r].upload
<1>1. /\ u \in Uploads /\ request[r].op = "upload" /\ request[r].content \in Contents
      /\ request[r].path = None /\ At(r, "provide") /\ status[u] # "absent"
  BY NoneAssumption DEF ProviderStore, At, IInv, Typed, Requested, Begun, Fits, Uploading, Storing
<1>2. lock' = lock /\ (RowLocks => lock[u] = r)
  BY DEF IInv, RowsAreLocked, HoldsRow, ProviderStore, At
<1>3. lock' \in [Uploads -> Requests \cup {None}] /\ LocksOf(r)
  BY <1>2 DEF IInv, Typed, TypeOK, LocksOf
<1>4. CASE Goto(r, "failing") /\ objects' = objects
  <2>1. PICK w \in RequestType :
          /\ request' = [request EXCEPT ![r] = w]
          /\ w.pc = "failing" /\ w.op = request[r].op /\ w.upload = request[r].upload
          /\ w.content = request[r].content /\ w.path = request[r].path
          /\ w.completed = request[r].completed
    BY <1>4, Going DEF IInv, Typed, Steps
  <2>2. WellMoved(r, w)
    BY <1>1, <1>3, <2>1 DEF WellMoved, Fits, Uploading, Storing, Removing, HoldsRow, At
  <2>3. Remembers(w)
    BY <2>1 DEF Remembers, Removing
  <2> QED BY <1>1, <1>4, <2>1, <2>2, <2>3, OnlyMoves DEF ProviderStore, At, Owns, Reloads
<1>5. ASSUME NEW p \in Paths \ UsedPaths, objects' = objects \cup {p},
             request' = [request EXCEPT ![r].path = p, ![r].pc = "commit"]
      PROVE  IInv'
  <2> DEFINE w == [request[r] EXCEPT !.path = p, !.pc = "commit"]
  <2>1. request' = [request EXCEPT ![r] = w]
    BY <1>5 DEF IInv, Typed, TypeOK
  <2>2. request[r] \in RequestType
    BY DEF IInv, Typed, TypeOK, RequestType, Ops, Steps
  <2>3. /\ w \in RequestType
        /\ w.op = "upload" /\ w.upload = u /\ w.pc = "commit" /\ w.path = p
        /\ w.content = request[r].content
    BY <1>1, <2>2 DEF RequestType, Steps
  <2> HIDE DEF w
  <2>4. WellMoved(r, w)
    BY <1>1, <1>2, <1>3, <2>1, <2>3 DEF WellMoved, Fits, Uploading, Storing, Removing, At
  <2>5. RowLocks => Remembers(w)
    BY <1>1, <2>3 DEF Remembers, Removing, IInv, RowsAreAsRead, At
  <2> QED BY <1>1, <1>5, <2>3, <2>4, <2>5, ObjectStored DEF ProviderStore, At
<1> QED BY <1>4, <1>5 DEF ProviderStore

LEMMA StoreUndoKeeps == ASSUME IInv, NEW r \in Requests, StoreUndo(r) PROVE IInv'
<1> DEFINE u == request[r].upload
<1>1. /\ u \in Uploads /\ request[r].content \in Contents /\ request[r].path \in Paths
      /\ request[r].pc \in {"undo", "revoke"} /\ request[r].op \in {"upload", "revoke"}
      /\ status[u] # "absent"
  BY NoneAssumption DEF StoreUndo, At, IInv, Typed, Requested, Begun, Fits, Uploading, Storing
<1>2. lock' \in [Uploads -> Requests \cup {None}] /\ LocksOf(r)
  BY DEF IInv, Typed, TypeOK, LocksOf, StoreUndo
<1>3. PICK w \in RequestType :
        /\ request' = [request EXCEPT ![r] = w]
        /\ w.pc = "failing" /\ w.op = request[r].op /\ w.upload = request[r].upload
        /\ w.content = request[r].content /\ w.path = request[r].path
        /\ w.completed = request[r].completed
  BY Going DEF IInv, Typed, Steps, StoreUndo
<1>4. WellMoved(r, w)
  BY <1>1, <1>2, <1>3 DEF WellMoved, Fits, HoldsRow, Uploading, Storing, Removing, At
<1>5. Remembers(w)
  BY <1>3 DEF Remembers, Removing
<1> QED BY <1>1, <1>3, <1>4, <1>5, ObjectDeleted DEF StoreUndo, At

(* An upload that fails after its commit sets out to revoke it.              *)
LEMMA StoreReloadKeeps == ASSUME IInv, NEW r \in Requests, StoreReload(r) PROVE IInv'
<1> DEFINE u == request[r].upload
<1>1. /\ u \in Uploads /\ request[r].op = "upload" /\ request[r].content \in Contents
      /\ request[r].path \in Paths /\ request[r].pc = "reload" /\ status[u] # "absent"
  BY NoneAssumption DEF StoreReload, At, IInv, Typed, Requested, Begun, Fits, Uploading, Storing
<1>2. PICK w \in RequestType :
        /\ request' = [request EXCEPT ![r] = w]
        /\ \/ w.pc = "complete" /\ w.op = "upload"
           \/ w.pc = "revoke" /\ w.op = "revoke"
        /\ w.upload = u /\ w.content = request[r].content /\ w.path = request[r].path
  <2>1. CASE Goto(r, "complete")
    <3>1. TypeOK /\ "complete" \in Steps
      BY DEF IInv, Typed, Steps
    <3>2. \E w \in RequestType :
            /\ request' = [request EXCEPT ![r] = w]
            /\ w.pc = "complete" /\ request[r].op = w.op /\ w.upload = request[r].upload
            /\ w.content = request[r].content /\ w.path = request[r].path
      BY <2>1, <3>1, Going
    <3> QED BY <1>1, <3>2
  <2>2. CASE request' = [request EXCEPT ![r].op = "revoke", ![r].pc = "revoke"]
    <3> DEFINE w == [request[r] EXCEPT !.op = "revoke", !.pc = "revoke"]
    <3>1. request[r] \in RequestType /\ request' = [request EXCEPT ![r] = w]
      BY <2>2 DEF IInv, Typed, TypeOK, RequestType, Ops, Steps
    <3>2. /\ w \in RequestType /\ w.pc = "revoke" /\ w.op = "revoke"
          /\ w.upload = u /\ w.content = request[r].content /\ w.path = request[r].path
      BY <3>1 DEF RequestType, Ops, Steps
    <3> QED BY <3>1, <3>2
  <2> QED BY <2>1, <2>2 DEF StoreReload
<1>3. lock' \in [Uploads -> Requests \cup {None}] /\ LocksOf(r)
  BY DEF IInv, Typed, TypeOK, LocksOf, StoreReload
<1>4. WellMoved(r, w)
  BY <1>1, <1>2, <1>3 DEF WellMoved, Fits, HoldsRow, Uploading, Storing, Removing, At
<1>5. Remembers(w)
  BY <1>2 DEF Remembers, Removing
<1>6. Reloads(request[r]) /\ Owns(request[r])
  BY <1>1 DEF Reloads, Owns
<1> QED BY <1>1, <1>2, <1>4, <1>5, <1>6, OnlyMoves DEF StoreReload, At

LEMMA RemoveObjectKeeps == ASSUME IInv, NEW r \in Requests, RemoveObject(r) PROVE IInv'
<1> DEFINE u == request[r].upload
<1>1. /\ u \in Uploads /\ request[r].op \in {"cancel", "expire", "delete"}
      /\ request[r].path \in Paths /\ At(r, "remove") /\ status[u] # "absent"
  BY NoneAssumption DEF RemoveObject, At, IInv, Typed, Requested, Begun, Fits, Removing
<1>2. PICK w \in RequestType :
        /\ request' = [request EXCEPT ![r] = w]
        /\ w.pc = "removed" /\ w.op = request[r].op /\ w.upload = request[r].upload
        /\ w.content = request[r].content /\ w.path = request[r].path
        /\ w.completed = request[r].completed
  BY Going DEF IInv, Typed, Steps, RemoveObject
<1>3. lock' = lock /\ (RowLocks /\ request[r].op # "delete" => lock[u] = r)
  BY <1>1 DEF IInv, RowsAreLocked, HoldsRow, Removing, RemoveObject, At
<1>4. lock' \in [Uploads -> Requests \cup {None}] /\ LocksOf(r)
  BY <1>3 DEF IInv, Typed, TypeOK, LocksOf
<1>5. WellMoved(r, w)
  BY <1>1, <1>2, <1>3, <1>4 DEF WellMoved, Fits, HoldsRow, Uploading, Storing, Removing, At
<1>6. RowLocks => Remembers(w)
  <2>1. RowLocks => Remembers(request[r])
    BY DEF IInv, RowsAreAsRead
  <2> QED BY <1>1, <1>2, <2>1 DEF Remembers, Removing, At
<1> QED BY <1>1, <1>2, <1>5, <1>6, ObjectDeleted DEF RemoveObject

-----------------------------------------------------------------------------
(* The commits.                                                              *)
LEMMA CreateUploadSessionKeeps ==
    ASSUME IInv, NEW r \in Requests, NEW u \in Uploads, CreateUploadSession(r, u)
    PROVE  IInv'
<1>1. /\ request' = request /\ lock' = lock /\ objects' = objects /\ overdue' = overdue
      /\ file' = file /\ completedAt' = completedAt /\ cancelledAt' = cancelledAt
      /\ status' = [status EXCEPT ![u] = "created"]
  BY DEF CreateUploadSession
<1>2. status \in [Uploads -> UploadStatuses \cup {"absent"}]
  BY DEF IInv, Typed, TypeOK
<1>3. /\ status' \in [Uploads -> UploadStatuses \cup {"absent"}]
      /\ status'[u] = "created"
      /\ \A v \in Uploads : v # u => status'[v] = status[v]
  BY <1>1, <1>2 DEF UploadStatuses
<1>4. /\ file[u] = None
      /\ \A q \in Requests : request[q].upload # u
  BY NoneAssumption DEF IInv, Typed, Begun, CreateUploadSession
<1>5. Typed'
  <2>1. TypeOK'
    BY <1>1, <1>3 DEF IInv, Typed, TypeOK
  <2>2. Requested'
    BY <1>1 DEF IInv, Typed, Requested
  <2>3. Begun'
    <3>1. \A q \in Requests : request[q].upload \in Uploads \cup {None}
      BY DEF IInv, Typed, TypeOK
    <3> QED BY <1>1, <1>3, <1>4, <3>1 DEF IInv, Typed, Begun
  <2> QED BY <2>1, <2>2, <2>3 DEF Typed
<1>6. PathsAreFresh'
  BY <1>1 DEF IInv, PathsAreFresh, At
<1>7. RowsAreLocked'
  BY <1>1 DEF IInv, RowsAreLocked
<1>8. RowsAreAsRead' /\ OneStores'
  <2>1. \A q \in Requests : request[q].upload \in Uploads =>
          status'[request[q].upload] = status[request[q].upload]
    BY <1>3, <1>4
  <2>2. \A q \in Requests : Removing(request[q]) \/ Storing(request[q]) => request[q].upload \in Uploads
    BY DEF IInv, Typed, Requested, Fits, Uploading
  <2>3. \A q \in Requests : Owns(request[q]) => request[q].upload \in Uploads
    BY DEF Owns, Reloads, IInv, Typed, Requested, Fits, Uploading, Storing
  <2>4. RowsAreAsRead'
    BY <1>1, <2>1, <2>2 DEF IInv, RowsAreAsRead, Remembers, Storing
  <2>5. OneStores'
    BY <1>1, <2>1, <2>3 DEF IInv, OneStores, Owns
  <2> QED BY <2>4, <2>5
<1>9. NoOrphanObjects'
  BY <1>1 DEF IInv, NoOrphanObjects
<1>10. RowLocks => EndedUploadsHoldNoFile'
  BY <1>1, <1>3 DEF IInv, EndedUploadsHoldNoFile
<1>11. RowLocks => CompletedUploadsAreStored'
  BY <1>1, <1>3 DEF IInv, CompletedUploadsAreStored, Removed, At
<1>12. RowLocks => FilesHaveObjects'
  BY <1>1 DEF IInv, FilesHaveObjects
<1> QED BY <1>5, <1>6, <1>7, <1>8, <1>9, <1>10, <1>11, <1>12 DEF IInv

LEMMA StoreCommitKeeps == ASSUME IInv, NEW r \in Requests, StoreCommit(r) PROVE IInv'
<1> DEFINE u == request[r].upload
<1>1. /\ u \in Uploads /\ request[r].op = "upload" /\ request[r].content \in Contents
      /\ request[r].path \in Paths /\ At(r, "commit") /\ status[u] # "absent"
  BY NoneAssumption DEF StoreCommit, At, IInv, Typed, Requested, Begun, Fits, Uploading, Storing
<1>2. RowLocks => lock[u] = r
  BY <1>1 DEF IInv, RowsAreLocked, HoldsRow, At
<1>3. CASE Goto(r, "reload") /\ Unlock(r) /\ ~ViolatesUnique(u, request[r].content)
           /\ status' = [status EXCEPT ![u] = "validating"]
           /\ file' = [file EXCEPT ![u] = [content |-> request[r].content, path |-> request[r].path]]
  <2>1. PICK w \in RequestType :
          /\ request' = [request EXCEPT ![r] = w]
          /\ w.pc = "reload" /\ w.op = request[r].op /\ w.upload = request[r].upload
          /\ w.content = request[r].content /\ w.path = request[r].path
          /\ w.completed = request[r].completed
    BY <1>3, Going DEF IInv, Typed, Steps
  <2>2. lock' \in [Uploads -> Requests \cup {None}] /\ LocksOf(r)
    BY <1>3, LockFacts DEF IInv, Typed
  <2>3. WellMoved(r, w)
    BY <1>1, <2>1, <2>2 DEF WellMoved, Fits, Uploading, Storing, Removing, HoldsRow, At
  <2> DEFINE f == [content |-> request[r].content, path |-> request[r].path]
  <2>4. f \in FileRows /\ f.path = request[r].path
    BY <1>1 DEF FileRows
  <2> HIDE DEF f
  <2>5. f # None
    BY <2>4, NoFileAssumption DEF FileRows
  <2>6. status' \in [Uploads -> UploadStatuses \cup {"absent"}] /\ status'[u] = "validating"
        /\ \A v \in Uploads \ {u} : status'[v] = status[v]
    BY <1>1, <1>3 DEF IInv, Typed, TypeOK, UploadStatuses
  <2>7. file' = [file EXCEPT ![u] = f]
    BY <1>3 DEF f
  <2>8. file' \in [Uploads -> FileRows \cup {None}] /\ file'[u] = f
        /\ \A v \in Uploads \ {u} : file'[v] = file[v]
    BY <1>1, <2>4, <2>7 DEF IInv, Typed, TypeOK, FileRows
  <2>9. completedAt' = completedAt /\ cancelledAt' = cancelledAt /\ objects' = objects /\ overdue' = overdue
    BY DEF StoreCommit
  <2>10. RowsTyped' /\ OthersKept(u)
    BY <2>6, <2>8, <2>9 DEF RowsTyped, OthersKept, IInv, Typed, TypeOK
  <2>11. file[u] = None
    BY <1>3 DEF ViolatesUnique
  <2>12. OneStores'
    <3>1. /\ request'[r] = w
          /\ \A q \in Requests : q # r => request'[q] = request[q]
      BY <2>1, Requests1 DEF IInv, Typed
    <3> SUFFICES ASSUME RowLocks
                 PROVE  OneStores'
      BY DEF OneStores
    <3>2. status[u] = "created"
      BY <1>1 DEF IInv, RowsAreAsRead, Remembers, At
    <3>3. \A q \in Requests : Owns(request[q]) => request[q].upload \in Uploads \ {u}
      BY <3>2 DEF Owns, Reloads, IInv, Typed, Requested, Fits, Uploading, Storing, OneStores
    <3>4. ~Owns(request[r])
      BY <3>3
    <3>5. status'[u] \notin {"created", "completed"}
      BY <2>6
    <3>6. ASSUME NEW q \in Requests, Owns(request'[q])
          PROVE  /\ status'[request'[q].upload] # "created"
                 /\ Reloads(request'[q]) => status'[request'[q].upload] # "completed"
      <4>1. CASE q = r
        BY <2>1, <3>1, <3>5, <4>1
      <4>2. CASE q # r
        BY <2>6, <3>1, <3>3, <3>6, <4>2 DEF IInv, OneStores
      <4> QED BY <4>1, <4>2
    <3>7. ASSUME NEW q \in Requests, NEW x \in Requests,
                 Owns(request'[q]), Owns(request'[x]), x # q
          PROVE  request'[x].upload # request'[q].upload
      <4>1. CASE q = r \/ x = r
        BY <2>1, <3>1, <3>3, <3>7, <4>1
      <4>2. CASE q # r /\ x # r
        BY <3>1, <3>7, <4>2 DEF IInv, OneStores
      <4> QED BY <4>1, <4>2
    <3> QED BY <3>6, <3>7 DEF OneStores, Owns
  <2> QED BY <1>1, <1>2, <2>1, <2>3, <2>4, <2>5, <2>6, <2>8, <2>9, <2>10, <2>11, <2>12, RowWritten DEF At
<1>4. CASE Goto(r, "undo") /\ (lock' = lock \/ Unlock(r)) /\ UNCHANGED rows
  <2>1. PICK w \in RequestType :
          /\ request' = [request EXCEPT ![r] = w]
          /\ w.pc = "undo" /\ w.op = request[r].op /\ w.upload = request[r].upload
          /\ w.content = request[r].content /\ w.path = request[r].path
          /\ w.completed = request[r].completed
    BY <1>4, Going DEF IInv, Typed, Steps
  <2>2. lock' \in [Uploads -> Requests \cup {None}] /\ LocksOf(r)
    BY <1>4, LockFacts DEF IInv, Typed, TypeOK, LocksOf
  <2>3. WellMoved(r, w)
    BY <1>1, <2>1, <2>2 DEF WellMoved, Fits, Uploading, Storing, Removing, HoldsRow, At
  <2>4. Remembers(w)
    BY <2>1 DEF Remembers, Removing
  <2> QED BY <1>1, <1>4, <2>1, <2>3, <2>4, OnlyMoves DEF StoreCommit, At, Owns, Reloads
<1> QED BY <1>3, <1>4 DEF StoreCommit, Leave, rows

LEMMA MarkFailedWriteKeeps == ASSUME IInv, NEW r \in Requests, MarkFailedWrite(r) PROVE IInv'
<1> DEFINE u == request[r].upload
<1>1. /\ u \in Uploads /\ request[r].op \in {"upload", "revoke"} /\ request[r].content \in Contents
      /\ At(r, "mark") /\ status[u] # "absent"
  BY NoneAssumption DEF MarkFailedWrite, At, IInv, Typed, Requested, Begun, Fits, Uploading, Storing
<1>2. PICK w \in RequestType :
        /\ request' = [request EXCEPT ![r] = w]
        /\ w.pc = "done" /\ w.op = request[r].op /\ w.upload = request[r].upload
        /\ w.content = request[r].content /\ w.path = request[r].path
        /\ w.completed = request[r].completed
  BY Going DEF IInv, Typed, Steps, MarkFailedWrite
<1>3. lock' \in [Uploads -> Requests \cup {None}] /\ LocksOf(r)
  BY DEF IInv, Typed, TypeOK, LocksOf, MarkFailedWrite
<1>4. WellMoved(r, w)
  BY <1>1, <1>2, <1>3 DEF WellMoved, Fits, Uploading, Storing, Removing, HoldsRow, At
<1>5. status' \in [Uploads -> UploadStatuses \cup {"absent"}] /\ status'[u] = "failed"
      /\ \A v \in Uploads \ {u} : status'[v] = status[v]
  BY <1>1 DEF IInv, Typed, TypeOK, UploadStatuses, MarkFailedWrite
<1>6. /\ completedAt' = completedAt /\ cancelledAt' = cancelledAt /\ file' = file
      /\ objects' = objects /\ overdue' = overdue
  BY DEF MarkFailedWrite
<1>7. RowsTyped' /\ OthersKept(u)
  BY <1>5, <1>6 DEF RowsTyped, OthersKept, IInv, Typed, TypeOK, FileRows
<1>8. RowLocks => lock[u] \in {None, r}
  BY DEF MarkFailedWrite, CanWrite
<1>9. OneStores'
  BY <1>1, <1>2, <1>4, <1>5, OwnersKept DEF Owns, Reloads, At
<1> QED BY <1>1, <1>2, <1>4, <1>5, <1>6, <1>7, <1>8, <1>9, RowWritten DEF At

LEMMA CompleteWriteKeeps == ASSUME IInv, NEW r \in Requests, CompleteWrite(r) PROVE IInv'
<1> DEFINE u == request[r].upload
<1>1. /\ u \in Uploads /\ request[r].op = "upload" /\ request[r].content \in Contents
      /\ At(r, "completing") /\ status[u] # "absent"
  BY NoneAssumption DEF CompleteWrite, At, IInv, Typed, Requested, Begun, Fits, Uploading, Storing
<1>2. PICK w \in RequestType :
        /\ request' = [request EXCEPT ![r] = w]
        /\ w.pc = "done" /\ w.op = request[r].op /\ w.upload = request[r].upload
        /\ w.content = request[r].content /\ w.path = request[r].path
        /\ w.completed = request[r].completed
  BY Going DEF IInv, Typed, Steps, CompleteWrite, Leave
<1>3. lock' \in [Uploads -> Requests \cup {None}] /\ LocksOf(r)
  BY LockFacts DEF IInv, Typed, CompleteWrite, Leave
<1>4. WellMoved(r, w)
  BY <1>1, <1>2, <1>3 DEF WellMoved, Fits, Uploading, Storing, Removing, HoldsRow, At
<1>5. /\ status' \in [Uploads -> UploadStatuses \cup {"absent"}]
      /\ status'[u] = "completed" \/ status' = status
      /\ completedAt' \in [Uploads -> BOOLEAN]
      /\ \A v \in Uploads \ {u} : status'[v] = status[v] /\ completedAt'[v] = completedAt[v]
  BY <1>1 DEF IInv, Typed, TypeOK, UploadStatuses, TerminalUploadStatuses, CompleteWrite
<1>6. cancelledAt' = cancelledAt /\ file' = file /\ objects' = objects /\ overdue' = overdue
  BY DEF CompleteWrite
<1>7. RowsTyped' /\ OthersKept(u)
  BY <1>5, <1>6 DEF RowsTyped, OthersKept, IInv, Typed, TypeOK, FileRows
<1>8. RowLocks => lock[u] \in {None, r}
  BY DEF CompleteWrite, CanWrite
<1>9. RowLocks => file[u] # None
  BY <1>1 DEF IInv, RowsAreAsRead, Remembers, At
<1>10. RowLocks /\ status'[u] \in {"cancelled", "expired"} => file'[u] = None
  BY <1>1, <1>5, <1>6 DEF IInv, EndedUploadsHoldNoFile
<1>11. OneStores'
  <2>1. ~Owns(w) /\ ~Reloads(w)
    BY <1>1, <1>2 DEF Owns, Reloads
  <2>2. \A v \in Uploads : status'[v] = "created" => status[v] = "created"
    BY <1>5
  <2>3. \A v \in Uploads : status'[v] = "completed" => status[v] = "completed" \/ request[r].upload = v
    BY <1>5
  <2> QED BY <1>1, <1>4, <2>1, <2>2, <2>3, OwnersKept
<1> QED BY <1>1, <1>2, <1>4, <1>5, <1>6, <1>7, <1>8, <1>9, <1>10, <1>11, RowWritten DEF At

(* What the row and the object lose together.                                *)
LEMMA FileRemoved ==
    ASSUME IInv, NEW r \in Requests, At(r, "removed"), NEW u \in Uploads, request[r].upload = u,
           file' = WithoutFile(u, request[r].path)
    PROVE  /\ file' \in [Uploads -> FileRows \cup {None}]
           /\ \A v \in Uploads \ {u} : file'[v] = file[v]
           /\ \/ file'[u] = None /\ (file[u] # None => file[u].path = request[r].path)
              \/ file'[u] = file[u]
           /\ file'[u] # None => file'[u].path # request[r].path
           /\ RowLocks /\ request[r].op # "delete" => file'[u] = None
<1>1. file \in [Uploads -> FileRows \cup {None}]
  BY DEF IInv, Typed, TypeOK, FileRows
<1>2. RowLocks /\ request[r].op # "delete" =>
        request[r].path = IF file[u] = None THEN None ELSE file[u].path
  BY DEF IInv, RowsAreAsRead, Remembers, Removing, At
<1>3. file[u] # None => file[u].path # None
  BY <1>1, NoneAssumption DEF FileRows
<1> QED BY <1>1, <1>2, <1>3 DEF WithoutFile

LEMMA RemovalWritten ==
    ASSUME IInv, NEW r \in Requests, At(r, "removed"), NEW u \in Uploads, request[r].upload = u,
           Leave(r, "done"), CanWrite(r, u), UNCHANGED <<overdue, objects>>,
           status' \in [Uploads -> UploadStatuses \cup {"absent"}],
           cancelledAt' \in [Uploads -> BOOLEAN],
           \A v \in Uploads \ {u} : status'[v] = status[v] /\ cancelledAt'[v] = cancelledAt[v],
           status'[u] # "absent",
           status'[u] = "completed" => request[r].op = "delete",
           status'[u] \in {"created", "completed"} => status'[u] = status[u],
           RowLocks /\ request[r].op = "delete" /\ status'[u] \in {"cancelled", "expired"} =>
             status'[u] = status[u],
           completedAt' = WithoutCompletion(r),
           file' = WithoutFile(u, request[r].path)
    PROVE  IInv'
<1>1. request[r].op \in {"cancel", "expire", "delete"} /\ status[u] # "absent"
  BY NoneAssumption DEF At, IInv, Typed, Requested, Begun, Fits, Removing
<1>2. PICK w \in RequestType :
        /\ request' = [request EXCEPT ![r] = w]
        /\ w.pc = "done" /\ w.op = request[r].op /\ w.upload = request[r].upload
        /\ w.content = request[r].content /\ w.path = request[r].path
        /\ w.completed = request[r].completed
  BY Going DEF IInv, Typed, Steps, Leave
<1>3. lock' \in [Uploads -> Requests \cup {None}] /\ LocksOf(r)
  BY LockFacts DEF IInv, Typed, Leave
<1>4. WellMoved(r, w)
  BY <1>1, <1>2, <1>3 DEF WellMoved, Fits, Uploading, Storing, Removing, HoldsRow, At
<1>5. /\ completedAt' \in [Uploads -> BOOLEAN]
      /\ \A v \in Uploads \ {u} : completedAt'[v] = completedAt[v]
  BY DEF WithoutCompletion, IInv, Typed, TypeOK
<1>6. RowsTyped' /\ OthersKept(u)
  BY <1>5, FileRemoved DEF RowsTyped, OthersKept
<1>7. RowLocks => lock[u] \in {None, r}
  BY DEF CanWrite
<1>8. RowLocks /\ status'[u] \in {"cancelled", "expired"} => file'[u] = None
  <2>1. CASE request[r].op = "delete"
    BY <2>1, FileRemoved DEF IInv, EndedUploadsHoldNoFile
  <2>2. CASE request[r].op # "delete"
    BY <2>2, FileRemoved
  <2> QED BY <2>1, <2>2
<1>9. /\ \/ file'[u] = None /\ (file[u] # None => file[u].path = request[r].path)
         \/ file'[u] = file[u]
      /\ file'[u] # None => file'[u].path # request[r].path
  BY FileRemoved
<1>10. OneStores'
  <2>1. ~Owns(w) /\ ~Reloads(w)
    BY <1>1, <1>2 DEF Owns, Reloads
  <2>2. \A v \in Uploads : status'[v] \in {"created", "completed"} => status'[v] = status[v]
    OBVIOUS
  <2> QED BY <1>4, <2>1, <2>2, OwnersKept
<1> QED BY <1>1, <1>2, <1>4, <1>6, <1>7, <1>8, <1>9, <1>10, RowWritten DEF At

LEMMA CancelWriteKeeps == ASSUME IInv, NEW r \in Requests, CancelWrite(r) PROVE IInv'
<1> DEFINE u == request[r].upload
<1>1. /\ At(r, "removed") /\ request[r].op = "cancel" /\ u \in Uploads /\ status[u] # "absent"
      /\ Leave(r, "done") /\ CanWrite(r, u) /\ overdue' = overdue /\ objects' = objects
  BY NoneAssumption DEF CancelWrite, At, IInv, Typed, Requested, Begun, Fits, Removing
<1>2. CASE ~WithoutCompletion(r)[u]
  <2>1. /\ status' = [status EXCEPT ![u] = "cancelled"]
        /\ cancelledAt' = [cancelledAt EXCEPT ![u] = TRUE]
        /\ completedAt' = WithoutCompletion(r)
        /\ file' = WithoutFile(u, request[r].path)
    BY <1>2 DEF CancelWrite
  <2>2. /\ status' \in [Uploads -> UploadStatuses \cup {"absent"}] /\ status'[u] = "cancelled"
        /\ \A v \in Uploads \ {u} : status'[v] = status[v]
    BY <1>1, <2>1 DEF IInv, Typed, TypeOK, UploadStatuses, TerminalUploadStatuses
  <2>3. /\ cancelledAt' \in [Uploads -> BOOLEAN]
        /\ \A v \in Uploads \ {u} : cancelledAt'[v] = cancelledAt[v]
    BY <1>1, <2>1 DEF IInv, Typed, TypeOK
  <2> QED BY <1>1, <2>1, <2>2, <2>3, RemovalWritten
<1>3. CASE WithoutCompletion(r)[u]
  <2>1. completedAt[u] /\ ~request[r].completed
    BY <1>1, <1>3 DEF WithoutCompletion, IInv, Typed, TypeOK
  <2>2. ~RowLocks
    BY <1>1, <2>1 DEF IInv, RowsAreAsRead, Remembers, Removing, At
  <2>3. PICK w \in RequestType :
          /\ request' = [request EXCEPT ![r] = w]
          /\ w.pc = "done" /\ w.op = request[r].op /\ w.upload = request[r].upload
          /\ w.content = request[r].content /\ w.path = request[r].path
          /\ w.completed = request[r].completed
    BY <1>1, Going DEF IInv, Typed, Steps, Leave
  <2>4. lock' \in [Uploads -> Requests \cup {None}] /\ LocksOf(r)
    BY <1>1, LockFacts DEF IInv, Typed, Leave
  <2>5. WellMoved(r, w)
    BY <1>1, <2>3, <2>4 DEF WellMoved, Fits, Uploading, Storing, Removing, HoldsRow, At
  <2>6. rows' = rows
    BY <1>3 DEF CancelWrite
  <2>7. RowsTyped' /\ OthersKept(u)
    BY <2>6 DEF rows, RowsTyped, OthersKept, IInv, Typed, TypeOK, FileRows
  <2>8. file'[u] = file[u] /\ status' = status
    BY <2>6 DEF rows
  <2>9. OneStores'
    BY <2>2, <2>8 DEF OneStores
  <2> QED BY <1>1, <2>2, <2>3, <2>5, <2>7, <2>8, <2>9, RowWritten DEF At
<1> QED BY <1>2, <1>3

LEMMA ExpireWriteKeeps == ASSUME IInv, NEW r \in Requests, ExpireWrite(r) PROVE IInv'
<1> DEFINE u == request[r].upload
<1>1. /\ At(r, "removed") /\ request[r].op = "expire" /\ u \in Uploads /\ status[u] # "absent"
      /\ Leave(r, "done") /\ CanWrite(r, u) /\ overdue' = overdue /\ objects' = objects
      /\ completedAt' = WithoutCompletion(r) /\ file' = WithoutFile(u, request[r].path)
  BY NoneAssumption DEF ExpireWrite, At, IInv, Typed, Requested, Begun, Fits, Removing
<1>2. /\ status' \in [Uploads -> UploadStatuses \cup {"absent"}] /\ status'[u] = "expired"
      /\ \A v \in Uploads \ {u} : status'[v] = status[v]
  BY <1>1 DEF ExpireWrite, IInv, Typed, TypeOK, UploadStatuses, TerminalUploadStatuses
<1>3. cancelledAt' \in [Uploads -> BOOLEAN] /\ \A v \in Uploads \ {u} : cancelledAt'[v] = cancelledAt[v]
  BY DEF ExpireWrite, IInv, Typed, TypeOK
<1> QED BY <1>1, <1>2, <1>3, RemovalWritten

LEMMA DeleteWriteKeeps == ASSUME IInv, NEW r \in Requests, DeleteWrite(r) PROVE IInv'
<1> DEFINE u == request[r].upload
<1>1. /\ At(r, "removed") /\ request[r].op = "delete" /\ u \in Uploads /\ status[u] # "absent"
      /\ Leave(r, "done") /\ CanWrite(r, u) /\ overdue' = overdue /\ objects' = objects
      /\ completedAt' = WithoutCompletion(r) /\ file' = WithoutFile(u, request[r].path)
  BY NoneAssumption DEF DeleteWrite, At, IInv, Typed, Requested, Begun, Fits, Removing
<1>2. /\ status' \in [Uploads -> UploadStatuses \cup {"absent"}]
      /\ status'[u] = "failed" \/ status'[u] = status[u]
      /\ \A v \in Uploads \ {u} : status'[v] = status[v]
  BY <1>1 DEF DeleteWrite, IInv, Typed, TypeOK, UploadStatuses
<1>3. cancelledAt' \in [Uploads -> BOOLEAN] /\ \A v \in Uploads \ {u} : cancelledAt'[v] = cancelledAt[v]
  BY DEF DeleteWrite, IInv, Typed, TypeOK
<1> QED BY <1>1, <1>2, <1>3, RemovalWritten

LEMMA BecomeOverdueKeeps == ASSUME IInv, NEW u \in Uploads, BecomeOverdue(u) PROVE IInv'
<1>1. /\ request' = request /\ lock' = lock /\ objects' = objects /\ status' = status
      /\ file' = file /\ completedAt' = completedAt /\ cancelledAt' = cancelledAt
      /\ overdue' \in [Uploads -> BOOLEAN]
  BY DEF BecomeOverdue, rows, IInv, Typed, TypeOK
<1> QED BY <1>1 DEF IInv, Typed, TypeOK, Requested, Begun, PathsAreFresh, RowsAreLocked, RowsAreAsRead,
                    Remembers, NoOrphanObjects, EndedUploadsHoldNoFile, CompletedUploadsAreStored,
                    FilesHaveObjects, Removed, At, OneStores

-----------------------------------------------------------------------------
LEMMA InitEstablishes == Init => IInv
<1> SUFFICES ASSUME Init
             PROVE  IInv
  OBVIOUS
<1>1. \A r \in Requests : request[r] = Idle
  BY DEF Init
<1>2. request \in [Requests -> RequestType]
  BY IdleType DEF Init
<1>3. TypeOK
  BY <1>2 DEF Init, TypeOK, RequestType, Ops, Steps
<1>4. Fits(Idle) /\ ~HoldsRow(Idle) /\ ~Removing(Idle)
  BY IdleType DEF Fits, HoldsRow, Uploading, Storing, Removing
<1>9. ~Owns(Idle) /\ Idle.pc \notin {"flush", "validate", "provide", "commit", "completing"}
  BY IdleType DEF Owns, Reloads
<1>5. Typed
  BY <1>1, <1>3, <1>4, IdleType DEF Typed, Requested, Begun, Init
<1>6. PathsAreFresh /\ NoOrphanObjects
  BY <1>1, IdleType DEF PathsAreFresh, NoOrphanObjects, Init, At
<1>7. RowsAreLocked /\ RowsAreAsRead /\ OneStores
  BY <1>1, <1>4, <1>9, IdleType DEF RowsAreLocked, RowsAreAsRead, Remembers, OneStores, Reloads, Owns
<1>8. EndedUploadsHoldNoFile /\ CompletedUploadsAreStored /\ FilesHaveObjects
  BY DEF EndedUploadsHoldNoFile, CompletedUploadsAreStored, FilesHaveObjects, Init
<1> QED BY <1>5, <1>6, <1>7, <1>8 DEF IInv

LEMMA NextPreserves == IInv /\ [Next]_vars => IInv'
<1> SUFFICES ASSUME IInv, [Next]_vars
             PROVE  IInv'
  OBVIOUS
<1>1. ASSUME NEW r \in Requests, Advance(r)
      PROVE  IInv'
  BY <1>1, StoreFlushKeeps, StoreValidateKeeps, ProviderStoreKeeps, StoreCommitKeeps, StoreReloadKeeps,
     StoreUndoKeeps,
     MarkFailedReadKeeps, MarkFailedWriteKeeps, CompleteReadKeeps, CompleteWriteKeeps,
     ExpireReadKeeps, RemoveObjectKeeps, CancelWriteKeeps, ExpireWriteKeeps, DeleteWriteKeeps
     DEF Advance
<1>2. ASSUME NEW r \in Requests, NEW u \in Uploads,
             \/ CreateUploadSession(r, u) \/ CancelRead(r, u) \/ DeleteRead(r, u)
             \/ \E c \in Contents : StoreRead(r, u, c)
      PROVE  IInv'
  BY <1>2, CreateUploadSessionKeeps, CancelReadKeeps, DeleteReadKeeps, StoreReadKeeps
<1>3. CASE UNCHANGED vars
  <2>1. /\ request' = request /\ lock' = lock /\ objects' = objects /\ status' = status
        /\ file' = file /\ completedAt' = completedAt /\ cancelledAt' = cancelledAt
        /\ overdue' = overdue
    BY <1>3 DEF vars, rows
  <2> QED BY <2>1 DEF IInv, Typed, TypeOK, Requested, Begun, PathsAreFresh, RowsAreLocked,
                      RowsAreAsRead, Remembers, NoOrphanObjects, EndedUploadsHoldNoFile,
                      CompletedUploadsAreStored, FilesHaveObjects, Removed, At, OneStores
<1> QED BY <1>1, <1>2, <1>3, CrashKeeps, BecomeOverdueKeeps DEF Next

LEMMA Invariance == Spec => []IInv
BY InitEstablishes, NextPreserves, PTL DEF Spec

(* Whatever the database locks and whatever crashes, the provider holds no   *)
(* object without a row, or a request that is about to commit its row or to  *)
(* delete it, or that died before it could (store_file and                   *)
(* _remove_stored_file, storage_service.py).                                 *)
THEOREM ObjectsAreNotOrphaned == Spec => []NoOrphanObjects
<1>1. IInv => NoOrphanObjects
  BY DEF IInv
<1> QED BY <1>1, Invariance, PTL

(* Where FOR UPDATE locks, every file row has its object or a request that   *)
(* deleted it: a removal that has yet to commit or died first, or an upload  *)
(* whose get_file failed after its commit (store_file, storage_service.py).  *)
THEOREM FilesAreStored ==
    ASSUME RowLocks
    PROVE  Spec => []FilesHaveObjects
<1>1. IInv => FilesHaveObjects
  BY DEF IInv
<1> QED BY <1>1, Invariance, PTL

(* Where FOR UPDATE locks, a session shows what it holds: a cancelled or     *)
(* expired one no file, a completed one its file and object, unless its own  *)
(* metadata was deleted or its removal died half way.                        *)
THEOREM SessionsAreConsistent ==
    ASSUME RowLocks
    PROVE  Spec => []SessionsConsistent
<1>1. IInv => SessionsConsistent
  BY DEF IInv, Typed, SessionsConsistent
<1> QED BY <1>1, Invariance, PTL
=============================================================================
