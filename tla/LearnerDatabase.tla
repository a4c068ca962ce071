--------------------------- MODULE LearnerDatabase ---------------------------
(* What a query sees that a call sends after it has begun to write            *)
(* (database.py: the dialect is that of the configured URL, the isolation     *)
(* level the server's own).  SQLite begins a transaction with its first write *)
(* and locks the whole database for it: the query sees the rows as they are.  *)
(* MySQL, at REPEATABLE READ, answers it from the snapshot taken by the       *)
(* call's first read, with the call's own writes added.                       *)
CONSTANT Databases    \* the dialects the program may be configured with

ASSUME DatabasesAssumption == Databases \subseteq {"sqlite", "mysql"}

VARIABLE database     \* the one it is; nothing changes it

Seen(now, snapshot) == IF database = "sqlite" THEN now ELSE snapshot
=============================================================================
