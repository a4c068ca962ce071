--------------------------- MODULE MCSecureUploads ---------------------------
(* Two upload sessions and two requests of one call each, any of which may   *)
(* die, with two contents and as many stored objects as requests.            *)
EXTENDS SecureUploads

MCUploads == {"u1", "u2"}
MCRequests == {"r1", "r2"}
MCContents == {"c1", "c2"}
MCPaths == {"p1", "p2"}
=============================================================================
