--------------------------- MODULE MCServerStart ---------------------------
(* Three clients that may start a server: one that does, one that waits    *)
(* for its lock and one that comes when the lock file has been removed.    *)
EXTENDS ServerStart
=============================================================================
