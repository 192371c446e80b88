----------------------------- MODULE MCCmdQueue -----------------------------
(* The small instances of CmdQueue: one client and four command lists for  *)
(* what happens inside a queue, two clients and two lists for what they    *)
(* share (references, the turns of server_loop).                           *)
EXTENDS CmdQueue
=============================================================================
