----------------------------- MODULE MCWaitFor -----------------------------
(* Three queues are the least that give a holder, a queued locker and a    *)
(* third party; two channels let one queue's items be on the wrong list.   *)
EXTENDS WaitFor, TLC

Symmetry == Permutations(Clients) \cup Permutations(Channels)
=============================================================================
