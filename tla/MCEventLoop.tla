---------------------------- MODULE MCEventLoop ----------------------------
(* Two events and a signal: each event around the other, and both on the   *)
(* same signal.                                                            *)
EXTENDS EventLoop
=============================================================================
