----------------------------- MODULE MCResizing -----------------------------
(* Two sessions that share a window; clients are attached to either. One of *)
(* the clients may be a control client.                                     *)
EXTENDS Resizing, TLC
CONSTANTS c1, c2, w1, w2, s1, s2
MCClients == {c1, c2}
MCWindowsOf == (s1 :> {w1}) @@ (s2 :> {w1, w2})
MCStarting == (c1 :> {{}}) @@ (c2 :> {{}, {"CONTROL"}})
=============================================================================
