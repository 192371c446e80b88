------------------------------ MODULE PaneSize ------------------------------
(***************************************************************************)
(* The size of a pane and of its terminal (window.rs, server_client.rs).   *)
(* A resize of the pane is queued; the loop of the server passes it on to  *)
(* the terminal with TIOCSWINSZ, at most once while a timer runs.  The     *)
(* kernel tells the application (SIGWINCH) only when the size changes.     *)
(* One number stands for width and height.                                 *)
(***************************************************************************)
EXTENDS Integers, SequencesExt

CONSTANT Sizes
ASSUME SizesAssumption == Sizes \subseteq Nat \ {0}

VARIABLE pane  \* sx, the resize_queue, timer (resize_timer is pending), fd, the
               \* size tty of the terminal, and stale (history: the terminal is
               \* newer than what is queued)

NewPane(s) == [sx |-> s, queue |-> <<>>, timer |-> FALSE, fd |-> TRUE, tty |-> s, stale |-> FALSE]

window_pane_resize(wp, s) ==
    IF s = wp.sx THEN wp
    ELSE [wp EXCEPT !.sx = s, !.queue = Append(@, [osx |-> wp.sx, sx |-> s])]

\* Mutant: the loop over the queue has no break.
Left_Nothing(q) == <<>>

\* The size that is sent and what stays queued.  When the last size is the first
\* again, the last but one is sent and the last kept for the next time.
Sent(q) == IF Len(q) > 1 /\ Last(q).sx = q[1].osx THEN q[Len(q) - 1].sx ELSE Last(q).sx
Left(q) == IF Len(q) > 1 /\ Last(q).sx = q[1].osx THEN <<Last(q)>> ELSE <<>>

server_client_check_pane_resize(wp) ==
    IF ~wp.fd \/ wp.queue = <<>> \/ wp.timer THEN wp
    ELSE [wp EXCEPT !.tty = Sent(wp.queue), !.queue = Left(wp.queue), !.timer = TRUE, !.stale = FALSE]

\* The process ends and the pane stays (remain-on-exit); it is started anew on a
\* terminal of the size of the pane, but the queue stays (spawn_pane).
Died(wp) == [wp EXCEPT !.fd = FALSE]
Respawned(wp) == [wp EXCEPT !.fd = TRUE, !.tty = wp.sx, !.stale = wp.queue # <<>>]

server_client_resize_timer == pane.timer /\ pane' = [pane EXCEPT !.timer = FALSE]
PaneDies == pane.fd /\ pane' = Died(pane)
PaneRespawns == pane' = Respawned(pane)

\* The layout changes, or a turn of the loop, in which it may change too.
PaneResizes(s) == pane' = window_pane_resize(pane, s)
PaneLoop(s) == pane' = server_client_check_pane_resize(window_pane_resize(pane, s))

PaneInit == \E s \in Sizes : pane = NewPane(s)
PaneNext ==
    \/ server_client_resize_timer
    \/ PaneDies
    \/ PaneRespawns
    \/ \E s \in Sizes : PaneResizes(s) \/ PaneLoop(s)
PaneSpec == PaneInit /\ [][PaneNext]_pane

-----------------------------------------------------------------------------
(* Properties. *)

PaneTypeOK ==
    pane \in [sx : Sizes, queue : Seq([osx : Sizes, sx : Sizes]), timer : BOOLEAN,
              fd : BOOLEAN, tty : Sizes, stale : BOOLEAN]

\* The queue leads step by step from the size of the terminal to that of the
\* pane: what is sent last is always the size of the pane, whatever was left
\* out, and when nothing is queued the terminal has it already.
QueueLeads ==
    LET q == pane.queue
    IN /\ \A i \in 1 .. Len(q) : q[i].osx # q[i].sx
       /\ \A i \in 2 .. Len(q) : q[i].osx = q[i - 1].sx
       /\ q # <<>> => Last(q).sx = pane.sx
       /\ (q = <<>> /\ pane.fd) => pane.tty = pane.sx
       /\ (q # <<>> /\ pane.fd /\ ~pane.stale) => q[1].osx = pane.tty

\* "We must resize at least twice to force the application to redraw": what the
\* loop sends always changes the size of the terminal, so that the application
\* hears of it.
Redraws == [][(~pane.timer /\ pane'.timer /\ ~pane.stale) => pane'.tty # pane.tty]_pane
=============================================================================
