------------------------------ MODULE Resizing ------------------------------
(***************************************************************************)
(* How the sizes of clients become those of windows (resize.rs, the parts  *)
(* of server_client.rs and of commands that call it) and of the terminals  *)
(* of panes (PaneSize).                                                    *)
(*                                                                         *)
(* recalculate_sizes asks for a new size, which the loop of the server     *)
(* gives the window once an attached session shows it.  Whatever the size  *)
(* depends on can change at any time, and whoever changes it has to call   *)
(* recalculate_sizes.  Windows have one pane, which has their size, and    *)
(* stay linked where they are; the size of the status line and pixels are  *)
(* left out.                                                               *)
(***************************************************************************)
EXTENDS PaneSize, FiniteSets, FiniteSetsExt

CONSTANTS
    Clients,
    Sessions,
    Windows,
    Watched,      \* the window whose pane is followed
    WindowsOf,    \* per session: its windows
    Steered,      \* the windows whose options or size commands set
    Types,        \* values of window-size that are set
    Starting,     \* per client: the flags it may start with
    None,         \* no client or session
    DefaultSize,  \* the option default-size
    Doings,       \* what may happen, see Next
    MaxChanges    \* bound on what users and processes do

NoSize == 0
ASSUME ResizingAssumption ==
    /\ IsFiniteSet(Clients) /\ None \notin Clients \cup Sessions
    /\ Watched \in Windows /\ Steered \subseteq Windows
    /\ \A c \in Clients : Starting[c] \subseteq SUBSET {"CONTROL", "IGNORESIZE"}
    /\ \A s \in Sessions : WindowsOf[s] # {} /\ WindowsOf[s] \subseteq Windows
    /\ Types \subseteq {"largest", "smallest", "manual", "latest"}
    /\ DefaultSize \in Sizes /\ MaxChanges \in Nat

VARIABLES
    client,    \* per client: session, flags, tty (its size, as the server knows
               \* it), term (its size), cw (sizes it gave windows) and resized
               \* (it has sent MSG_RESIZE)
    win,       \* per window: sx, new and resize (WINDOW_RESIZE), the options type and
               \* aggressive, manual (manual_sx) and latest
    curw,      \* per session: its current window
    attached,  \* per session: the count of its clients
    missed,    \* history: what has changed since recalculate_sizes
    changes    \* number of changes so far
vars == <<pane, client, win, curw, attached, missed, changes>>

NoClient(s) == [session |-> None, flags |-> {}, tty |-> s, term |-> s,
                cw |-> [w \in Windows |-> NoSize], resized |-> FALSE]
Unattached == {"SUSPENDED", "EXIT"}  \* also CLIENT_NOSIZEFLAGS
IsControl(c) == "CONTROL" \in client[c].flags
Attached(cl, c) == cl[c].session # None /\ cl[c].flags \cap Unattached = {}

-----------------------------------------------------------------------------
(* resize.rs *)

ignore_client_size(cl, c) ==
    \/ ~Attached(cl, c)
    \/ /\ "IGNORESIZE" \in cl[c].flags
       /\ \E d \in Clients : Attached(cl, d) /\ "IGNORESIZE" \notin cl[d].flags
    \/ "CONTROL" \in cl[c].flags /\ cl[c].flags \cap {"SIZECHANGED", "WINDOWSIZECHANGED"} = {}

SizeFor(cl, c, w) == IF cl[c].cw[w] # NoSize THEN cl[c].cw[w] ELSE cl[c].tty

\* The size of the window w for the clients, or NoSize.  With several clients
\* only the latest counts for type latest; a size that a client gave the window
\* is a limit.
clients_calculate_size(cl, cur, w, type, aggressive, latest, manual) ==
    LET with == {c \in Clients : ~ignore_client_size(cl, c) /\ w \in WindowsOf[cl[c].session]}
        some == {c \in with : aggressive => cur[cl[c].session] = w}
        used == IF type = "latest" /\ Cardinality(with) > 1 THEN some \cap {latest} ELSE some
        sizes == {SizeFor(cl, c, w) : c \in used}
        limits == {cl[c].cw[w] : c \in {d \in some : "WINDOWSIZECHANGED" \in cl[d].flags}} \ {NoSize}
        best == CASE type = "manual" -> {manual}
                  [] type = "largest" /\ sizes # {} -> {Max(sizes)}
                  [] OTHER -> sizes
    IN IF best \cup limits = {} THEN NoSize ELSE Min(best \cup limits)

Calculated(cl, cur, w, wr) ==
    clients_calculate_size(cl, cur, w, wr.type, wr.aggressive, wr.latest, wr.manual)

default_window_size(w, type) ==
    LET s == clients_calculate_size(client, curw, w, type, FALSE, None, NoSize)
    IN IF s = NoSize THEN DefaultSize ELSE s

resize_window(wr, s) == [wr EXCEPT !.sx = s, !.new = NoSize, !.resize = FALSE]

\* Mutant: the size that was asked for before is not looked at.
recalculate_size_Ignores(cl, cur, w, wr, now) ==
    LET s == Calculated(cl, cur, w, wr)
    IN IF s = NoSize \/ (~now /\ s = wr.sx) THEN wr
       ELSE IF now \/ wr.type = "manual" THEN resize_window(wr, s)
       ELSE [wr EXCEPT !.new = s, !.resize = TRUE]

recalculate_size(cl, cur, w, wr, now) ==
    LET s == Calculated(cl, cur, w, wr)
        same == s = (IF wr.resize THEN wr.new ELSE wr.sx)
    IN IF s = NoSize \/ (~now /\ same) THEN wr
       ELSE IF now \/ wr.type = "manual" THEN resize_window(wr, s)
       ELSE [wr EXCEPT !.new = s, !.resize = TRUE]

\* Mutant: the pane takes its size, and nothing is queued.
PaneFollows_Unqueued == pane' = [pane EXCEPT !.sx = win'[Watched].sx]

\* The pane has the size of its window (layout_resize).
PaneFollows == pane' = window_pane_resize(pane, win'[Watched].sx)

\* recalculate_sizes after the clients have become cl, the windows ws and the
\* current windows cur.
recalculate_sizes_now(cl, ws, cur, now) ==
    /\ client' = cl /\ curw' = cur
    /\ win' = [w \in Windows |-> recalculate_size(cl, cur, w, ws[w], now)]
    /\ attached' = [s \in Sessions |-> Cardinality({c \in Clients : cl[c].session = s /\ Attached(cl, c)})]
    /\ missed' = {}
    /\ PaneFollows

recalculate_sizes(cl, ws, cur) == recalculate_sizes_now(cl, ws, cur, FALSE)

\* What changes without recalculate_sizes.
Missed(what, cl) ==
    /\ client' = cl
    /\ missed' = missed \cup {what}
    /\ UNCHANGED <<pane, win, curw, attached>>

-----------------------------------------------------------------------------
(* Clients. *)

Change(what) == what \in Doings /\ changes < MaxChanges /\ changes' = changes + 1

\* The window the client c shows has c as its latest client.
server_client_update_latest(cl, ws, c) ==
    LET w == curw[cl[c].session]
        wr == [ws[w] EXCEPT !.latest = c]
    IN IF cl[c].session = None \/ ws[w].latest = c THEN ws
       ELSE [ws EXCEPT ![w] = IF wr.type = "latest" THEN recalculate_size(cl, curw, w, wr, FALSE) ELSE wr]

\* latest is set after the sizes have been calculated.
server_client_set_session(cl, c, s) ==
    LET w == curw[s]
        new == [cl EXCEPT ![c].session = s]
    IN /\ client' = new
       /\ win' = [v \in Windows |-> LET wr == recalculate_size(new, curw, v, win[v], FALSE)
                                    IN IF v = w THEN [wr EXCEPT !.latest = c] ELSE wr]
       /\ attached' = [x \in Sessions |-> Cardinality({d \in Clients : new[d].session = x /\ Attached(new, d)})]
       /\ missed' = IF win[w].type = "latest" /\ win[w].latest # c THEN {"latest"} ELSE {}
       /\ PaneFollows
       /\ UNCHANGED curw

\* attach-session: the client answers MSG_READY with MSG_RESIZE.
cmd_attach_session(c, s, size, flags) ==
    /\ Change("attach") /\ client[c] = NoClient(DefaultSize)
    /\ "CONTROL" \in flags => size = DefaultSize
    /\ server_client_set_session(
           [client EXCEPT ![c] = [NoClient(size) EXCEPT !.flags = flags, !.resized = "CONTROL" \notin flags]], c, s)

\* The client's size counts no longer, or counts again.
ToggleIgnoreSize(c) ==
    [client EXCEPT ![c].flags = IF "IGNORESIZE" \in @ THEN @ \ {"IGNORESIZE"}
                                ELSE @ \cup {"IGNORESIZE"}]

\* With -r the client becomes read-only, or stops to be, and the command goes on.
cmd_switch_client(c, s, readonly) ==
    /\ Change("switch") /\ Attached(client, c) /\ (readonly \/ s # client[c].session)
    /\ server_client_set_session(IF readonly THEN ToggleIgnoreSize(c) ELSE client, c, s)

\* A key that is not the loss of the focus.
server_client_key_callback(c) ==
    /\ Change("key") /\ Attached(client, c) /\ ~IsControl(c)
    /\ win' = server_client_update_latest(client, win, c)
    /\ PaneFollows
    /\ UNCHANGED <<client, curw, attached, missed>>

TerminalResizes(c, size) ==
    /\ Change("terminal") /\ client[c].session # None /\ ~IsControl(c) /\ size # client[c].term
    /\ client' = [client EXCEPT ![c].term = size, ![c].resized = TRUE]
    /\ UNCHANGED <<pane, win, curw, attached, missed>>

\* MSG_RESIZE
server_client_dispatch_resize(c) ==
    LET cl == [client EXCEPT ![c].tty = client[c].term, ![c].resized = FALSE]
    IN /\ client[c].resized
       /\ recalculate_sizes(cl, server_client_update_latest(client, win, c), curw)
       /\ UNCHANGED changes

\* refresh-client -C of a control client: its size, or that of one window.
cmd_refresh_client_size(c, size) ==
    /\ Change("control") /\ IsControl(c) /\ client[c].session # None
    /\ recalculate_sizes_now([client EXCEPT ![c].tty = size, ![c].flags = @ \cup {"SIZECHANGED"}],
                             win, curw, TRUE)

cmd_refresh_client_window(c, w, size) ==
    /\ Change("control") /\ IsControl(c) /\ client[c].session # None
    /\ size = NoSize => client[c].cw[w] # NoSize
    /\ recalculate_sizes_now([client EXCEPT ![c].cw = [@ EXCEPT ![w] = size],
                                  ![c].flags = IF size = NoSize THEN @ ELSE @ \cup {"WINDOWSIZECHANGED"}],
                             win, curw, TRUE)

\* refresh-client -f ignore-size, and a switch-client -r that returns before it
\* sets the session: with -T, or when there is no session to switch to.
server_client_set_flags(c) ==
    /\ Change("flags") /\ Attached(client, c)
    /\ Missed("flags", ToggleIgnoreSize(c))

server_client_suspend(c) ==
    /\ Change("suspend") /\ Attached(client, c)
    /\ Missed("suspend", [client EXCEPT ![c].flags = @ \cup {"SUSPENDED"}])

server_lock_client(c) ==
    /\ Change("suspend") /\ client[c].session # None /\ ~IsControl(c)
    /\ recalculate_sizes([client EXCEPT ![c].flags = @ \cup {"SUSPENDED"}], win, curw)

\* MSG_WAKEUP and MSG_UNLOCK
server_client_dispatch_wakeup(c) ==
    LET cl == [client EXCEPT ![c].flags = @ \ {"SUSPENDED"}]
    IN /\ "SUSPENDED" \in client[c].flags
       /\ IF client[c].session # None THEN recalculate_sizes(cl, win, curw)
          ELSE client' = cl /\ UNCHANGED <<pane, win, curw, attached, missed>>
       /\ UNCHANGED changes

server_client_detach(c) ==
    /\ Change("detach") /\ client[c].session # None /\ "EXIT" \notin client[c].flags
    /\ Missed("exit", [client EXCEPT ![c].flags = @ \cup {"EXIT"}])

\* MSG_EXITING, the client's answer to MSG_DETACH; a client that is stopped does
\* not answer.
server_client_dispatch_exiting(c) ==
    /\ client[c].session # None /\ "EXIT" \in client[c].flags /\ "SUSPENDED" \notin client[c].flags
    /\ recalculate_sizes([client EXCEPT ![c].session = None], win, curw)
    /\ UNCHANGED changes

\* The window w after c is gone, with the client d that showed it last.
server_client_attached_lost(cl, w, c, d) ==
    IF win[w].latest # c THEN win[w]
    ELSE LET wr == [win[w] EXCEPT !.latest = d]
         IN IF d # None /\ wr.type = "latest" THEN recalculate_size(cl, curw, w, wr, FALSE) ELSE wr

server_client_lost(c) ==
    LET cl == [client EXCEPT ![c] = NoClient(DefaultSize)]
        showing(w) == {d \in Clients : cl[d].session # None /\ curw[cl[d].session] = w}
    IN /\ IF client[c].session # None THEN Change("lost")
          ELSE "EXIT" \in client[c].flags /\ UNCHANGED changes
       /\ \E found \in [Windows -> Clients \cup {None}] :
            /\ \A w \in Windows : found[w] \in showing(w) \/ (found[w] = None /\ showing(w) = {})
            /\ recalculate_sizes(cl, [w \in Windows |-> server_client_attached_lost(cl, w, c, found[w])], curw)

-----------------------------------------------------------------------------
(* Windows and options. *)

\* c is None when no client runs the command.
cmd_select_window(c, s, w) ==
    /\ Change("select") /\ w \in WindowsOf[s] /\ w # curw[s] /\ (c # None => Attached(client, c))
    /\ recalculate_sizes(client, [win EXCEPT ![w].latest = IF c = None THEN @ ELSE c], [curw EXCEPT ![s] = w])

\* -x, or -A and -a, which take the size of the largest or smallest client.
cmd_resize_window(w, s) ==
    LET wr == [win[w] EXCEPT !.type = "manual", !.manual = s]
    IN /\ Change("manual")
       /\ win' = [win EXCEPT ![w] = recalculate_size(client, curw, w, wr, TRUE)]
       /\ PaneFollows
       /\ UNCHANGED <<client, curw, attached, missed>>

options_push_changes(w, type, aggressive) ==
    /\ Change("option") /\ <<type, aggressive>> # <<win[w].type, win[w].aggressive>>
    /\ recalculate_sizes(client, [win EXCEPT ![w].type = type, ![w].aggressive = aggressive], curw)

\* Mutant: every session of the window has to be attached.
server_client_check_window_resize_All(w) ==
    IF win[w].resize /\ \A s \in Sessions : w \in WindowsOf[s] => attached[s] # 0 /\ curw[s] = w
    THEN resize_window(win[w], win[w].new) ELSE win[w]

server_client_check_window_resize(w) ==
    IF win[w].resize /\ \E s \in Sessions : attached[s] # 0 /\ curw[s] = w
    THEN resize_window(win[w], win[w].new) ELSE win[w]

server_client_loop ==
    /\ win' = [w \in Windows |-> server_client_check_window_resize(w)]
    /\ pane' = server_client_check_pane_resize(window_pane_resize(pane, win'[Watched].sx))
    /\ UNCHANGED <<client, curw, attached, missed, changes>>

Timer == server_client_resize_timer /\ UNCHANGED <<client, win, curw, attached, missed, changes>>

ProcessEnds ==
    /\ Change("process") /\ PaneDies
    /\ UNCHANGED <<client, win, curw, attached, missed>>
ProcessStarts ==
    /\ Change("process") /\ PaneRespawns
    /\ UNCHANGED <<client, win, curw, attached, missed>>

-----------------------------------------------------------------------------
Init ==
    /\ pane = NewPane(DefaultSize)
    /\ client = [c \in Clients |-> NoClient(DefaultSize)]
    /\ win = [w \in Windows |-> [sx |-> DefaultSize, new |-> NoSize, resize |-> FALSE, type |-> "latest",
                                 aggressive |-> FALSE, manual |-> DefaultSize, latest |-> None]]
    /\ curw \in [Sessions -> Windows] /\ \A s \in Sessions : curw[s] = CHOOSE w \in WindowsOf[s] : TRUE
    /\ attached = [s \in Sessions |-> 0]
    /\ missed = {} /\ changes = 0

Next ==
    \/ \E c \in Clients :
        \/ \E s \in Sessions, size \in Sizes, flags \in Starting[c] :
                cmd_attach_session(c, s, size, flags)
        \/ \E s \in Sessions, readonly \in BOOLEAN : cmd_switch_client(c, s, readonly)
        \/ server_client_key_callback(c)
        \/ \E size \in Sizes : TerminalResizes(c, size)
        \/ server_client_dispatch_resize(c)
        \/ \E size \in Sizes : cmd_refresh_client_size(c, size)
        \/ \E w \in Windows, size \in Sizes \cup {NoSize} : cmd_refresh_client_window(c, w, size)
        \/ server_client_set_flags(c)
        \/ server_client_suspend(c)
        \/ server_lock_client(c)
        \/ server_client_dispatch_wakeup(c)
        \/ server_client_detach(c)
        \/ server_client_dispatch_exiting(c)
        \/ server_client_lost(c)
    \/ \E c \in Clients \cup {None}, s \in Sessions, w \in Windows : cmd_select_window(c, s, w)
    \/ \E w \in Steered :
        \/ \E s \in Sizes \cup {default_window_size(w, "largest"), default_window_size(w, "smallest")} :
                cmd_resize_window(w, s)
        \/ \E type \in Types, aggressive \in BOOLEAN : options_push_changes(w, type, aggressive)
    \/ server_client_loop
    \/ Timer
    \/ ProcessEnds
    \/ ProcessStarts

\* The loop of the server goes on and its timers fire.
Spec == Init /\ [][Next]_vars /\ WF_vars(server_client_loop) /\ WF_vars(Timer)

-----------------------------------------------------------------------------
(* Properties. *)

\* Every window has the size its clients call for now, or has been asked to take
\* it, and sessions know whether they are attached: whatever changed, and in
\* whatever order, recalculate_sizes has seen it, except what is in missed.
SizesFresh ==
    missed = {} =>
        /\ \A w \in Windows :
            LET s == Calculated(client, curw, w, win[w])
            IN s # NoSize => s = IF win[w].resize THEN win[w].new ELSE win[w].sx
        /\ \A s \in Sessions : (attached[s] # 0) = \E c \in Clients : client[c].session = s /\ Attached(client, c)

Shown(w) == \E c \in Clients : Attached(client, c) /\ curw[client[c].session] = w
ResizeHappens == \A w \in Windows : (win[w].resize /\ Shown(w)) ~> (~win[w].resize \/ ~Shown(w))
TerminalFits == pane.tty # pane.sx ~> (pane.tty = pane.sx \/ ~pane.fd)

\* A resize that waits for a window to be shown happens while it is, and the
\* terminal of a pane gets the size of the pane in the end, also when the size
\* goes back and forth while the timer runs.
SizesSettle == ResizeHappens /\ TerminalFits

\* Clients and windows drive the pane only in the ways PaneSize allows, so that
\* what is proved of it holds here.
PaneDriven == PaneSpec

\* The window w has not the size of its latest client, and nothing is on the way
\* that would change it.
NotLatest(w) ==
    LET c == win[w].latest
    IN /\ win[w].type = "latest" /\ ~win[w].resize /\ missed \subseteq {"latest"}
       /\ c # None /\ ~IsControl(c) /\ ~ignore_client_size(client, c)
       /\ curw[client[c].session] = w /\ \A d \in Clients : ~client[d].resized
       /\ win[w].sx # client[c].tty

\* window-size latest "uses the size of the client that had the most recent
\* activity" (tmux.1): a window gets the size of its latest client.
LatestSize == \A w \in Windows : NotLatest(w) ~> ~NotLatest(w)
=============================================================================
