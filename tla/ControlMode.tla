---------------------------- MODULE ControlMode ----------------------------
(***************************************************************************)
(* A control mode client: control.rs, the write side of its bufferevent    *)
(* (bufev.rs), the buffers of the panes it watches with their offsets      *)
(* (window.rs, server_client_check_pane_buffer) and how it is made to      *)
(* exit.                                                                   *)
(*                                                                         *)
(* Callbacks of the event loop and commands are actions; the write         *)
(* callback is a sequence of steps that nothing else interrupts, one for   *)
(* each thing it sends.  Bytes of a pane are numbered from 1 as they       *)
(* arrive and lines as they are written; a length is a number of bytes,    *)
(* and a line counts as one.                                               *)
(***************************************************************************)
EXTENDS Integers, FiniteSets, Sequences, SequencesExt, Filters

CONSTANTS
    Panes,
    Modes,         \* what may happen to the client: see Next
    OtherClient,   \* an ordinary client is attached too
    Shared,        \* -CC: one bufferevent reads and writes
    Low, High,     \* CONTROL_BUFFER_LOW and CONTROL_BUFFER_HIGH
    Minimum,       \* CONTROL_WRITE_MINIMUM
    Beyond,        \* the faults after which the model goes on
    MaxBytes,      \* bound on the bytes of each pane
    MaxLines,      \* bound on the lines written from outside
    MaxCommands    \* bound on what the user does and on the passing of time

ASSUME ControlAssumption ==
    /\ Low \in Nat /\ High \in Nat /\ Minimum \in Nat \ {0} /\ Low < High
    /\ OtherClient \in BOOLEAN /\ Shared \in BOOLEAN
    /\ MaxBytes \in [Panes -> Nat] /\ MaxLines \in Nat /\ MaxCommands \in Nat

Line == "line"
ASSUME PanesAssumption == Line \notin Panes

VARIABLES
    pane,          \* per pane: base and len of its input buffer, offset, reading,
                   \* fd (it has a process) and linked (into the client's session)
    cp,            \* per pane: its control_pane
    all_blocks,    \* lines and blocks of output, oldest first
    pending_list,  \* panes with output to send
    ev,            \* the write_event: length of output, enabled, armed
    flags,         \* of the client
    w,             \* the write callback: where it is and its locals
    lines,         \* lines written so far
    commands,      \* commands and times passed so far
    sent,          \* what the last step added to the output
    faults         \* history: what the properties except, see where it is added
vars == <<pane, cp, all_blocks, pending_list, ev, flags, w, lines, commands, sent, faults>>

NoPane == [exists |-> FALSE, offset |-> 0, queued |-> 0, off |-> FALSE,
           paused |-> FALSE, pending |-> FALSE]
NoWriter == [pc |-> "idle", ret |-> "idle", walk |-> <<>>, limit |-> 0, used |-> 0, msg |-> <<>>]

Least(S) == CHOOSE x \in S : \A y \in S : x <= y
Smaller(a, b) == IF a < b THEN a ELSE b
Total(p) == pane[p].base + pane[p].len
BlockOf(b, P) == b.of \in P /\ ~b.orphan
Mine(p) == {i \in DOMAIN all_blocks : BlockOf(all_blocks[i], {p})}
Discarded(all, P) == Only(all, {b \in ToSet(all) : ~BlockOf(b, P)})
Fault(yes, f) == IF yes THEN {f} ELSE {}

Usable == faults \subseteq Beyond
Idle == w.pc = "idle" /\ Usable

\* Mutant: nothing to write, so the event is not armed (what libevent does, and
\* what its callers here do not expect).
Enabled_IfQueued(e) == [e EXCEPT !.enabled = TRUE, !.armed = @ \/ e.out > 0]

\* bufferevent_enable(EV_WRITE) arms the event whatever is queued.
Enabled(e) == [e EXCEPT !.enabled = TRUE, !.armed = TRUE]

\* bufferevent_write of n bytes.
Written(e, n) == [e EXCEPT !.out = @ + n, !.armed = @ \/ (e.enabled /\ e.out + n > 0)]

\* Mutant: a line is always written at once.
control_write_AtOnce(all) ==
    LET n == lines + 1
    IN /\ lines' = n
       /\ all_blocks' = all
       /\ sent' = <<<<Line, n>>>>
       /\ ev' = Enabled(Written(ev, 1))

\* The line n of control_write after all the blocks in all: at once if there
\* is no block, or else after them.
control_write(all) ==
    LET n == lines + 1
        b == [of |-> Line, size |-> 0, from |-> n, old |-> FALSE, orphan |-> FALSE]
    IN /\ lines' = n
       /\ all_blocks' = IF all = <<>> THEN <<>> ELSE Append(all, b)
       /\ sent' = IF all = <<>> THEN <<<<Line, n>>>> ELSE <<>>
       /\ ev' = Enabled(IF all = <<>> THEN Written(ev, 1) ELSE ev)

Quiet == sent' = <<>> /\ UNCHANGED lines

Command == Idle /\ commands < MaxCommands /\ commands' = commands + 1

-----------------------------------------------------------------------------
(* Output of the panes. *)

\* What was queued for p is forgotten: from now on output that is new.
AtEnd(c, p) == [c EXCEPT !.offset = pane[p].offset, !.queued = pane[p].offset]

control_add_pane(p) == IF cp[p].exists THEN cp[p] ELSE AtEnd([NoPane EXCEPT !.exists = TRUE], p)

\* CONTROL_IGNORE_FLAGS
Ignores == flags \cap {"NOOUTPUT", "EXIT"} # {}

\* The oldest block of p is older than the client allows.
TooOld(p) == Mine(p) # {} /\ all_blocks[Least(Mine(p))].old

\* control_check_age of such a block: the pane is paused, or a client that does
\* not pause is too far behind and has to exit (control_discard).
control_check_age(p) ==
    IF "PAUSEAFTER" \in flags
    THEN /\ cp' = [cp EXCEPT ![p].paused = TRUE]
         /\ control_write(Discarded(all_blocks, {p}))
         /\ UNCHANGED flags
    ELSE /\ flags' = flags \cup {"EXIT"}
         /\ all_blocks' = Discarded(all_blocks, Panes)
         /\ Quiet
         /\ UNCHANGED <<cp, ev>>

\* The client has nothing to do with the output of p.
NotOffered(p) ==
    /\ ~pane[p].linked \/ (Ignores /\ ~cp[p].exists)
    /\ Quiet
    /\ UNCHANGED <<cp, all_blocks, pending_list, ev, flags, faults>>

\* The output of p up to total is skipped; fault: blocks still refer to it.
Skipped(p, total) ==
    LET c == control_add_pane(p)
    IN /\ pane[p].linked
       /\ IF Ignores THEN cp[p].exists ELSE c.off \/ c.paused
       /\ cp' = [cp EXCEPT ![p] = [c EXCEPT !.offset = total, !.queued = total]]
       /\ faults' = faults \cup Fault(Mine(p) # {}, "skipped")
       /\ Quiet
       /\ UNCHANGED <<all_blocks, pending_list, ev, flags>>

\* fault: the offset was left behind when blocks were given up.
Queued(p, total) ==
    LET c == control_add_pane(p)
        block == [of |-> p, size |-> total - c.queued, from |-> c.queued + 1,
                  old |-> FALSE, orphan |-> FALSE]
    IN /\ pane[p].linked /\ ~Ignores /\ ~c.off /\ ~c.paused
       /\ IF TooOld(p) THEN control_check_age(p) /\ UNCHANGED <<pending_list, faults>>
          ELSE /\ cp' = [cp EXCEPT ![p] = [c EXCEPT !.queued = total, !.pending = TRUE]]
               /\ all_blocks' = Append(all_blocks, block)
               /\ pending_list' = IF c.pending THEN pending_list ELSE Append(pending_list, p)
               /\ ev' = Enabled(ev)
               /\ faults' = faults \cup Fault(Mine(p) = {} /\ c.offset # c.queued, "relinked")
               /\ Quiet
               /\ UNCHANGED flags

\* k bytes are read from p, offered to the client and parsed.
window_pane_read_callback(p, k) ==
    /\ Idle /\ pane[p].reading /\ pane[p].fd /\ Total(p) + k <= MaxBytes[p]
    /\ pane' = [pane EXCEPT ![p].len = @ + k, ![p].offset = Total(p) + k, ![p].reading = FALSE]
    /\ NotOffered(p) \/ Skipped(p, Total(p) + k) \/ Queued(p, Total(p) + k)
    /\ UNCHANGED <<w, commands>>

-----------------------------------------------------------------------------
(* Commands, notifications and what the user does. *)

\* control_notify_* and what commands print.
Notify ==
    /\ Idle /\ lines < MaxLines
    /\ control_write(all_blocks)
    /\ UNCHANGED <<pane, cp, pending_list, flags, w, faults, commands>>

\* fault: output of a pane that is turned off waits in blocks and may be
\* dropped from the buffer before it is sent.
control_set_pane_off(p) ==
    /\ Command /\ "off" \in Modes /\ ~cp[p].off
    /\ cp' = [cp EXCEPT ![p] = [control_add_pane(p) EXCEPT !.off = TRUE]]
    /\ faults' = faults \cup Fault(Mine(p) # {}, "off")
    /\ Quiet
    /\ UNCHANGED <<pane, all_blocks, pending_list, ev, flags, w>>

control_set_pane_on(p) ==
    /\ Idle /\ cp[p].off
    /\ cp' = [cp EXCEPT ![p] = [AtEnd(@, p) EXCEPT !.off = FALSE]]
    /\ faults' = faults \cup Fault(Mine(p) # {}, "skipped")
    /\ Quiet
    /\ UNCHANGED <<pane, all_blocks, pending_list, ev, flags, w, commands>>

control_continue_pane(p) ==
    /\ Idle /\ cp[p].paused
    /\ cp' = [cp EXCEPT ![p] = [AtEnd(@, p) EXCEPT !.paused = FALSE]]
    /\ control_write(all_blocks)
    /\ UNCHANGED <<pane, pending_list, flags, w, faults, commands>>

control_pause_pane(p) ==
    /\ Command /\ ~cp[p].paused
    /\ cp' = [cp EXCEPT ![p] = [control_add_pane(p) EXCEPT !.paused = TRUE]]
    /\ control_write(Discarded(all_blocks, {p}))
    /\ UNCHANGED <<pane, pending_list, flags, w, faults>>

\* refresh-client -f; a flag is set or cleared.  no-output forgets all panes
\* (control_reset_offsets), but not their blocks.
server_client_set_flags(f) ==
    /\ Command /\ f \in Modes
    /\ flags' = IF f \in flags THEN flags \ {f} ELSE flags \cup {f}
    /\ IF f = "NOOUTPUT"
       THEN /\ cp' = [p \in Panes |-> NoPane]
            /\ pending_list' = <<>>
            /\ all_blocks' = [i \in DOMAIN all_blocks |->
                                [all_blocks[i] EXCEPT !.orphan = all_blocks[i].of # Line]]
            /\ faults' = faults \cup Fault(\E i \in DOMAIN all_blocks : all_blocks[i].of # Line, "orphan")
       ELSE UNCHANGED <<cp, pending_list, all_blocks, faults>>
    /\ Quiet
    /\ UNCHANGED <<pane, ev, w>>

\* The window of p is linked into the session of the client, or no longer.
LinkWindow(p) ==
    /\ Command /\ "link" \in Modes
    /\ pane' = [pane EXCEPT ![p].linked = ~@]
    /\ Quiet
    /\ UNCHANGED <<cp, all_blocks, pending_list, ev, flags, w, faults>>

\* The process of p ends and its bufferevent is freed (server_destroy_pane with
\* remain-on-exit); or it is started anew with an empty buffer, but the old
\* base_offset and offset (spawn_pane).  fault: the offset is not in the buffer.
PaneDies(p) ==
    /\ Command /\ "respawn" \in Modes /\ pane[p].fd
    /\ pane' = [pane EXCEPT ![p].fd = FALSE, ![p].len = 0]
    /\ Quiet
    /\ UNCHANGED <<cp, all_blocks, pending_list, ev, flags, w, faults>>

PaneRespawns(p) ==
    /\ Idle /\ ~pane[p].fd
    /\ pane' = [pane EXCEPT ![p].fd = TRUE, ![p].reading = TRUE]
    /\ faults' = faults \cup Fault(pane[p].offset # pane[p].base, "respawned")
    /\ Quiet
    /\ UNCHANGED <<cp, all_blocks, pending_list, ev, flags, w, commands>>

\* detach-client, an empty line, or the end of the client's input.  report_error
\* stops both directions.  fault: output waits, and is not written any more.
ClientExits(error) ==
    /\ Command /\ "EXIT" \notin flags
    /\ flags' = flags \cup {"EXIT"}
    /\ ev' = [ev EXCEPT !.armed = @ /\ ~(error /\ Shared)]
    /\ faults' = faults \cup Fault(error /\ Shared /\ ev.armed, "end of file")
    /\ Quiet
    /\ UNCHANGED <<pane, cp, all_blocks, pending_list, w>>

TimePasses ==
    /\ Command /\ \E i \in DOMAIN all_blocks : ~all_blocks[i].old
    /\ all_blocks' = [i \in DOMAIN all_blocks |-> [all_blocks[i] EXCEPT !.old = TRUE]]
    /\ Quiet
    /\ UNCHANGED <<pane, cp, pending_list, ev, flags, w, faults>>

-----------------------------------------------------------------------------
(* The write callback. *)

At(pc) == w.pc = pc /\ Usable

\* The client takes n bytes.  The callback is called when few are left.
write_ready(n) ==
    /\ Idle /\ ev.armed /\ n <= ev.out /\ (ev.out > 0 => n > 0)
    /\ ev' = [ev EXCEPT !.out = @ - n, !.armed = ev.out # n]
    /\ w' = IF ev.out - n <= Low THEN [NoWriter EXCEPT !.pc = "flush", !.ret = "loop"] ELSE w
    /\ Quiet
    /\ UNCHANGED <<pane, cp, all_blocks, pending_list, flags, faults, commands>>

\* fault: what is in the output will never be taken, and EXIT waits for it.
write_error ==
    /\ Idle /\ ev.armed /\ ev.out > 0
    /\ ev' = [ev EXCEPT !.armed = FALSE]
    /\ flags' = flags \cup {"EXIT"}
    /\ faults' = faults \cup {"write error"}
    /\ Quiet
    /\ UNCHANGED <<pane, cp, all_blocks, pending_list, w, commands>>

control_flush_all_blocks ==
    /\ At("flush")
    /\ IF all_blocks # <<>> /\ Head(all_blocks).of = Line
       THEN /\ all_blocks' = Tail(all_blocks)
            /\ ev' = Written(ev, 1)
            /\ sent' = <<<<Line, Head(all_blocks).from>>>>
            /\ UNCHANGED <<lines, w>>
       ELSE /\ w' = [w EXCEPT !.pc = w.ret]
            /\ Quiet
            /\ UNCHANGED <<all_blocks, ev>>
    /\ UNCHANGED <<pane, cp, pending_list, flags, faults, commands>>

\* One round over the panes with output, or the end.  fault: lines are left
\* and nothing will call the callback again.
control_write_callback ==
    /\ At("loop")
    /\ IF ev.out < High /\ pending_list # <<>>
       THEN LET share == ((High - ev.out) \div Len(pending_list)) \div 3
            IN /\ w' = [w EXCEPT !.pc = "walk", !.walk = pending_list,
                                 !.limit = IF share < Minimum THEN Minimum ELSE share]
               /\ UNCHANGED <<ev, faults>>
       ELSE /\ w' = NoWriter
            /\ ev' = IF ev.out = 0 THEN [ev EXCEPT !.enabled = FALSE, !.armed = FALSE]
                     ELSE [ev EXCEPT !.armed = @ \/ ev.enabled]
            /\ faults' = faults \cup Fault(ev.out = 0 /\ all_blocks # <<>>, "left")
    /\ Quiet
    /\ UNCHANGED <<pane, cp, all_blocks, pending_list, flags, commands>>

NextPane ==
    /\ At("walk")
    /\ w' = IF w.walk = <<>> \/ ev.out >= High THEN [w EXCEPT !.pc = "loop"]
            ELSE [w EXCEPT !.pc = "pane", !.used = 0]
    /\ Quiet
    /\ UNCHANGED <<pane, cp, all_blocks, pending_list, ev, flags, faults, commands>>

\* control_write_pending for the first pane of w.walk, in pieces.
Gone(p) == ~pane[p].linked \/ ~pane[p].fd
More(p) == w.used # w.limit /\ Mine(p) # {}

PaneGone ==
    /\ At("pane") /\ Gone(Head(w.walk))
    /\ all_blocks' = Discarded(all_blocks, {Head(w.walk)})
    /\ w' = [w EXCEPT !.pc = "flush", !.ret = "done"]
    /\ Quiet
    /\ UNCHANGED <<pane, cp, pending_list, ev, flags, faults, commands>>

PaneTooOld ==
    LET p == Head(w.walk)
    IN /\ At("pane") /\ ~Gone(p) /\ More(p) /\ TooOld(p)
       /\ control_check_age(p)
       /\ w' = [w EXCEPT !.pc = "done", !.msg = <<>>]
       /\ UNCHANGED <<pane, pending_list, faults, commands>>

\* Bytes of the oldest block are added to the message; they come from offset,
\* whatever the block was made for.  faults: they are no longer in the buffer,
\* or there are fewer than the block says (fatalx "not enough data").
control_append_data ==
    LET p == Head(w.walk)
        i == Least(Mine(p))
        cb == all_blocks[i]
        size == Smaller(cb.size, w.limit - w.used)
        first == cp[p].offset + 1
        rest == IF size = cb.size THEN RemoveAt(all_blocks, i)
                ELSE [all_blocks EXCEPT ![i] = [cb EXCEPT !.size = @ - size, !.from = @ + size]]
        lineNow == size = cb.size /\ rest # <<>> /\ Head(rest).of = Line
    IN /\ At("pane") /\ ~Gone(p) /\ More(p) /\ ~TooOld(p)
       /\ all_blocks' = rest
       /\ cp' = [cp EXCEPT ![p].offset = @ + size]
       /\ w' = [w EXCEPT !.used = @ + size,
                         !.msg = @ \o [k \in 1 .. size |-> <<p, first + k - 1>>],
                         !.pc = IF lineNow THEN "write" ELSE "pane",
                         !.ret = "pane"]
       /\ faults' = faults \cup Fault(first <= pane[p].base, "gone")
                          \cup Fault(first + size - 1 > Total(p), "fatal")
       /\ Quiet
       /\ UNCHANGED <<pane, pending_list, ev, flags, commands>>

\* The message is written, before lines it held up or at the end.
control_write_data ==
    /\ \/ At("write") /\ w' = [w EXCEPT !.pc = "flush", !.msg = <<>>]
       \/ /\ At("pane") /\ ~Gone(Head(w.walk)) /\ ~More(Head(w.walk))
          /\ w' = [w EXCEPT !.pc = "done", !.msg = <<>>]
    /\ ev' = Written(ev, Len(w.msg))
    /\ sent' = w.msg
    /\ UNCHANGED <<pane, cp, all_blocks, pending_list, flags, lines, faults, commands>>

PaneDone ==
    LET p == Head(w.walk)
        empty == Mine(p) = {}
    IN /\ At("done")
       /\ pending_list' = IF empty THEN Only(pending_list, Panes \ {p}) ELSE pending_list
       /\ cp' = [cp EXCEPT ![p].pending = @ /\ ~empty]
       /\ w' = [w EXCEPT !.pc = "walk", !.walk = Tail(@)]
       /\ Quiet
       /\ UNCHANGED <<pane, all_blocks, ev, flags, faults, commands>>

Writer ==
    \/ control_flush_all_blocks
    \/ control_write_callback
    \/ NextPane
    \/ PaneGone
    \/ PaneTooOld
    \/ control_append_data
    \/ control_write_data
    \/ PaneDone

-----------------------------------------------------------------------------
(* The end of a turn of the server's loop. *)

\* server_client_check_exit: the rest of the output is given up, and the client
\* exits once the lines are written.
AfterExit == IF "EXIT" \in flags THEN Discarded(all_blocks, Panes) ELSE all_blocks

\* control_pane_offset: whether the client holds the data of p back, and
\* whether it can take no more of it.
Holds(p) == "NOOUTPUT" \notin flags /\ cp[p].exists /\ ~cp[p].paused /\ ~cp[p].off
Stops(p) == IF Holds(p) THEN ev.out >= Low
            ELSE "NOOUTPUT" \notin flags /\ cp[p].exists /\ ~cp[p].paused

\* Mutant: what a client still needs is dropped.
server_client_check_pane_buffer_All(p) ==
    IF ~pane[p].fd THEN pane[p]
    ELSE [pane[p] EXCEPT !.base = pane[p].offset, !.len = @ - (pane[p].offset - pane[p].base),
                         !.reading = OtherClient \/ ~Stops(p)]

\* The part of the buffer of p that nobody needs any more is dropped.
server_client_check_pane_buffer(p) ==
    LET minimum == IF Holds(p) THEN Smaller(pane[p].offset, cp[p].offset) ELSE pane[p].offset
    IN IF ~pane[p].fd THEN pane[p]
       ELSE [pane[p] EXCEPT !.base = minimum, !.len = @ - (minimum - pane[p].base),
                            !.reading = OtherClient \/ ~Stops(p)]

server_client_loop ==
    /\ Idle /\ "EXITED" \notin flags
    /\ all_blocks' = AfterExit
    /\ flags' = flags \cup (IF "EXIT" \in flags /\ AfterExit = <<>> /\ ev.out = 0
                            THEN {"EXITED"} ELSE {})
    /\ pane' = [p \in Panes |-> server_client_check_pane_buffer(p)]
    /\ Quiet
    /\ UNCHANGED <<cp, pending_list, ev, w, faults, commands>>

-----------------------------------------------------------------------------
Init ==
    /\ pane = [p \in Panes |-> [base |-> 0, len |-> 0, offset |-> 0, reading |-> TRUE,
                                fd |-> TRUE, linked |-> TRUE]]
    /\ cp = [p \in Panes |-> NoPane]
    /\ all_blocks = <<>> /\ pending_list = <<>>
    /\ ev = [out |-> 0, enabled |-> FALSE, armed |-> FALSE]
    /\ flags \in {{}, {"PAUSEAFTER"}} /\ w = NoWriter /\ lines = 0 /\ commands = 0 /\ sent = <<>> /\ faults = {}

Next ==
    \/ \E p \in Panes, k \in 1 .. 2 : window_pane_read_callback(p, k)
    \/ Notify
    \/ \E p \in Panes :
        \/ control_set_pane_off(p)
        \/ control_set_pane_on(p)
        \/ control_continue_pane(p)
        \/ control_pause_pane(p)
        \/ LinkWindow(p)
        \/ PaneDies(p)
        \/ PaneRespawns(p)
    \/ \E f \in {"NOOUTPUT", "PAUSEAFTER"} : server_client_set_flags(f)
    \/ \E error \in BOOLEAN : ClientExits(error)
    \/ TimePasses
    \/ \E n \in 0 .. ev.out : write_ready(n)
    \/ write_error
    \/ Writer
    \/ server_client_loop

\* The client reads what is written to it, and the server's loop goes on.
Spec ==
    /\ Init /\ [][Next]_vars
    /\ WF_vars(Writer)
    /\ WF_vars(\E n \in 0 .. ev.out : write_ready(n))
    /\ WF_vars(server_client_loop)

-----------------------------------------------------------------------------
(* Properties. *)

TypeOK ==
    /\ \A p \in Panes :
        /\ pane[p].base \in Nat /\ pane[p].offset \in Nat /\ pane[p].len \in Nat
        /\ cp[p].offset \in Nat /\ cp[p].queued \in Nat
    /\ pending_list \in Seq(Panes)
    /\ ev.out \in Nat
    /\ flags \subseteq {"NOOUTPUT", "PAUSEAFTER", "EXIT", "EXITED"}

Bytes(b) == b.from .. b.from + b.size - 1

\* The pairs of entries of s, the first in front of the second.
Ahead(s) == {<<s[ij[1]], s[ij[2]]>> : ij \in {x \in (DOMAIN s) \X (DOMAIN s) : x[1] < x[2]}}

\* The blocks of a pane are exactly the bytes from its offset to what is queued,
\* in order, all of them still in the buffer of the pane, so that
\* control_append_data finds them; and a pane with blocks is pending, so that
\* they are sent.  A pane is in the list of pending panes once if it is marked
\* and not else: pending_count divides the space.
BlocksMatch ==
    /\ faults = {} =>
         \A p \in Panes : Mine(p) # {} =>
             /\ UNION {Bytes(all_blocks[i]) : i \in Mine(p)} = cp[p].offset + 1 .. cp[p].queued
             /\ \A i, j \in Mine(p) : i < j => all_blocks[i].from + all_blocks[i].size <= all_blocks[j].from
             /\ pane[p].base <= cp[p].offset
             /\ pane[p].fd => cp[p].queued <= Total(p)
             /\ p \in ToSet(pending_list) /\ cp[p].pending
    /\ IsInjective(pending_list)
    /\ ToSet(pending_list) = {p \in Panes : cp[p].pending}

\* What a block says is still there when it is sent: otherwise the server ends
\* with fatalx("not enough data") in control_append_data.
NeverShort == "fatal" \notin faults

\* What waits, as the promise to the client sees it: the bytes of the message
\* and what is in the blocks.  A line comes after what is in front of it and
\* after the message; the newest byte of a pane is the last one queued.
Items(b) == IF b.of = Line THEN {<<Line, b.from>>} ELSE {b.of} \X Bytes(b)
Waiting == ToSet(w.msg) \cup UNION {Items(b) : b \in ToSet(all_blocks)}
Lines == {b \in ToSet(all_blocks) : b.of = Line}
HeldUp ==
    (ToSet(w.msg) \X UNION {Items(b) : b \in Lines})
        \cup UNION {Items(bc[1]) \X Items(bc[2]) : bc \in {x \in Ahead(all_blocks) : x[2] \in Lines}}
Newest == [p \in Panes |-> IF cp[p].exists THEN cp[p].queued ELSE pane[p].offset]

Promise == INSTANCE ControlPromise WITH todo <- Waiting, front <- HeldUp, last <- Newest

\* Control mode (control.rs) implements ControlPromise: lines in order, none
\* before the output that was queued before it, and the bytes of each pane in
\* order and once, whatever is turned off, paused, discarded or respawned
\* meanwhile.
KeepsPromise == Promise!Spec

\* A client that is told to exit does (server_client_check_exit waits for
\* control_all_done), and a line that waits behind output is sent, or given up
\* with the client: the write callback comes back until all_blocks is empty.
LineWaits(n) == \E i \in DOMAIN all_blocks : all_blocks[i].of = Line /\ all_blocks[i].from = n
OutputEnds ==
    /\ "EXIT" \in flags ~> ("EXITED" \in flags \/ faults # {})
    /\ \A n \in 1 .. MaxLines : LineWaits(n) ~> (faults # {} \/ ~LineWaits(n))
=============================================================================
