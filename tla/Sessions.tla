------------------------------ MODULE Sessions ------------------------------
(***************************************************************************)
(* Sessions, the windows linked into them, session groups and the clients  *)
(* attached to them: session.rs, the winlinks of window.rs, the parts of   *)
(* server_fn.rs, spawn.rs, resize.rs and server_client.rs that change      *)
(* them, and the commands that call those.                                 *)
(*                                                                         *)
(* A command runs to its end before anything else does, so an action is a  *)
(* whole command; what is hard is what a long sequence of commands leaves  *)
(* behind.  The functions of the code are operators on the whole state q   *)
(* (Now is the current one) that give the state after the call.            *)
(*                                                                         *)
(* Sessions are numbers in the order of their names, the order in which    *)
(* the tree SESSIONS is walked.  A winlink is known by its session and its *)
(* index.  Options are read from e, an input of the command, since they    *)
(* may be set at any time; e.act is the order of activity times.           *)
(***************************************************************************)
EXTENDS Integers, FiniteSets, Sequences, SequencesExt

CONSTANTS NSessions,  \* sessions there may be at a time
          Windows,    \* windows there may be at a time
          Clients,    \* clients, numbered in the order of the list CLIENTS
          NoDetach,   \* clients with the flag no-detach-on-destroy
          Options,    \* the option values and activity orders considered
          BaseIndex,  \* the option base-index
          Beyond,     \* the faults after which the model goes on
          MaxIdx,     \* bound on the indices of windows, less with clients
          MaxLinks    \* bound on the winlinks of all sessions, less with clients: see Become

Least(S) == CHOOSE x \in S : \A y \in S : x <= y
Greatest(S) == CHOOSE x \in S : \A y \in S : x >= y
SessionIds == 1 .. NSessions
None == 0
NoIdx == -1
ACTIVE == "attached"
Empty == [i \in {} |-> None]
Bound == Greatest({NSessions, MaxIdx} \cup Clients) + 2

ASSUME SessionsAssumption == NSessions \in Nat \ {0} /\ MaxIdx \in Nat /\ BaseIndex \in 0 .. MaxIdx
ASSUME ClientsAssumption == Clients \subseteq Nat /\ NoDetach \subseteq Clients

VARIABLES
    sess,    \* per session: alive (in SESSIONS), links (index -> window), curw,
             \* lastw, visited (winlinks with WINLINK_VISITED), attached
    groups,  \* SESSION_GROUPS: members of the group named after a session
    refs,    \* references of each window, 0 when there is no such window
    client,  \* per client: session and flag
    faults   \* history: what the properties except, see where it is added
vars == <<sess, groups, refs, client, faults>>

NoSession == [alive |-> FALSE, links |-> Empty, curw |-> NoIdx, lastw |-> <<>>,
              visited |-> {}, attached |-> 0]

NoClient == [session |-> None, flag |-> "none"]

Now == [sess |-> sess, groups |-> groups, refs |-> refs, client |-> client,
        faults |-> faults, rebuilt |-> {}]

\* f applied to q and each element of seq in turn, as the loops of the code do.
RECURSIVE Each(_, _, _)
Each(f(_, _), q, seq) ==
    IF seq = <<>> THEN q ELSE Each(f, f(q, Head(seq)), Tail(seq))

Live(q) == {s \in SessionIds : q.sess[s].alive}
Sorted(S) == SelectSeq([i \in 1 .. Bound |-> i - 1], LAMBDA i : i \in S)
Count(links, w) == Cardinality({i \in DOMAIN links : links[i] = w})
Without(f, i) == [j \in DOMAIN f \ {i} |-> f[j]]
Has(q, s, w) == \E i \in DOMAIN q.sess[s].links : q.sess[s].links[i] = w

-----------------------------------------------------------------------------
(* Winlinks and the current window. *)

winlink_add(q, s, i, w) ==
    [q EXCEPT !.sess[s].links = (i :> w) @@ @, !.refs[w] = @ + 1]

\* Mutant: the reference to the window is kept.
winlink_remove_KeepRef(q, s, i) ==
    [q EXCEPT !.sess[s].links = Without(@, i), !.sess[s].visited = @ \ {i}]

winlink_remove(q, s, i) ==
    [q EXCEPT !.sess[s].links = Without(@, i),
              !.sess[s].visited = @ \ {i},
              !.refs[q.sess[s].links[i]] = @ - 1]

winlink_next_index(q, s, i) ==
    Least({j \in i .. (MaxIdx + 1) : j \notin DOMAIN q.sess[s].links})

winlink_stack_remove(q, s, i) ==
    IF i \notin q.sess[s].visited THEN q
    ELSE [q EXCEPT !.sess[s].lastw = SelectSeq(@, LAMBDA j : j # i),
                   !.sess[s].visited = @ \ {i}]

winlink_stack_push(q, s, i) ==
    IF i = NoIdx THEN q
    ELSE [winlink_stack_remove(q, s, i) EXCEPT
            !.sess[s].lastw = <<i>> \o @, !.sess[s].visited = @ \cup {i}]

Changes(q, s, i) == i \notin {NoIdx, q.sess[s].curw}

session_set_current(q, s, i) ==
    IF ~Changes(q, s, i) THEN q
    ELSE [winlink_stack_push(winlink_stack_remove(q, s, i), s, q.sess[s].curw)
            EXCEPT !.sess[s].curw = i]

session_last(q, s) ==
    IF q.sess[s].lastw = <<>> THEN NoIdx ELSE Head(q.sess[s].lastw)

session_next(q, s) ==
    IF q.sess[s].curw = NoIdx THEN NoIdx
    ELSE IF \A i \in DOMAIN q.sess[s].links : i <= q.sess[s].curw
    THEN Least(DOMAIN q.sess[s].links)
    ELSE Least({i \in DOMAIN q.sess[s].links : i > q.sess[s].curw})

session_previous(q, s) ==
    IF q.sess[s].curw = NoIdx THEN NoIdx
    ELSE IF \A i \in DOMAIN q.sess[s].links : i >= q.sess[s].curw
    THEN Greatest(DOMAIN q.sess[s].links)
    ELSE Greatest({i \in DOMAIN q.sess[s].links : i < q.sess[s].curw})

\* Go to the last window, or else the previous, or else the next.
session_leave(q, s) ==
    session_set_current(q, s,
        IF Changes(q, s, session_last(q, s)) THEN session_last(q, s)
        ELSE IF Changes(q, s, session_previous(q, s)) THEN session_previous(q, s)
        ELSE session_next(q, s))

\* Make room at or after the winlink i: it and what follows without a gap
\* move up by one, and the pointers to those winlinks stay with them.
winlink_shuffle_up(q, s, i, before) ==
    LET idx == IF before THEN i ELSE i + 1
        last == winlink_next_index(q, s, idx)
        up(j) == IF j \in idx .. last - 1 THEN j + 1 ELSE j
        old == q.sess[s]
    IN [idx |-> idx,
        q |-> [q EXCEPT
            !.sess[s] = [old EXCEPT
                !.links = [j \in {up(k) : k \in DOMAIN old.links} |->
                              old.links[IF j \in idx + 1 .. last THEN j - 1 ELSE j]],
                !.curw = up(@),
                !.lastw = [n \in DOMAIN old.lastw |-> up(old.lastw[n])],
                !.visited = {up(j) : j \in @}]]]

-----------------------------------------------------------------------------
(* Session groups. *)

GroupName(q, s) == {n \in SessionIds : s \in ToSet(q.groups[n])}

session_group_contains(q, s) ==
    LET named == GroupName(q, s)
    IN IF named = {} THEN <<>> ELSE q.groups[CHOOSE n \in named : TRUE]

Grouped(q, s) == session_group_contains(q, s) # <<>>
SameGroup(q, s, t) == s \in ToSet(session_group_contains(q, t))

session_group_remove(q, s) ==
    IF ~Grouped(q, s) THEN q
    ELSE [q EXCEPT !.groups[CHOOSE n \in GroupName(q, s) : TRUE] = SelectSeq(@, LAMBDA m : m # s)]

\* s gets new winlinks to the windows of links, and then gives up the old ones.
RelinkAll(q, s, links) ==
    LET now == [w \in Windows |-> q.refs[w] + Count(links, w) - Count(q.sess[s].links, w)]
    IN [q EXCEPT !.sess[s].links = links, !.refs = now @@ Empty, !.rebuilt = @ \cup {s}]

\* s gives up its winlinks for new ones to the windows of target; a is the state
\* after leaving a current window that target does not have.
TakeLinks(a, target, s) ==
    LET ww == a.sess[target].links
        i == IF a.sess[s].curw # NoIdx THEN a.sess[s].curw ELSE a.sess[target].curw
        kept(l) == SelectSeq(l, LAMBDA j : j \in DOMAIN ww)
    IN [RelinkAll(a, s, ww) EXCEPT
            !.sess[s].curw = IF i \in DOMAIN ww THEN i ELSE NoIdx,
            !.sess[s].lastw = kept(@),
            !.sess[s].visited = ToSet(kept(a.sess[s].lastw))]

session_group_synchronize1(q, target, s) ==
    CASE q.sess[target].links = Empty -> q
      [] OTHER -> TakeLinks(IF q.sess[s].curw \in DOMAIN q.sess[target].links \cup {NoIdx}
                            THEN q ELSE session_leave(q, s), target, s)

session_group_synchronize_from(q, target) ==
    Each(LAMBDA r, m : IF m = target THEN r ELSE session_group_synchronize1(r, target, m),
             q, session_group_contains(q, target))

session_group_synchronize_to(q, s) ==
    LET others == SelectSeq(session_group_contains(q, s), LAMBDA m : m # s)
    IN IF others = <<>> THEN q ELSE session_group_synchronize1(q, Head(others), s)

-----------------------------------------------------------------------------
(* Attaching and detaching windows, renumbering, destroying a session. *)

\* Mutant: the rest of the group is not told.
session_attach_Alone(q, s, w, i) == winlink_add(q, s, i, w)

session_attach(q, s, w, i) ==
    session_group_synchronize_from(winlink_add(q, s, i, w), s)

\* The state in which i may go: it is not the current winlink.
NotCurrent(q, s, i) == IF q.sess[s].curw = i THEN session_leave(q, s) ELSE q

\* Mutant: the stack of last windows keeps the winlink.
session_detach_NoStack(q, s, i) ==
    session_group_synchronize_from(winlink_remove(NotCurrent(q, s, i), s, i), s)

session_detach(q, s, i) ==
    session_group_synchronize_from(
        winlink_remove(winlink_stack_remove(NotCurrent(q, s, i), s, i), s, i), s)

session_destroy(q, s) ==
    IF q.sess[s].curw = NoIdx THEN q
    ELSE [RelinkAll(session_group_remove(q, s), s, Empty) EXCEPT !.sess[s] = NoSession]

\* The last-window stack is refilled by window, not by index: a window that is
\* linked twice gives the same winlink twice.
session_renumber_windows(q, s) ==
    LET old == q.sess[s].links
        new(i) == BaseIndex + Cardinality({j \in DOMAIN old : j < i})
        links == [n \in {new(i) : i \in DOMAIN old} |->
                     old[CHOOSE i \in DOMAIN old : new(i) = n]]
        found(i) == new(Least({j \in DOMAIN old : old[j] = old[i]}))
    IN [RelinkAll(q, s, links) EXCEPT
            !.sess[s].curw = CASE @ \in DOMAIN old -> new(@)
                               [] @ \notin DOMAIN old /\ BaseIndex = 0 /\ old # Empty -> 0
                               [] OTHER -> NoIdx,
            !.sess[s].lastw = [n \in DOMAIN @ |-> found(@[n])],
            !.sess[s].visited = {found(n) : n \in ToSet(q.sess[s].lastw)},
            !.faults = @ \cup (IF \E i, j \in DOMAIN old : i # j /\ old[i] = old[j]
                               THEN {"linked twice"} ELSE {})]

server_renumber_session(q, s, e) ==
    CASE ~e.renumber -> q
      [] e.renumber /\ Grouped(q, s) ->
            Each(LAMBDA r, m : session_renumber_windows(r, m), q, session_group_contains(q, s))
      [] OTHER -> session_renumber_windows(q, s)

-----------------------------------------------------------------------------
(* Clients, and what becomes of them when a session goes. *)

recalculate_sizes(q) ==
    LET on(s) == {c \in Clients : q.client[c].session = s /\ q.client[c].flag = ACTIVE}
        counted == [s \in SessionIds |-> IF ~q.sess[s].alive THEN q.sess[s]
                                         ELSE [q.sess[s] EXCEPT !.attached = Cardinality(on(s))]]
    IN [q EXCEPT !.sess = counted @@ Empty]

\* 0 off, 1 on, 2 keep-last, 3 keep-group.
MayGo(q, s, e) ==
    LET n == Len(session_group_contains(q, s))
    IN CASE e.destroy_unattached = 0 -> FALSE
         [] e.destroy_unattached = 2 -> n > 1
         [] e.destroy_unattached = 3 -> n # 1
         [] OTHER -> TRUE

\* A session goes that a suspended client is attached to.
Deserted(q, s) ==
    IF \E c \in Clients : q.client[c] = [session |-> s, flag |-> "suspended"]
    THEN [q EXCEPT !.faults = @ \cup {"deserted"}] ELSE q

server_check_unattached(q, e) ==
    Each(LAMBDA r, s : IF r.sess[s].attached = 0 /\ MayGo(r, s, e)
                           THEN session_destroy(Deserted(r, s), s) ELSE r,
             q, Sorted(Live(q)))

server_client_set_session(q, c, s, e) ==
    LET r == [q EXCEPT !.client[c].session = s]
    IN server_check_unattached(IF s = None THEN r ELSE recalculate_sizes(r), e)

\* The walk starts with the first session whatever f says of it.
server_find_session(q, s, e, f(_)) ==
    LET newer(r, t) == IF r = None \/ (f(t) /\ e.act[t] > e.act[r]) THEN t ELSE r
    IN Each(newer, None, Sorted(Live(q) \ {s}))

\* The neighbour of s in the order of names, round the end; n is 1 or -1. None
\* if that is s itself.
Neighbour(q, s, n) ==
    LET l == Sorted(Live(q))
        k == CHOOSE i \in DOMAIN l : l[i] = s
    IN IF Live(q) \in {Live(q) \ {s}, {s}} THEN None
       ELSE l[((k - 1 + n + Len(l)) % Len(l)) + 1]

Newest(q, s, e) == server_find_session(q, s, e, LAMBDA t : TRUE)

\* detach-on-destroy: 0 off, 1 on, 2 no-detached, 3 previous, 4 next.
NewSessionFor(q, s, e) ==
    CASE e.detach_on_destroy = 0 -> Newest(q, s, e)
      [] e.detach_on_destroy = 2 ->
           server_find_session(q, s, e, LAMBDA t : q.sess[t].attached = 0)
      [] e.detach_on_destroy = 3 -> Neighbour(q, s, -1)
      [] e.detach_on_destroy = 4 -> Neighbour(q, s, 1)
      [] OTHER -> None

\* A client without a session to go to exits.
MoveClient(q, c, to, e) ==
    [server_client_set_session([q EXCEPT !.client[c].session = None], c, to, e) EXCEPT
        !.client[c].flag = IF to = None THEN "exit" ELSE @]

\* The session "to", chosen for c before the walk over the clients of s, is one
\* that the walk may destroy first: nobody is attached to it, destroy-unattached
\* lets it go, and a client before c does not get attached to it, being sent away
\* or suspended or about to exit.
GoneBefore(q, s, c, to(_), e) ==
    /\ MayGo(q, to(c), e)
    /\ \A a \in Clients : q.client[a] # [session |-> to(c), flag |-> ACTIVE]
    /\ \E a \in Clients :
        /\ a < c /\ q.client[a].session = s
        /\ to(a) = None \/ q.client[a].flag # ACTIVE

MoveClients(q, s, s_new, e) ==
    LET use_s(c) == IF s_new = None /\ c \in NoDetach /\ e.detach_on_destroy \in {1, 2}
                    THEN Newest(q, s, e) ELSE s_new
        gone(r, c) ==
            /\ use_s(c) \notin {None} \cup Live(r)
            /\ GoneBefore(q, s, c, use_s, e)
        noted(r, c) == [r EXCEPT !.faults = @ \cup (IF gone(r, c) THEN {"gone"} ELSE {})]
    IN Each(LAMBDA r, c : IF r.client[c].session # s THEN r
                          ELSE MoveClient(noted(r, c), c, use_s(c), e),
            q, Sorted(Clients))

\* Mutant: the clients of the session are not moved away.
server_destroy_session_None(q, s, e) == recalculate_sizes(q)

server_destroy_session(q, s, e) ==
    recalculate_sizes(MoveClients(q, s, NewSessionFor(q, s, e), e))

DestroySession(q, s, e) == session_destroy(server_destroy_session(q, s, e), s)

DestroyEach(q, seq, e) == Each(LAMBDA r, s : DestroySession(r, s, e), q, seq)

server_destroy_session_group(q, s, e) ==
    IF Grouped(q, s) THEN DestroyEach(q, session_group_contains(q, s), e)
    ELSE DestroySession(q, s, e)

DestroyIfEmpty(q, s, e) ==
    IF q.sess[s].links = Empty THEN server_destroy_session_group(q, s, e) ELSE q

server_unlink_window(q, s, i, e) == DestroyIfEmpty(session_detach(q, s, i), s, e)

\* Every session that has w loses it, in the order of SESSIONS.
server_kill_window(q, w, renumber, e) ==
    LET of(r, s) == Sorted({i \in DOMAIN r.sess[s].links : r.sess[s].links[i] = w})
    IN recalculate_sizes(Each(
         LAMBDA r, s : IF ~Has(r, s, w) THEN r
                       ELSE server_renumber_session(
                              Each(LAMBDA t, i : server_unlink_window(t, s, i, e), r, of(r, s)),
                              s, [e EXCEPT !.renumber = @ /\ renumber]),
         q, Sorted(Live(q))))

-----------------------------------------------------------------------------
(* Creating and linking windows. *)

\* A winlink that is killed to make room: session_detach would destroy the
\* session if it had no other.
MakeRoom(q, s, i) ==
    [winlink_remove(winlink_stack_remove(q, s, i), s, i) EXCEPT
        !.sess[s].curw = IF @ = i THEN NoIdx ELSE @]

IndexFor(q, s, idx) == IF idx = NoIdx THEN winlink_next_index(q, s, BaseIndex) ELSE idx

SelectIf(select, q, s, i) == IF select THEN session_set_current(q, s, i) ELSE q

\* The winlink for a new window w, where there is room for it.
NewLink(q, s, w, i) ==
    winlink_add([q EXCEPT !.sess[s].curw = IF @ = NoIdx THEN i ELSE @], s, i, w)

\* A new window w of s at idx, or at the first free index; fail says that the
\* process of its pane could not be started.
SpawnIn(q, s, w, i, detached, fail) ==
    IF fail THEN winlink_remove(NewLink(q, s, w, i), s, i)
    ELSE session_group_synchronize_from(
           SelectIf(~detached \/ q.sess[s].curw = NoIdx, NewLink(q, s, w, i), s, i), s)

spawn_window(q, s, w, idx, kill, detached, fail) ==
    IF idx \notin DOMAIN q.sess[s].links
    THEN SpawnIn(q, s, w, IndexFor(q, s, idx), detached, fail)
    ELSE IF ~kill THEN q
    ELSE [SpawnIn(MakeRoom(q, s, idx), s, w, idx, detached, fail) EXCEPT
            !.faults = @ \cup (IF fail /\ Grouped(q, s) THEN {"unshared"} ELSE {})]

LinkFails(q, src, i, dst, idx, kill) ==
    \/ src # dst /\ SameGroup(q, src, dst)
    \/ /\ idx \in DOMAIN q.sess[dst].links
       /\ ~kill \/ q.sess[dst].links[idx] = q.sess[src].links[i]

LinkIn(q, w, dst, i, select) ==
    SelectIf(select \/ q.sess[dst].curw = NoIdx, session_attach(q, dst, w, i), dst, i)

server_link_window(q, src, i, dst, idx, select) ==
    LinkIn(IF idx \in DOMAIN q.sess[dst].links THEN MakeRoom(q, dst, idx) ELSE q,
           q.sess[src].links[i], dst, IndexFor(q, dst, idx), select)

\* The bounds. With a client there is room for two winlinks less, and one index.
Less(q) == IF \E c \in Clients : q.client[c] # NoClient THEN 1 ELSE 0
IdxBound(q) == MaxIdx - Less(q)

\* Where a command with -a or -b, or with an index, puts a window; without an
\* index it is the first that is free.
Places(q, s) ==
    {[q |-> q, idx |-> i] : i \in 0 .. IdxBound(q)}
      \cup {p \in {winlink_shuffle_up(q, s, i, b) : i \in DOMAIN q.sess[s].links, b \in BOOLEAN} :
               DOMAIN p.q.sess[s].links \cup {p.idx} \subseteq 0 .. IdxBound(q)}

\* -k makes a difference only where there is a winlink to kill; without it a
\* command with the index of a winlink is refused and nothing changes.
KillFlag(p, s) == {p.idx \in DOMAIN p.q.sess[s].links}

-----------------------------------------------------------------------------
(* The commands. *)

\* Where a session has no valid current window the code reads freed memory or
\* a null pointer, and nothing more is modelled; nor is it after the faults
\* outside Beyond.
Usable ==
    /\ faults \subseteq Beyond
    /\ \A s \in SessionIds : sess[s].alive => sess[s].curw \in DOMAIN sess[s].links

Links(q) == Cardinality(UNION {{s} \X DOMAIN q.sess[s].links : s \in SessionIds})

IndicesDiffer(q) ==
    \E s, t \in Live(q) : s < t /\ DOMAIN q.sess[s].links # DOMAIN q.sess[t].links /\ SameGroup(q, s, t)

Become(q) ==
    /\ Links(q) <= MaxLinks - 2 * Less(q)
    /\ \A s \in SessionIds : DOMAIN q.sess[s].links \subseteq 0 .. IdxBound(q)
    /\ sess' = q.sess /\ groups' = q.groups /\ refs' = q.refs /\ client' = q.client
    /\ faults' = q.faults \cup (IF IndicesDiffer(q) THEN {"indices"} ELSE {})

\* A fault that the state after a command shows.
Noting(q, f(_), fault) == [q EXCEPT !.faults = @ \cup (IF f(q) THEN {fault} ELSE {})]

\* The commands that destroy no session read renumber-windows only.
Unread(e) == \A o \in Options :
    o.renumber = e.renumber => o.destroy_unattached >= e.destroy_unattached

NoneRead(e) == Unread(e) /\ ~e.renumber

Fresh == {w \in Windows : refs[w] = 0}

session_create(q, s) == [q EXCEPT !.sess[s] = [NoSession EXCEPT !.alive = TRUE]]

\* -t with: the session s joins the group of the session with, made if there is
\* none.  A group of that name may be left over from another session.
JoinGroup(q, s, with) ==
    LET n == IF Grouped(q, with) THEN CHOOSE m \in GroupName(q, with) : TRUE ELSE with
    IN session_group_synchronize_to(
         [q EXCEPT !.groups[n] = IF Grouped(q, with) THEN Append(@, s) ELSE @ \o <<with, s>>,
                   !.faults = @ \cup (IF ~Grouped(q, with) /\ q.groups[n] # <<>>
                                      THEN {"joined"} ELSE {})], s)

\* new-session makes the first window the current one.
SelectFirst(q, s) == session_set_current(q, s, Least(DOMAIN q.sess[s].links))

AttachTo(q, c, s, e) ==
    server_client_set_session([q EXCEPT !.client[c].flag = ACTIVE], c, s, e)

\* new-session, with -t and with or without a client to attach; a is the state
\* with the new session and its first window.
NewSession(a, s, with, c, fail, e) ==
    LET b == IF with = None THEN a ELSE SelectFirst(JoinGroup(a, s, with), s)
    IN CASE fail -> session_destroy(a, s)
         [] ~fail /\ c = None -> b
         [] OTHER -> AttachTo(b, c, s, e)

cmd_new_session(s, with, c, w, fail, e) ==
    /\ ~sess[s].alive /\ w \in Fresh
    /\ IF c = None THEN Unread(e) ELSE client[c].flag \in {"none", ACTIVE}
    /\ Become(NewSession(spawn_window(session_create(Now, s), s, w, NoIdx, FALSE, FALSE, fail),
                         s, with, c, fail, e))

cmd_new_window(s, p, w, kill, detached, fail) ==
    LET dangles(r) == r.sess[s].curw \notin DOMAIN r.sess[s].links
    IN /\ sess[s].alive /\ w \in Fresh
       /\ Become(Noting(spawn_window(p.q, s, w, p.idx, kill, detached, fail),
                        dangles, "dangling"))

\* kill-window, and a window whose last pane has died (server_destroy_pane).
cmd_kill_window(w, e) ==
    refs[w] > 0 /\ Become(server_kill_window(Now, w, TRUE, e))

RenumberAll(q, e) == Each(LAMBDA r, t : server_renumber_session(r, t, e), q, Sorted(Live(q)))

\* kill-window -a: all but the window at i.  Once the winlinks of s have been
\* made anew for its group the pointer to that winlink is stale, and what is
\* read through it is the old window or the one of a winlink in its place.
cmd_kill_window_all(s, i, read, e) ==
    LET mine == sess[s].links[i]
        remade(r) == s \in r.rebuilt
        kept(r) == IF remade(r) THEN read ELSE mine
        others(r) == {j \in DOMAIN r.sess[s].links : r.sess[s].links[j] # kept(r)}
        \* A round kills the first window that is not the one read.
        round(r, n) == IF others(r) = {} THEN r
                       ELSE server_kill_window(r, r.sess[s].links[Least(others(r))], FALSE, e)
        twice(r) == IF Count(r.sess[s].links, kept(r)) <= 1 THEN r
                    ELSE server_kill_window(r, kept(r), FALSE, e)
    IN /\ sess[s].alive /\ i \in DOMAIN sess[s].links
       /\ Cardinality(DOMAIN sess[s].links) > 1
       /\ read = mine \/ Grouped(Now, s)
       /\ Become(RenumberAll(twice(
            Noting(Each(round, Now, Sorted(DOMAIN sess[s].links)),
                   remade, "stale kill-window -a")), e))

\* held: a notification or an alert that is still queued has a reference too.
session_is_linked(q, s, w, held) ==
    q.refs[w] + (IF held THEN 1 ELSE 0)
        # IF Grouped(q, s) THEN Len(session_group_contains(q, s)) ELSE 1

cmd_unlink_window(s, i, kill, held, e) ==
    LET w == sess[s].links[i]
        lost(r) == ~kill /\ r.refs[w] = 0
    IN /\ sess[s].alive /\ i \in DOMAIN sess[s].links
       /\ Cardinality(DOMAIN sess[s].links) = 1 \/ NoneRead(e)
       /\ IF kill THEN ~held ELSE session_is_linked(Now, s, w, held)
       /\ Become(Noting(recalculate_sizes(server_unlink_window(Now, s, i, e)), lost, "unlinked"))

\* link-window and move-window; p is where in dst, made by Places.  When the
\* link is refused the room that was made stays.  A command that cannot destroy
\* a session is taken without renumber-windows: with it, it is the same command
\* followed by move-window -r; one that is refused is taken without -d as a link.
cmd_move_window(src, i, dst, p, kill, detached, move, e) ==
    LET at == IF src # dst THEN i ELSE CHOOSE j \in DOMAIN p.q.sess[src].links :
                 Cardinality({k \in DOMAIN p.q.sess[src].links : k < j})
                   = Cardinality({k \in DOMAIN sess[src].links : k < i})
        remade(r) == move /\ src \in r.rebuilt
        unlink(r) == IF move THEN server_unlink_window(r, src, at, e) ELSE r
        renumber(r) == IF e.renumber THEN session_renumber_windows(r, src) ELSE r
    IN /\ sess[src].alive /\ sess[dst].alive /\ i \in DOMAIN sess[src].links
       /\ (move /\ src # dst /\ Cardinality(DOMAIN sess[src].links) = 1) \/ NoneRead(e)
       /\ LinkFails(p.q, src, at, dst, p.idx, kill) => ~detached /\ ~move
       /\ Become(IF LinkFails(p.q, src, at, dst, p.idx, kill) THEN p.q
                 ELSE recalculate_sizes(renumber(unlink(
                        Noting(server_link_window(p.q, src, at, dst, p.idx, ~detached),
                               remade, "stale")))))

\* move-window -r renumbers one session, whatever its group.
cmd_move_window_renumber(s) ==
    /\ sess[s].alive
    /\ Become(recalculate_sizes(session_renumber_windows(Now, s)))

SynchronizeBoth(q, src, dst) ==
    Each(session_group_synchronize_from, q, IF src = dst THEN <<src>> ELSE <<src, dst>>)

cmd_swap_window(src, i, dst, j, d) ==
    /\ sess[src].alive /\ sess[dst].alive
    /\ i \in DOMAIN sess[src].links /\ j \in DOMAIN sess[dst].links
    /\ ~(src # dst /\ SameGroup(Now, src, dst))
    /\ sess[src].links[i] # sess[dst].links[j]
    /\ Become(recalculate_sizes(SynchronizeBoth(
         SelectIf(d /\ src # dst,
                  SelectIf(d, [Now EXCEPT !.sess[src].links[i] = sess[dst].links[j],
                                          !.sess[dst].links[j] = sess[src].links[i]], dst, j),
                  src, i), src, dst)))

cmd_select_window(s, i) ==
    /\ sess[s].alive
    /\ i \in DOMAIN sess[s].links
              \cup {session_next(Now, s), session_previous(Now, s), session_last(Now, s)}
    /\ Become(recalculate_sizes(session_set_current(Now, s, i)))

cmd_kill_session(s, which, e) ==
    /\ sess[s].alive
    /\ Become(DestroyEach(Now,
         CASE which = "-a" -> Sorted(Live(Now) \ {s})
           [] which = "-g" /\ Grouped(Now, s) -> session_group_contains(Now, s)
           [] OTHER -> <<s>>, e))

\* attach-session and switch-client, to a window of s or to s as it is.
cmd_switch_client(c, s, i, e) ==
    /\ sess[s].alive /\ client[c].flag \in {"none", ACTIVE}
    /\ i \in DOMAIN sess[s].links
    /\ Become(AttachTo(session_set_current(Now, s, i), c, s, e))

\* detach-client and suspend-client only set a flag.
server_client_detach(c, flag) ==
    /\ client[c].flag = ACTIVE
    /\ client' = [client EXCEPT ![c].flag = flag]
    /\ UNCHANGED <<sess, groups, refs, faults>>

server_client_wakeup(c) ==
    /\ client[c].flag = "suspended"
    /\ Become(recalculate_sizes([Now EXCEPT !.client[c].flag = ACTIVE]))

server_client_lost(c, e) ==
    /\ client[c].flag # "none"
    /\ Become(server_check_unattached(recalculate_sizes(
                [Now EXCEPT !.client[c] = NoClient]), e))

Undefined == ~Usable /\ UNCHANGED vars

Init ==
    /\ sess = [s \in SessionIds |-> NoSession]
    /\ groups = [n \in SessionIds |-> <<>>]
    /\ refs = [w \in Windows |-> 0]
    /\ client = [c \in Clients |-> NoClient]
    /\ faults = {}

Next ==
    \/ Undefined
    \/ /\ Usable
       /\ \/ \E e \in Options :
              \/ \E s \in SessionIds, with \in {None} \cup Live(Now), c \in {None} \cup Clients,
                    w \in Windows, fail \in BOOLEAN : cmd_new_session(s, with, c, w, fail, e)
              \/ \E w \in Windows : cmd_kill_window(w, e)
              \/ \E s \in Live(Now) : \E i \in DOMAIN sess[s].links, w \in Windows :
                    cmd_kill_window_all(s, i, w, e)
              \/ \E s \in Live(Now) : \E i \in DOMAIN sess[s].links, kill, held \in BOOLEAN :
                    cmd_unlink_window(s, i, kill, held, e)
              \/ \E dst \in Live(Now) : \E p \in Places(Now, dst) : \E kill \in KillFlag(p, dst) :
                    \E src \in Live(Now) : \E i \in DOMAIN sess[src].links, detached, move \in BOOLEAN :
                        cmd_move_window(src, i, dst, p, kill, detached, move, e)
              \/ \E s \in Live(Now), which \in {"", "-a", "-g"} : cmd_kill_session(s, which, e)
              \/ \E s \in Live(Now) : \E c \in Clients, i \in DOMAIN sess[s].links :
                    cmd_switch_client(c, s, i, e)
              \/ \E c \in Clients : server_client_lost(c, e)
          \/ \E s \in Live(Now) : \E p \in Places(Now, s) : \E kill \in KillFlag(p, s) :
                \E w \in Windows, detached, fail \in BOOLEAN :
                    cmd_new_window(s, p, w, kill, detached, fail)
          \/ \E s \in Live(Now) : cmd_move_window_renumber(s)
          \/ \E src, dst \in Live(Now) :
                \E i \in DOMAIN sess[src].links, j \in DOMAIN sess[dst].links, d \in BOOLEAN :
                    cmd_swap_window(src, i, dst, j, d)
          \/ \E s \in Live(Now), i \in 0 .. MaxIdx : cmd_select_window(s, i)
          \/ \E c \in Clients, flag \in {"exit", "suspended"} : server_client_detach(c, flag)
          \/ \E c \in Clients : server_client_wakeup(c)

Spec == Init /\ [][Next]_vars

-----------------------------------------------------------------------------
(* Properties. *)

TypeOK ==
    /\ \A s \in SessionIds :
        /\ sess[s].alive \in BOOLEAN
        /\ DOMAIN sess[s].links \subseteq 0 .. MaxIdx
        /\ \A i \in DOMAIN sess[s].links : sess[s].links[i] \in Windows
        /\ sess[s].curw \in {NoIdx} \cup 0 .. MaxIdx
        /\ sess[s].attached \in 0 .. Cardinality(Clients)
        /\ ~sess[s].alive => sess[s] = NoSession
    /\ groups \in [SessionIds -> Seq(SessionIds)]
    /\ refs \in [Windows -> Nat]
    /\ client \in [Clients -> [session : SessionIds \cup {None},
                               flag : {"none", ACTIVE, "suspended", "exit"}]]

\* The references of a window are its winlinks: none is freed while linked and
\* none is kept when the last winlink goes (window_remove_ref).
RefsExact ==
    \A w \in Windows :
        refs[w] = Cardinality({<<s, i>> \in SessionIds \X (0 .. MaxIdx) :
                                 i \in DOMAIN sess[s].links /\ sess[s].links[i] = w})

\* Every session has windows and one of them is current, unless a window could
\* not be started in place of the current one, or the members of a group had
\* come to number their windows differently (session_group_synchronize1). The
\* stack of last windows holds winlinks of its session, each once, not the
\* current one, and exactly those with WINLINK_VISITED, so that removing a
\* winlink from the stack never misses it. Only kill-window -a uses a winlink
\* after its session has made new ones.
CurrentAndLast ==
    /\ "stale" \notin faults
    /\ faults \cap {"dangling", "indices"} = {}
         => \A s \in Live(Now) : sess[s].curw \in DOMAIN sess[s].links
    /\ faults \cap {"dangling", "linked twice"} = {}
         => \A s \in Live(Now) :
             /\ IsInjective(sess[s].lastw)
             /\ ToSet(sess[s].lastw) = sess[s].visited
             /\ sess[s].visited \subseteq DOMAIN sess[s].links \ {sess[s].curw}

\* Sessions of a group have the same windows the same number of times, unless
\* new-window -k failed in one of them or a session was put into a group left
\* over from another of its name. A group has members that exist, and nobody is
\* in two groups.
GroupShares ==
    /\ faults \cap {"unshared", "joined"} = {}
         => \A s, t \in Live(Now) : SameGroup(Now, s, t)
             => \A w \in Windows : Count(sess[s].links, w) = Count(sess[t].links, w)
    /\ \A s \in SessionIds :
         /\ Cardinality(GroupName(Now, s)) <= 1
         /\ GroupName(Now, s) # {} => sess[s].alive

\* A client that is attached, neither suspended nor about to exit, is attached
\* to a session that exists, whatever destroy-unattached and detach-on-destroy
\* do. Two things undo it: the session of a suspended client goes, and when a
\* session with several clients is destroyed, the one chosen for a later client
\* goes because an earlier one was not attached to it (GoneBefore). Where nothing
\* of the kind stands in the way, the session chosen before the clients are
\* moved is still there for each of them.
ClientsAttached ==
    faults \cap {"deserted", "gone"} = {}
        => \A c \in Clients : client[c].flag = ACTIVE => client[c].session \in Live(Now)
=============================================================================
