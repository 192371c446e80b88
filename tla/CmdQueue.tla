------------------------------ MODULE CmdQueue ------------------------------
(***************************************************************************)
(* The command queues of the server: cmd_queue.rs, the part of server_loop *)
(* that runs them (server.rs), the notifications that feed the global      *)
(* queue (notify.rs), and the two commands that hold an item across the    *)
(* event loop (cmd_if_shell.rs, cmd_run_shell.rs), with the client         *)
(* references that all of them take.                                       *)
(*                                                                         *)
(* The server is one thread.  Between two calls of server_loop it runs     *)
(* event callbacks (cur = None); inside server_loop one queue at a time    *)
(* fires its head item (cur is that queue).                                *)
(***************************************************************************)
EXTENDS Naturals, Sequences, SequencesExt, FiniteSets, Filters

CONSTANTS Clients,   \* clients, each with a queue of its own
          Global,    \* the global queue
          None,      \* the null client, and "no queue is running"
          InBraces,  \* the commands of if-shell -b and run-shell -bC are given
                     \* in braces: parsed with the command, not at each run
          MaxLists,  \* bound on the number of command lists ever queued
          MaxJobs    \* bound on the jobs at the start of one with -b

ASSUME Distinct == Global \notin Clients /\ None \notin Clients /\ Global # None
ASSUME ClientsFinite == IsFiniteSet(Clients)
ASSUME InBracesBool == InBraces \in BOOLEAN
ASSUME BoundsNat == MaxLists \in Nat /\ MaxJobs \in Nat

Queues == Clients \cup {Global}

(* A cmdq_item.  run and pos say which queued list it belongs to and its   *)
(* place there (history); group is what cmdq_remove_group compares: a list *)
(* gets one when it is parsed, so that of a hook, of a key binding or in   *)
(* braces has the same group every time it is queued.  data is the client  *)
(* that a notification's entry refers to.                                  *)
HookGroup == MaxLists + 1
KeyGroup == MaxLists + 2
BraceGroup == MaxLists + 3
Items == [what : {"command", "notify", "key", "done"}, run : Nat, pos : Nat,
          group : Nat, client : Clients \cup {None}, nohooks : BOOLEAN,
          fired : BOOLEAN, waiting : BOOLEAN, data : Clients \cup {None}]

(* What an item waits for outside the queues: a job of if-shell or         *)
(* run-shell ("shell": which of them it is shows when it ends), or the     *)
(* client's input (split-window -I).  It knows the queue whose head waits  *)
(* (None with -b) and the client it has a reference to; again tells two    *)
(* jobs of -b with the same client apart.                                  *)
Jobs == [what : {"shell", "input"}, queue : Queues \cup {None},
         client : Clients \cup {None}, again : BOOLEAN]
Job(what, queue, client) ==
    [what |-> what, queue |-> queue, client |-> client, again |-> FALSE]

VARIABLES
    clients,  \* CLIENTS, in order
    list,     \* the items of each queue
    held,     \* cmdq_list.item is not null: it points at the head
    cur,      \* the queue cmdq_next is running, or None outside server_loop
    todo,     \* the clients server_loop has still to visit in this pass
    ran,      \* items # 0 in this pass
    jobs,     \* the jobs that have not finished
    signals,  \* the queues whose head waits on a wait channel
    refs,     \* client.references
    freeing,  \* how many server_client_free callbacks are scheduled
    freed,    \* the clients given back to the allocator
    lists,    \* history: command lists queued so far
    failed,   \* history: the lists of which a command failed
    leaked,   \* history: references dropped without an unref
    lost      \* history: notifications dropped although no hook was running

qvars == <<clients, list, held>>
loopvars == <<cur, todo, ran>>
clientvars == <<refs, freeing, freed, leaked>>
vars == <<clients, list, held, cur, todo, ran, jobs, signals, refs, freeing,
          freed, lists, failed, leaked, lost>>

Init ==
    /\ clients = <<>>
    /\ list = [q \in Queues |-> <<>>]
    /\ held = [q \in Queues |-> FALSE]
    /\ cur = None /\ todo = <<>> /\ ran = FALSE
    /\ jobs = {} /\ signals = {}
    /\ refs = [c \in Clients |-> 0]
    /\ freeing = [c \in Clients |-> 0]
    /\ freed = {} /\ lists = 0 /\ failed = {}
    /\ leaked = [c \in Clients |-> 0]
    /\ lost = FALSE

-----------------------------------------------------------------------------
(* References.                                                             *)

(* How many of the clients in the sequence cs are c.                       *)
Count(cs, c) == Cardinality({i \in DOMAIN cs : cs[i] = c})

ClientsOf(s) == [i \in DOMAIN s |-> s[i].client]

(* The references taken (a sequence of clients, None for none) and those   *)
(* given up with server_client_unref; the unref that reaches zero          *)
(* schedules server_client_free.                                           *)
TakeAndDrop(taken, dropped) ==
    /\ refs' = [c \in Clients |-> refs[c] + Count(taken, c) - Count(dropped, c)]
    /\ freeing' = [c \in Clients |->
                       IF Count(dropped, c) > 0 /\ refs'[c] = 0
                       THEN freeing[c] + 1 ELSE freeing[c]]

-----------------------------------------------------------------------------
(* Building and removing items.                                            *)

(* Mutant: the items are chained in front of each other.                   *)
cmdq_get_command_Reversed(n, run, group, nohooks, client) ==
    [i \in 1 .. n |-> [what |-> "command", run |-> run, pos |-> n + 1 - i,
                       group |-> group, client |-> client, nohooks |-> nohooks,
                       fired |-> FALSE, waiting |-> FALSE, data |-> None]]

(* cmdq_get_command: one item per command, all in the list's group.  A     *)
(* hook's items do not run hooks.                                          *)
cmdq_get_command(n, run, group, nohooks, client) ==
    [i \in 1 .. n |-> [what |-> "command", run |-> run, pos |-> i,
                       group |-> group, client |-> client, nohooks |-> nohooks,
                       fired |-> FALSE, waiting |-> FALSE, data |-> None]]

(* cmdq_get_callback1: group 0, and hooks are allowed.                     *)
cmdq_get_callback(what, client, data) ==
    [what |-> what, run |-> 0, pos |-> 0, group |-> 0, client |-> client,
     nohooks |-> FALSE, fired |-> FALSE, waiting |-> FALSE, data |-> data]

(* cmdq_remove_group: the rest of a queue after its head failed.           *)
cmdq_remove_group(item, rest) ==
    IF item.group = 0 THEN rest
    ELSE Only(rest, {i \in ToSet(rest) : i.group # item.group})

Removed(item, rest) ==
    Only(rest, {i \in ToSet(rest) : item.group # 0 /\ i.group = item.group})

(* cmdq_running, by whether it finds an item of q that runs no hooks.      *)
RunsNoHooks(q) ==
    held[q] /\ list[q] # <<>> /\ ~Head(list[q]).waiting /\ Head(list[q]).nohooks

(* Up to n more command lists may be queued: the model's bound.            *)
Queueing(n) == lists + n <= MaxLists /\ lists' = lists + n

-----------------------------------------------------------------------------
(* Event callbacks: they run while no queue does.                          *)

server_client_create(c) ==
    /\ cur = None
    /\ c \notin ToSet(clients) \cup freed /\ refs[c] = 0 /\ freeing[c] = 0
    /\ clients' = Append(clients, c)
    /\ refs' = [refs EXCEPT ![c] = 1]
    /\ UNCHANGED <<list, held, loopvars, jobs, signals, freeing, freed, lists,
                   failed, leaked, lost>>

(* MSG_COMMAND: the commands in one group, then server_client_command_done.*)
server_client_dispatch_command(c) ==
    LET new == Append(cmdq_get_command(2, lists + 1, lists + 1, FALSE, c),
                      cmdq_get_callback("done", c, None))
    IN /\ cur = None
       /\ c \in ToSet(clients)
       /\ Queueing(1)
       /\ list' = [list EXCEPT ![c] = @ \o new]
       /\ TakeAndDrop(ClientsOf(new), <<>>)
       /\ UNCHANGED <<clients, held, loopvars, jobs, signals, freed, failed,
                      leaked, lost>>

(* Mutant: the binding's commands are queued at once.                      *)
server_client_handle_key_Now(c) ==
    LET new == cmdq_get_command(2, lists + 1, KeyGroup, FALSE, c)
    IN /\ cur = None
       /\ c \in ToSet(clients)
       /\ Queueing(1)
       /\ list' = [list EXCEPT ![c] = @ \o new]
       /\ TakeAndDrop(ClientsOf(new), <<>>)
       /\ UNCHANGED <<clients, held, loopvars, jobs, signals, freed, failed,
                      leaked, lost>>

(* The key is queued, so that it happens after any commands queued by      *)
(* previous keys.                                                          *)
server_client_handle_key(c) ==
    /\ cur = None
    /\ c \in ToSet(clients)
    /\ Queueing(1)
    /\ list' = [list EXCEPT ![c] = Append(@, cmdq_get_callback("key", c, None))]
    /\ TakeAndDrop(<<c>>, <<>>)
    /\ UNCHANGED <<clients, held, loopvars, jobs, signals, freed, failed,
                   leaked, lost>>

(* notify_add: the entry goes to the end of the global queue, unless the   *)
(* item that cmdq_running finds there runs no hooks.  Evaluated with that  *)
(* answer, the queues to extend, and the client of the entry.              *)
notify_add(dropped, queues, c) ==
    list' = IF dropped THEN queues
            ELSE [queues EXCEPT ![Global] =
                      Append(@, cmdq_get_callback("notify", None, c))]

(* Something outside the queues (a pane's output, a timer) notifies.       *)
EventNotifies ==
    /\ cur = None
    /\ Queueing(1)
    /\ notify_add(RunsNoHooks(Global), list, None)
    /\ lost' = (lost \/ RunsNoHooks(Global))
    /\ UNCHANGED <<clients, held, loopvars, jobs, signals, clientvars, failed>>

(* Mutant: the notification takes no reference to the lost client.         *)
server_client_lost_NoRef(c, attached) ==
    /\ cur = None
    /\ c \in ToSet(clients)
    /\ clients' = Only(clients, Clients \ {c})
    /\ notify_add(RunsNoHooks(Global) \/ ~attached, list, c)
    /\ TakeAndDrop(<<>>, <<c>>)
    /\ UNCHANGED <<held, loopvars, jobs, signals, freed, lists, failed, leaked,
                   lost>>

(* The lost client leaves CLIENTS; if it was attached client-detached is   *)
(* notified first.                                                         *)
server_client_lost(c, attached) ==
    LET dropped == RunsNoHooks(Global)
    IN /\ cur = None
       /\ c \in ToSet(clients)
       /\ clients' = Only(clients, Clients \ {c})
       /\ \/ /\ attached
             /\ notify_add(dropped, list, c)
             /\ TakeAndDrop(IF dropped THEN <<>> ELSE <<c>>, <<c>>)
             /\ lost' = (lost \/ dropped)
          \/ /\ ~attached
             /\ TakeAndDrop(<<>>, <<c>>)
             /\ UNCHANGED <<list, lost>>
       /\ UNCHANGED <<held, loopvars, jobs, signals, freed, lists, failed, leaked>>

server_client_free(c) ==
    /\ cur = None
    /\ freeing[c] > 0
    /\ freeing' = [freeing EXCEPT ![c] = @ - 1]
    /\ freed' = IF refs[c] = 0 THEN freed \cup {c} ELSE freed
    /\ UNCHANGED <<qvars, loopvars, jobs, signals, refs, lists, failed, leaked,
                   lost>>

(* cmdq_continue on the head of q, after inserting new behind it.          *)
Continued(q, new) ==
    [list EXCEPT ![q] = <<[Head(@) EXCEPT !.waiting = FALSE]>> \o new \o Tail(@)]

(* The commands that if-shell chose when its shell exited, or those of     *)
(* run-shell -C when its timer fires.  With -b they go to the end of the   *)
(* client's queue, without it behind the waiting item, which continues.    *)
cmd_if_shell_callback(j) ==
    LET waits == j.queue # None
        head == Head(list[j.queue])
        owner == IF j.client = None THEN Global ELSE j.client
        new == cmdq_get_command(2, lists + 1,
                                IF InBraces /\ ~waits THEN BraceGroup ELSE lists + 1,
                                waits /\ head.nohooks,
                                IF waits THEN head.client ELSE j.client)
    IN /\ cur = None
       /\ j.what = "shell"
       /\ Queueing(1)
       /\ jobs' = jobs \ {j}
       /\ list' = IF waits THEN Continued(j.queue, new)
                           ELSE [list EXCEPT ![owner] = @ \o new]
       /\ TakeAndDrop(ClientsOf(new), <<j.client>>)
       /\ UNCHANGED <<clients, held, loopvars, signals, freed, failed, leaked,
                      lost>>

(* The job is over: the waiting item, if any, continues and the reference  *)
(* is given up.                                                            *)
JobDone(j) ==
    /\ jobs' = jobs \ {j}
    /\ list' = IF j.queue = None THEN list ELSE Continued(j.queue, <<>>)
    /\ TakeAndDrop(<<>>, <<j.client>>)
    /\ UNCHANGED <<clients, held, loopvars, signals, freed, lists, failed,
                   leaked, lost>>

(* The shell of run-shell exited, or that of an if-shell without commands  *)
(* for the outcome.                                                        *)
cmd_run_shell_callback(j) ==
    /\ cur = None
    /\ j.what = "shell"
    /\ JobDone(j)

(* The input ended.                                                        *)
window_pane_input_callback(j) ==
    /\ cur = None
    /\ j.what = "input" /\ j.client \in ToSet(clients)
    /\ JobDone(j)

(* The input ends after the pane has gone, or after the client has: the    *)
(* callback cancels the file, or is not called, and neither continues the  *)
(* item nor gives up the reference.                                        *)
window_pane_input_gone(j) ==
    /\ cur = None
    /\ j.what = "input"
    /\ jobs' = jobs \ {j}
    /\ leaked' = [leaked EXCEPT ![j.client] = @ + 1]
    /\ UNCHANGED <<qvars, loopvars, signals, refs, freeing, freed, lists,
                   failed, lost>>

(* cmd_run_shell_timer when job_run fails: the data is freed, and nobody   *)
(* continues the item.                                                     *)
cmd_run_shell_timer_fails(j) ==
    /\ cur = None
    /\ j.what = "shell"
    /\ jobs' = jobs \ {j}
    /\ TakeAndDrop(<<>>, <<j.client>>)
    /\ UNCHANGED <<qvars, loopvars, signals, freed, lists, failed, leaked, lost>>

-----------------------------------------------------------------------------
(* server_loop and cmdq_next.                                              *)

(* Mutant: the clients are forgotten in the first pass.                    *)
server_loop_GlobalOnly ==
    /\ cur = None
    /\ cur' = Global /\ todo' = <<>> /\ ran' = FALSE
    /\ UNCHANGED <<qvars, jobs, signals, clientvars, lists, failed, lost>>

server_loop ==
    /\ cur = None
    /\ cur' = Global /\ todo' = clients /\ ran' = FALSE
    /\ UNCHANGED <<qvars, jobs, signals, clientvars, lists, failed, lost>>

(* Mutant: a waiting head is run.                                          *)
Runnable_Waiting(q) == list[q] # <<>>

Runnable(q) == list[q] # <<>> /\ ~Head(list[q]).waiting

(* Mutant: one pass over the queues, although an item ran in it.           *)
NextQueue_OnePass ==
    /\ cur # None
    /\ ~Runnable(cur)
    /\ held' = [held EXCEPT ![cur] = @ /\ list[cur] # <<>>]
    /\ \/ /\ todo # <<>>
          /\ cur' = Head(todo) /\ todo' = Tail(todo)
       \/ /\ todo = <<>>
          /\ cur' = None
          /\ UNCHANGED todo
    /\ UNCHANGED <<clients, list, ran, jobs, signals, clientvars, lists, failed,
                   lost>>

(* cmdq_next(cur) returns: visit the next client, start another pass when  *)
(* an item ran in this one, or go back to the event loop.                  *)
NextQueue ==
    /\ cur # None
    /\ ~Runnable(cur)
    /\ held' = [held EXCEPT ![cur] = @ /\ list[cur] # <<>>]
    /\ \/ /\ todo # <<>>
          /\ cur' = Head(todo) /\ todo' = Tail(todo)
          /\ UNCHANGED ran
       \/ /\ todo = <<>> /\ ran
          /\ cur' = Global /\ todo' = clients /\ ran' = FALSE
       \/ /\ todo = <<>> /\ ~ran
          /\ cur' = None
          /\ UNCHANGED <<todo, ran>>
    /\ UNCHANGED <<clients, list, jobs, signals, clientvars, lists, failed, lost>>

(* cmdq_fire_command lends some attached client to an item that has none.  *)
Lent(item) ==
    IF item.client # None THEN {item.client} ELSE ToSet(clients) \cup {None}

(* cmdq_insert_hook: the commands of a hook that is set, unless the item   *)
(* is itself part of a hook.                                               *)
Hook(item, set, run, client) ==
    IF set /\ ~item.nohooks THEN cmdq_get_command(2, run, HookGroup, TRUE, client)
                            ELSE <<>>

Firing(what) ==
    /\ cur # None /\ Runnable(cur)
    /\ ~Head(list[cur]).fired /\ Head(list[cur]).what = what

(* The item at the head of cur has been fired; cmdq_next goes on with q.   *)
Goes(queues, waits) ==
    /\ list' = queues
    /\ held' = [held EXCEPT ![cur] = TRUE]
    /\ ran' = (ran \/ ~waits)
    /\ UNCHANGED <<clients, cur, todo, freed>>

(* A command that succeeds, with its after hook if one is set.  The hook   *)
(* is inserted while the item still has the lent client.                   *)
CommandNormal(l, set) ==
    LET item == Head(list[cur])
        hook == Hook(item, set, lists + 1, l)
    IN /\ Firing("command")
       /\ Queueing(IF hook = <<>> THEN 0 ELSE 1)
       /\ Goes([list EXCEPT ![cur] = hook \o Tail(@)], FALSE)
       /\ TakeAndDrop(ClientsOf(hook), <<item.client>>)
       /\ UNCHANGED <<jobs, signals, failed, leaked, lost>>

(* if-shell -F inserts the commands it chose behind itself; they share its *)
(* state.                                                                  *)
CommandInsert(l) ==
    LET item == Head(list[cur])
        new == cmdq_get_command(2, lists + 1, lists + 1, item.nohooks, l)
    IN /\ Firing("command")
       /\ Queueing(1)
       /\ Goes([list EXCEPT ![cur] = new \o Tail(@)], FALSE)
       /\ TakeAndDrop(ClientsOf(new), <<item.client>>)
       /\ UNCHANGED <<jobs, signals, failed, leaked, lost>>

(* A command that fails: the rest of its group goes, and the command-error *)
(* hook is inserted after the lent client was taken back.  leak is the     *)
(* client that if-shell does not unref when its job cannot start.          *)
CommandError(leak, set) ==
    LET item == Head(list[cur])
        rest == Tail(list[cur])
        hook == Hook(item, set, lists + 1, item.client)
    IN /\ Firing("command")
       /\ Queueing(IF hook = <<>> THEN 0 ELSE 1)
       /\ Goes([list EXCEPT ![cur] = hook \o cmdq_remove_group(item, rest)], FALSE)
       /\ TakeAndDrop(Append(ClientsOf(hook), leak),
                      <<item.client>> \o ClientsOf(Removed(item, rest)))
       /\ leaked' = [c \in Clients |-> leaked[c] + IF c = leak THEN 1 ELSE 0]
       /\ failed' = failed \cup {item.run}
       /\ UNCHANGED <<jobs, signals, lost>>

(* A command that waits: on a wait channel (channel = TRUE) or for a job,  *)
(* which takes a reference to the item's client, lent or not.              *)
CommandWait(channel, l) ==
    LET item == Head(list[cur])
        waiter == [item EXCEPT !.fired = TRUE, !.waiting = TRUE]
    IN /\ Firing("command")
       /\ Goes([list EXCEPT ![cur] = <<waiter>> \o Tail(@)], TRUE)
       /\ \/ /\ channel /\ l # None
             /\ signals' = signals \cup {cur}
             /\ UNCHANGED <<jobs, refs, freeing>>
          \/ /\ ~channel
             /\ jobs' = jobs \cup {Job("shell", cur, l)}
             /\ TakeAndDrop(<<l>>, <<>>)
             /\ UNCHANGED signals
       /\ UNCHANGED <<lists, failed, leaked, lost>>

(* split-window -I: the new pane is notified, the after-split-window hook  *)
(* is inserted and the item waits for input.                               *)
CommandInput(l, set) ==
    LET item == Head(list[cur])
        hook == Hook(item, set, lists + 2, l)
        waiter == [item EXCEPT !.fired = TRUE, !.waiting = TRUE]
        dropped == IF cur = Global THEN item.nohooks ELSE RunsNoHooks(Global)
    IN /\ Firing("command") /\ l # None
       /\ Queueing(IF hook = <<>> THEN 1 ELSE 2)
       /\ notify_add(dropped, [list EXCEPT ![cur] = <<waiter>> \o hook \o Tail(@)],
                     None)
       /\ Goes(list', TRUE)
       /\ lost' = (lost \/ (dropped /\ cur # Global))
       /\ jobs' = jobs \cup {Job("input", cur, l)}
       /\ TakeAndDrop(Append(ClientsOf(hook), l), <<>>)
       /\ UNCHANGED <<signals, failed, leaked>>

(* With -b the job holds the target client and the item is done.           *)
CommandBackground(tc) ==
    LET item == Head(list[cur])
        first == Job("shell", None, tc)
        job == [first EXCEPT !.again = first \in jobs]
    IN /\ Firing("command")
       /\ job \notin jobs /\ Cardinality(jobs) < MaxJobs
       /\ Goes([list EXCEPT ![cur] = Tail(@)], FALSE)
       /\ jobs' = jobs \cup {job}
       /\ TakeAndDrop(<<tc>>, <<item.client>>)
       /\ UNCHANGED <<signals, lists, failed, leaked, lost>>

(* A command that notifies (a new window, a renamed session...).           *)
CommandNotify ==
    LET item == Head(list[cur])
        dropped == IF cur = Global THEN item.nohooks ELSE RunsNoHooks(Global)
    IN /\ Firing("command")
       /\ Queueing(1)
       /\ notify_add(dropped, [list EXCEPT ![cur] = Tail(@)], None)
       /\ Goes(list', FALSE)
       /\ lost' = (lost \/ (dropped /\ cur # Global))
       /\ TakeAndDrop(<<>>, <<item.client>>)
       /\ UNCHANGED <<jobs, signals, failed, leaked>>

(* wait-for -S: continue the head of another queue.                        *)
CommandSignal(q) ==
    LET item == Head(list[cur])
    IN /\ Firing("command")
       /\ q \in signals
       /\ signals' = signals \ {q}
       /\ Goes([Continued(q, <<>>) EXCEPT ![cur] = Tail(@)], FALSE)
       /\ TakeAndDrop(<<>>, <<item.client>>)
       /\ UNCHANGED <<jobs, lists, failed, leaked, lost>>

(* Mutant: the reference of the notification entry is kept.                *)
notify_callback_KeepRef(set) ==
    LET item == Head(list[cur])
        hook == Hook(item, set, lists + 1, item.client)
    IN /\ Firing("notify")
       /\ Queueing(IF hook = <<>> THEN 0 ELSE 1)
       /\ Goes([list EXCEPT ![cur] = hook \o Tail(@)], FALSE)
       /\ TakeAndDrop(ClientsOf(hook), <<item.client>>)
       /\ UNCHANGED <<jobs, signals, failed, leaked, lost>>

(* notify_callback: expand the hook, give up the entry's references.       *)
notify_callback(set) ==
    LET item == Head(list[cur])
        hook == Hook(item, set, lists + 1, item.client)
    IN /\ Firing("notify")
       /\ Queueing(IF hook = <<>> THEN 0 ELSE 1)
       /\ Goes([list EXCEPT ![cur] = hook \o Tail(@)], FALSE)
       /\ TakeAndDrop(ClientsOf(hook), <<item.data, item.client>>)
       /\ UNCHANGED <<jobs, signals, failed, leaked, lost>>

(* A queued key comes to its turn; the commands it is bound to, if any,    *)
(* are inserted behind it.                                                 *)
server_client_key_callback(bound) ==
    LET item == Head(list[cur])
        new == IF bound THEN cmdq_get_command(2, lists + 1, KeyGroup, FALSE, item.client)
                        ELSE <<>>
    IN /\ Firing("key")
       /\ Queueing(IF bound THEN 1 ELSE 0)
       /\ Goes([list EXCEPT ![cur] = new \o Tail(@)], FALSE)
       /\ TakeAndDrop(ClientsOf(new), <<item.client>>)
       /\ UNCHANGED <<jobs, signals, failed, leaked, lost>>

server_client_command_done ==
    /\ Firing("done")
    /\ Goes([list EXCEPT ![cur] = Tail(@)], FALSE)
    /\ TakeAndDrop(<<>>, <<Head(list[cur]).client>>)
    /\ UNCHANGED <<jobs, signals, lists, failed, leaked, lost>>

(* The head waited and was continued: it is removed without a second run.  *)
RemoveFired ==
    /\ cur # None /\ Runnable(cur) /\ Head(list[cur]).fired
    /\ list' = [list EXCEPT ![cur] = Tail(@)]
    /\ held' = [held EXCEPT ![cur] = TRUE]
    /\ TakeAndDrop(<<>>, <<Head(list[cur]).client>>)
    /\ UNCHANGED <<clients, loopvars, jobs, signals, freed, lists, failed,
                   leaked, lost>>

CallbackStep ==
    \/ \E c \in Clients : \/ server_client_create(c)
                          \/ server_client_dispatch_command(c)
                          \/ server_client_handle_key(c)
                          \/ \E a \in BOOLEAN : server_client_lost(c, a)
                          \/ server_client_free(c)
    \/ EventNotifies
    \/ \E j \in jobs : \/ cmd_if_shell_callback(j)
                       \/ cmd_run_shell_callback(j)
                       \/ window_pane_input_callback(j)
                       \/ window_pane_input_gone(j)
                       \/ cmd_run_shell_timer_fails(j)

FireStep ==
    \/ \E l \in Lent(Head(list[cur])), set \in BOOLEAN :
           \/ CommandNormal(l, set) \/ CommandInput(l, set)
           \/ CommandError(None, set) \/ CommandError(l, set)
           \/ CommandInsert(l)
           \/ \E channel \in BOOLEAN : CommandWait(channel, l)
    \/ \E tc \in ToSet(clients) \cup {None} : CommandBackground(tc)
    \/ CommandNotify
    \/ \E q \in signals : CommandSignal(q)
    \/ \E set \in BOOLEAN : notify_callback(set) \/ server_client_key_callback(set)
    \/ server_client_command_done

LoopStep ==
    \/ NextQueue
    \/ RemoveFired
    \/ cur # None /\ Runnable(cur) /\ FireStep

Next == CallbackStep \/ server_loop \/ LoopStep

Spec == Init /\ [][Next]_vars

(* proc_loop calls server_loop after every turn of the event loop, and the *)
(* loop itself goes on until no queue ran an item.                         *)
FairSpec == Spec /\ WF_vars(server_loop) /\ WF_vars(LoopStep)

-----------------------------------------------------------------------------
TypeOK ==
    /\ clients \in Seq(Clients)
    /\ list \in [Queues -> Seq(Items)]
    /\ held \in [Queues -> BOOLEAN]
    /\ cur \in Queues \cup {None} /\ todo \in Seq(Clients) /\ ran \in BOOLEAN
    /\ jobs \subseteq Jobs /\ signals \subseteq Queues
    /\ refs \in [Clients -> Nat] /\ freeing \in [Clients -> Nat]
    /\ freed \subseteq Clients /\ lists \in 0 .. MaxLists
    /\ failed \subseteq Nat /\ leaked \in [Clients -> Nat] /\ lost \in BOOLEAN

(* How many places keep a pointer to client c: CLIENTS, the items of any   *)
(* queue, the notifications queued about it and the jobs started for it.   *)
Uses(c) ==
    LET places == UNION {{<<q, i>> : i \in DOMAIN list[q]} : q \in Queues}
        At(p) == list[p[1]][p[2]]
    IN Cardinality({c} \cap ToSet(clients))
         + Cardinality({p \in places : At(p).client = c})
         + Cardinality({p \in places : At(p).data = c})
         + Cardinality({j \in jobs : j.client = c})

(* Every pointer to a client is backed by a reference, through lent        *)
(* clients, removed groups, hooks and jobs; the only surplus is what       *)
(* if-shell leaks when its job does not start and split-window -I when its *)
(* pane or client goes.                                                    *)
RefsExact == \A c \in Clients : refs[c] = Uses(c) + leaked[c]

(* A client is freed once, when nothing points at it, and cmdq_free finds  *)
(* its queue empty (the code aborts with "queue not empty" otherwise).     *)
FreeIsSafe ==
    \A c \in Clients :
        /\ freeing[c] + Cardinality({c} \cap freed) <= 1
        /\ freeing[c] = 1 \/ c \in freed => Uses(c) = 0 /\ list[c] = <<>>

(* Whoever will call cmdq_continue points at the head of a queue, which is *)
(* waiting for nobody else: the item it continues was never freed.  Only   *)
(* the head can have run, so no command runs twice.                        *)
WakersAreValid ==
    \A q \in Queues :
        LET waits == {j \in jobs : j.queue = q}
        IN /\ Cardinality(waits) + Cardinality({q} \cap signals) <= 1
           /\ waits # {} \/ q \in signals =>
                  list[q] # <<>> /\ Head(list[q]).waiting
           /\ \A i \in DOMAIN list[q] :
                  /\ list[q][i].fired => i = 1
                  /\ list[q][i].waiting => list[q][i].fired

(* An error cancels its own list and no other.  After a command failed     *)
(* nothing of its list is left to run, whatever was inserted between its   *)
(* commands; and two queued items of one group come from one queued list,  *)
(* although hooks and key bindings queue the same group again and again    *)
(* and a run of them may wait for long.                                    *)
ErrorsStopTheirList ==
    \A q \in Queues : \A i, j \in DOMAIN list[q] :
        /\ list[q][i].run \notin failed
        /\ list[q][i].group = list[q][j].group /\ list[q][i].group # 0
              => list[q][i].run = list[q][j].run

(* The commands of one list stay in order, and only lists queued later     *)
(* (inserted by its own commands) come between them.                       *)
ListsInOrder ==
    \A q \in Queues : \A i, j \in DOMAIN list[q] :
        (i < j /\ list[q][i].run = list[q][j].run /\ list[q][i].run # 0) =>
            /\ list[q][i].pos < list[q][j].pos
            /\ \A k \in i .. j : list[q][k].run >= list[q][i].run

(* server_loop goes back to sleep only when every live queue is empty or   *)
(* waiting, except for notifications of a command that itself waits: those *)
(* stay until the next event.                                              *)
SleepsWhenIdle ==
    [][cur # None /\ cur' = None =>
          \A q \in ToSet(clients) \cup {Global} : Runnable(q) =>
              q = Global /\ \A i \in DOMAIN list[q] : list[q][i].what = "notify"]_vars

(* A queue that can run is run: its head is removed or starts to wait,     *)
(* unless its client is lost.                                              *)
QueuesDrain ==
    \A q \in Queues :
        Runnable(q) ~> (~Runnable(q) \/ q \notin ToSet(clients) \cup {Global})

(* "If a command in the sequence encounters an error, no subsequent        *)
(* commands are executed" (vendor/tmux/tmux.1): what leaves a queue other  *)
(* than at its head is part of the sequence that the head is part of.      *)
OnlyTheSequenceStops ==
    [][\A q \in Queues : \A i \in 2 .. Len(list[q]) :
          list[q][i] \in ToSet(list'[q]) \/ list[q][i].run = Head(list[q]).run]_vars

(* A notification raised while no hook is running is queued: cmdq_running  *)
(* is "the running item if any" (vendor/tmux/cmd-queue.c).                 *)
NotificationsKept == ~lost
=============================================================================
