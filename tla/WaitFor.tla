------------------------------ MODULE WaitFor ------------------------------
(***************************************************************************)
(* The wait channels of `wait-for` (src/src/ported/cmd_wait_for.rs).       *)
(*                                                                         *)
(* Commands run from command queues: one per client, and the global queue  *)
(* (configuration, hooks, timers).  At most the head item of a queue is    *)
(* waiting, so a wait_item is identified here by the queue it blocks.      *)
(* The server is single threaded: a whole cmd_wait_for_exec is one step.   *)
(***************************************************************************)
EXTENDS Naturals, Sequences, FiniteSets, SequencesExt

CONSTANTS Clients,   \* the clients, each with its own command queue
          Global,    \* the queue of commands that belong to no client
          Channels   \* channel names

ASSUME GlobalAssumption == Global \notin Clients

Queues == Clients \cup {Global}

VARIABLES
    exists,   \* the channels in WAIT_CHANNELS
    locked,   \* wait_channel.locked
    woken,    \* wait_channel.woken
    waiters,  \* wait_channel.waiters, as queues
    lockers,  \* wait_channel.lockers, as queues
    waiting,  \* the queues whose head item has CMDQ_WAITING
    dead,     \* the clients lost while the server runs
    granted,  \* history: the queues told they hold each channel's lock
    flushed   \* history: cmd_wait_for_flush has run

vars ==
    <<exists, locked, woken, waiters, lockers, waiting, dead, granted, flushed>>

TypeOK ==
    /\ exists \subseteq Channels
    /\ locked \in [Channels -> BOOLEAN]
    /\ woken \in [Channels -> BOOLEAN]
    /\ waiters \in [Channels -> Seq(Queues)]
    /\ lockers \in [Channels -> Seq(Queues)]
    /\ waiting \subseteq Queues
    /\ dead \subseteq Clients
    /\ granted \in [Channels -> SUBSET Queues]
    /\ flushed \in BOOLEAN

Init ==
    /\ exists = {}
    /\ locked = [ch \in Channels |-> FALSE]
    /\ woken = [ch \in Channels |-> FALSE]
    /\ waiters = [ch \in Channels |-> <<>>]
    /\ lockers = [ch \in Channels |-> <<>>]
    /\ waiting = {}
    /\ dead = {}
    /\ granted = [ch \in Channels |-> {}]
    /\ flushed = FALSE

-----------------------------------------------------------------------------
(* Mutants: cmdq_next runs a waiting head; a removal that ignores the lock. *)
CanRun_Waiting(q) == q \notin dead
Removed_Locked(l, w, ws) == w /\ ws = <<>>

(* A queue runs a command only while its head is not waiting; the queue of *)
(* a lost client is never run again.                                       *)
CanRun(q) == q \notin waiting /\ q \notin dead

(* cmdq_fire_command lends an attached client to an item of the global     *)
(* queue while it runs; with none, wait-for refuses to block that queue.   *)
MayBlock(q) == q \in Clients \/ Clients \ dead # {}

(* cmd_wait_for_remove: the channel stays while it is locked, has waiters, *)
(* or was not woken.  l, w and ws are the channel's values when called.    *)
Removed(l, w, ws) == ~l /\ w /\ ws = <<>>

(* Dropping the channel loses woken: a later add starts from false.        *)
cmd_wait_for_remove(ch, l, w, ws) ==
    /\ woken' = [woken EXCEPT ![ch] = w /\ ~Removed(l, w, ws)]
    /\ exists' = IF Removed(l, w, ws) THEN exists \ {ch} ELSE exists \cup {ch}

cmd_wait_for_signal(q, ch) ==
    /\ CanRun(q)
    /\ \/ /\ waiters[ch] = <<>> /\ ~woken[ch]
          /\ woken' = [woken EXCEPT ![ch] = TRUE]
          /\ exists' = exists \cup {ch}
          /\ UNCHANGED <<waiters, waiting>>
       \/ /\ waiters[ch] # <<>> \/ woken[ch]
          /\ waiting' = waiting \ ToSet(waiters[ch])
          /\ waiters' = [waiters EXCEPT ![ch] = <<>>]
          /\ cmd_wait_for_remove(ch, locked[ch], woken[ch], <<>>)
    /\ UNCHANGED <<locked, lockers, dead, granted, flushed>>

(* wait-for CHANNEL: consume a pending signal or block the queue.          *)
cmd_wait_for_wait(q, ch) ==
    /\ CanRun(q) /\ MayBlock(q)
    /\ \/ /\ woken[ch]
          /\ cmd_wait_for_remove(ch, locked[ch], woken[ch], waiters[ch])
          /\ UNCHANGED <<waiters, waiting>>
       \/ /\ ~woken[ch]
          /\ exists' = exists \cup {ch}
          /\ waiters' = [waiters EXCEPT ![ch] = Append(@, q)]
          /\ waiting' = waiting \cup {q}
          /\ UNCHANGED woken
    /\ UNCHANGED <<locked, lockers, dead, granted, flushed>>

cmd_wait_for_lock(q, ch) ==
    /\ CanRun(q) /\ MayBlock(q)
    /\ exists' = exists \cup {ch}
    /\ \/ /\ locked[ch]
          /\ lockers' = [lockers EXCEPT ![ch] = Append(@, q)]
          /\ waiting' = waiting \cup {q}
          /\ UNCHANGED <<locked, granted>>
       \/ /\ ~locked[ch]
          /\ locked' = [locked EXCEPT ![ch] = TRUE]
          /\ granted' = [granted EXCEPT ![ch] = @ \cup {q}]
          /\ UNCHANGED <<lockers, waiting>>
    /\ UNCHANGED <<woken, waiters, dead, flushed>>

(* Unlocking releases q's own grant; whoever unlocks for somebody else     *)
(* (the command does not check) releases that queue's grant.               *)
Release(q, ch) == IF q \in granted[ch] THEN granted[ch] \ {q} ELSE {}

(* Mutant: the lock is released although somebody is queued for it.        *)
cmd_wait_for_unlock_NoHandover(q, ch) ==
    /\ CanRun(q) /\ locked[ch]
    /\ locked' = [locked EXCEPT ![ch] = FALSE]
    /\ granted' = [granted EXCEPT ![ch] = Release(q, ch)]
    /\ UNCHANGED <<exists, woken, waiters, lockers, waiting, dead, flushed>>

(* Mutant: the first locker continues but the channel is left unlocked.    *)
cmd_wait_for_unlock_Unlocked(q, ch) ==
    /\ CanRun(q) /\ locked[ch] /\ lockers[ch] # <<>>
    /\ waiting' = waiting \ {Head(lockers[ch])}
    /\ lockers' = [lockers EXCEPT ![ch] = Tail(@)]
    /\ locked' = [locked EXCEPT ![ch] = FALSE]
    /\ granted' = [granted EXCEPT ![ch] = Release(q, ch) \cup {Head(lockers[ch])}]
    /\ UNCHANGED <<exists, woken, waiters, dead, flushed>>

cmd_wait_for_unlock(q, ch) ==
    /\ CanRun(q)
    /\ locked[ch]
    /\ \/ /\ lockers[ch] # <<>>
          /\ waiting' = waiting \ {Head(lockers[ch])}
          /\ lockers' = [lockers EXCEPT ![ch] = Tail(@)]
          /\ granted' = [granted EXCEPT ![ch] =
                            Release(q, ch) \cup {Head(lockers[ch])}]
          /\ UNCHANGED <<exists, locked, woken>>
       \/ /\ lockers[ch] = <<>>
          /\ locked' = [locked EXCEPT ![ch] = FALSE]
          /\ granted' = [granted EXCEPT ![ch] = Release(q, ch)]
          /\ cmd_wait_for_remove(ch, FALSE, woken[ch], waiters[ch])
          /\ UNCHANGED <<lockers, waiting>>
    /\ UNCHANGED <<waiters, dead, flushed>>

(* Server exit: every waiter and locker continues and every channel goes.  *)
cmd_wait_for_flush ==
    /\ waiting' = waiting \ UNION {ToSet(waiters[ch]) \cup ToSet(lockers[ch]) :
                                       ch \in exists}
    /\ granted' = [ch \in Channels |-> granted[ch] \cup ToSet(lockers[ch])]
    /\ waiters' = [ch \in Channels |-> <<>>]
    /\ lockers' = [ch \in Channels |-> <<>>]
    /\ woken' = [ch \in Channels |-> FALSE]
    /\ locked' = [ch \in Channels |-> FALSE]
    /\ exists' = {}
    /\ flushed' = TRUE
    /\ UNCHANGED dead

(* server_client_lost unlinks the client from CLIENTS, so its queue is     *)
(* never run again, but a waiting item stays where it is.                  *)
server_client_lost(c) ==
    /\ c \notin dead
    /\ dead' = dead \cup {c}
    /\ UNCHANGED <<exists, locked, woken, waiters, lockers, waiting, granted,
                   flushed>>

Next ==
    \/ \E q \in Queues, ch \in Channels :
           \/ cmd_wait_for_signal(q, ch)
           \/ cmd_wait_for_wait(q, ch)
           \/ cmd_wait_for_lock(q, ch)
           \/ cmd_wait_for_unlock(q, ch)
    \/ \E c \in Clients : server_client_lost(c)
    \/ cmd_wait_for_flush

Spec == Init /\ [][Next]_vars

-----------------------------------------------------------------------------
(* The queues that channel ch makes wait.                                  *)
Blocked(ch) == ToSet(waiters[ch]) \cup ToSet(lockers[ch])

(* The CMDQ_WAITING flag and the wait lists agree: a queue is waiting      *)
(* exactly when one list of one channel holds its item, once.  An item     *)
(* on no list would never continue; an item on two would be continued      *)
(* again after cmdq_next has freed it.                                     *)
WaitersOnce ==
    /\ waiting = UNION {Blocked(ch) : ch \in Channels}
    /\ \A ch \in Channels :
           /\ IsInjective(waiters[ch]) /\ IsInjective(lockers[ch])
           /\ ToSet(waiters[ch]) \cap ToSet(lockers[ch]) = {}
    /\ \A ch, d \in Channels : ch # d => Blocked(ch) \cap Blocked(d) = {}

(* A channel that is not in the tree holds nothing: nobody waits for it,   *)
(* no lock and no signal was lost when cmd_wait_for_remove freed it.       *)
NothingLost ==
    \A ch \in Channels \ exists :
        /\ waiters[ch] = <<>> /\ lockers[ch] = <<>>
        /\ ~locked[ch] /\ ~woken[ch]

(* Nobody waits for what is already there: no waiter on a channel that     *)
(* has a pending signal, no locker of a channel that is not locked.        *)
NoNeedlessWait ==
    \A ch \in Channels : /\ woken[ch] => waiters[ch] = <<>>
                         /\ lockers[ch] # <<>> => locked[ch]

(* At most one queue holds the lock of a channel, and it holds it as long  *)
(* as the channel is locked, until the server flushes on its way out.      *)
MutualExclusion ==
    ~flushed => \A ch \in Channels :
        /\ locked[ch] <=> granted[ch] # {}
        /\ \A p, q \in granted[ch] : p = q
=============================================================================
