----------------------------- MODULE EventLoop -----------------------------
(***************************************************************************)
(* The event loop that replaces libevent in the server and in every client *)
(* (src/src/extensions/event_loop/base.rs, backend.rs).                    *)
(*                                                                         *)
(* An event is memory of its caller.  The loop keeps two tables keyed by   *)
(* its address: the registrations (pending) and the queue of callbacks     *)
(* that are due (active).  Callbacks call back into the event_* functions, *)
(* free events, and are interrupted by signal handlers.                    *)
(***************************************************************************)
EXTENDS Naturals, Sequences, SequencesExt, FiniteSets, Filters

CONSTANTS Events,     \* addresses of struct event
          Signals,    \* signal numbers
          MaxCalls    \* bound on the calls of the event_* functions

ASSUME EventsAssumption == IsFiniteSet(Events)
ASSUME SignalsAssumption == Signals \cap {"zeroed", "timer", "read", "watch"} = {}
ASSUME MaxCallsNat == MaxCalls \in Nat

(* What event_set stores: a timer, a descriptor watched once or            *)
(* persistently, or a signal (persistent), or nothing in zeroed memory.    *)
Confs == {"zeroed", "timer", "read", "watch"} \cup Signals

VARIABLES
    alive,     \* the events whose memory is allocated
    once,      \* the events among them that belong to an OnceEvent
    conf,      \* ev_fd, ev_events and ev_callback
    flag,      \* EVLIST_PENDING is set in ev_flags
    gen,       \* ev_gen
    pending,   \* base.pending
    active,    \* base.active
    next_gen,  \* base.next_gen
    phase,     \* where run_one_turn stands
    running,   \* the OnceEvent of the callback that runs, if it has one
    got,       \* events whose descriptor the wait found ready
    installed, \* signals with handle_signal as their handler
    raised,    \* SIGNALS_RAISED
    pipe,      \* the wakeup pipe holds a byte
    stranded,  \* history: signals raised when event_reinit emptied the pipe
    calls      \* calls so far

tables == <<pending, active, next_gen>>
memory == <<alive, once, conf, flag, gen>>
signalvars == <<installed, raised, pipe, stranded>>
vars == <<alive, once, conf, flag, gen, pending, active, next_gen, phase,
          running, got, installed, raised, pipe, stranded, calls>>

Init ==
    /\ alive = {} /\ once = {}
    /\ conf = [e \in Events |-> "zeroed"]
    /\ flag = [e \in Events |-> FALSE]
    /\ gen = [e \in Events |-> 0]
    /\ pending = <<>> /\ active = <<>> /\ next_gen = 1
    /\ phase = "out" /\ running = {}
    /\ got = {}
    /\ installed = {} /\ raised = {} /\ pipe = FALSE /\ stranded = {}
    /\ calls = 0

-----------------------------------------------------------------------------
(* The event_* functions, called from a callback or between two turns.     *)

Calling ==
    /\ phase \in {"out", "callback"}
    /\ calls < MaxCalls /\ calls' = calls + 1
    /\ UNCHANGED <<phase, running, got, raised, pipe, stranded>>

Scrub(queue, e) == Only(queue, {a \in ToSet(queue) : a.ev # e})
Without(table, e) == [d \in DOMAIN table \ {e} |-> table[d]]
IsSignal(e) == conf[e] \in Signals
Watched(table, s) == \E d \in DOMAIN table : conf[d] = s

(* Mutant: the activations that are queued stay queued.                    *)
Deleted_KeepActive(e) ==
    /\ pending' = Without(pending, e)
    /\ active' = active
    /\ installed' = IF IsSignal(e) /\ ~Watched(pending', conf[e])
                    THEN installed \ {conf[e]} ELSE installed

(* event_del without the flag: out of both tables, and the default         *)
(* disposition is restored with the last event of a signal.                *)
Deleted(e) ==
    /\ pending' = Without(pending, e)
    /\ active' = Scrub(active, e)
    /\ installed' = IF IsSignal(e) /\ ~Watched(pending', conf[e])
                    THEN installed \ {conf[e]} ELSE installed

(* The owner allocates zeroed memory that holds the event.                 *)
alloc(e) ==
    /\ phase \in {"out", "callback"}
    /\ e \notin alive
    /\ alive' = alive \cup {e}
    /\ conf' = [conf EXCEPT ![e] = "zeroed"]
    /\ flag' = [flag EXCEPT ![e] = FALSE]
    /\ gen' = [gen EXCEPT ![e] = 0]
    /\ UNCHANGED <<once, tables, phase, running, got, signalvars, calls>>

(* The event belongs to a caller that can still reach it: event_once keeps *)
(* its events to itself.                                                   *)
Owned(e) == e \in alive \ once

(* A registered event is deleted before it gets a new configuration.       *)
event_set(e, c) ==
    /\ Calling
    /\ Owned(e)
    /\ IF flag[e] THEN Deleted(e) ELSE UNCHANGED <<pending, active, installed>>
    /\ conf' = [conf EXCEPT ![e] = c]
    /\ flag' = [flag EXCEPT ![e] = FALSE]
    /\ UNCHANGED <<alive, once, gen, next_gen>>

(* Mutant: a registration keeps what was queued for the earlier one.       *)
event_add_KeepActive(e, timed) ==
    /\ Calling
    /\ Owned(e) /\ conf[e] # "zeroed"
    /\ pending' = [d \in DOMAIN pending \cup {e} |->
                       IF d = e THEN [generation |-> next_gen, timed |-> timed,
                                      late |-> FALSE]
                       ELSE pending[d]]
    /\ gen' = [gen EXCEPT ![e] = next_gen]
    /\ next_gen' = next_gen + 1
    /\ flag' = [flag EXCEPT ![e] = TRUE]
    /\ installed' = installed \cup ({conf[e]} \cap Signals)
    /\ UNCHANGED <<alive, once, conf, active>>

(* A new registration, with a deadline when timed.                         *)
Registered(e, timed) ==
    [d \in DOMAIN pending \cup {e} |->
        IF d = e THEN [generation |-> next_gen, timed |-> timed, late |-> FALSE]
        ELSE pending[d]]

event_add(e, timed) ==
    /\ Calling
    /\ Owned(e) /\ conf[e] # "zeroed"
    /\ pending' = Registered(e, timed)
    /\ active' = Scrub(active, e)
    /\ gen' = [gen EXCEPT ![e] = next_gen]
    /\ next_gen' = next_gen + 1
    /\ flag' = [flag EXCEPT ![e] = TRUE]
    /\ installed' = installed \cup ({conf[e]} \cap Signals)
    /\ UNCHANGED <<alive, once, conf>>

event_del(e) ==
    /\ Calling
    /\ Owned(e)
    /\ Deleted(e)
    /\ flag' = [flag EXCEPT ![e] = FALSE]
    /\ UNCHANGED <<alive, once, conf, gen, next_gen>>

(* The owner goes away: event_del, then the memory is freed.               *)
del_and_free(e) ==
    /\ Calling
    /\ Owned(e)
    /\ Deleted(e)
    /\ flag' = [flag EXCEPT ![e] = FALSE]
    /\ alive' = alive \ {e}
    /\ UNCHANGED <<once, conf, gen, next_gen>>

(* An entry of the active queue; ready if the loop found it due (history). *)
Active(e, generation, ready) ==
    [ev |-> e, generation |-> generation, ready |-> ready]

event_active(e) ==
    /\ Calling
    /\ Owned(e) /\ conf[e] # "zeroed"
    /\ active' = Append(active, Active(e, gen[e], FALSE))
    /\ UNCHANGED <<memory, pending, next_gen, installed>>

(* A fresh event of the loop's own.  A timeout of zero is registered       *)
(* without a deadline and queued at once.                                  *)
event_once(e, c, immediate) ==
    /\ Calling
    /\ e \notin alive
    /\ c \in {"timer", "read"} /\ (immediate => c = "timer")
    /\ alive' = alive \cup {e} /\ once' = once \cup {e}
    /\ conf' = [conf EXCEPT ![e] = c]
    /\ flag' = [flag EXCEPT ![e] = TRUE]
    /\ gen' = [gen EXCEPT ![e] = next_gen]
    /\ next_gen' = next_gen + 1
    /\ pending' = Registered(e, c = "timer" /\ ~immediate)
    /\ active' = IF immediate THEN Append(active, Active(e, next_gen, FALSE))
                              ELSE active
    /\ UNCHANGED installed

(* event_reinit, after fork: a new pipe, and the handlers again.  The bits *)
(* in SIGNALS_RAISED stay without a byte that would make the loop look.    *)
event_reinit ==
    /\ phase = "out" /\ calls < MaxCalls /\ calls' = calls + 1
    /\ pipe' = FALSE
    /\ stranded' = raised
    /\ installed' = installed \cup ({conf[e] : e \in DOMAIN pending} \cap Signals)
    /\ UNCHANGED <<memory, tables, phase, running, got, raised>>

-----------------------------------------------------------------------------
(* run_one_turn.                                                           *)

(* Mutant: the loop waits although callbacks are due.                      *)
event_loop_AlwaysWaits ==
    /\ phase = "out"
    /\ phase' = "wait"
    /\ UNCHANGED <<memory, tables, running, got, signalvars, calls>>

(* What is queued already runs without waiting.                            *)
event_loop ==
    /\ phase = "out"
    /\ phase' = IF active = <<>> THEN "wait" ELSE "dispatch"
    /\ UNCHANGED <<memory, tables, running, got, signalvars, calls>>

Persistent(e) == conf[e] = "watch" \/ IsSignal(e)
Descriptors == {e \in DOMAIN pending : conf[e] \in {"read", "watch"}}
Late(e) == pending[e].late

(* backend::wait returns because of the pipe, a descriptor or a deadline.  *)
Wait(ready) ==
    /\ phase = "wait"
    /\ ready \subseteq Descriptors
    /\ pipe \/ ready # {} \/ \E e \in DOMAIN pending : Late(e)
    /\ got' = ready
    /\ phase' = IF pipe THEN "drain" ELSE "activate"
    /\ UNCHANGED <<memory, tables, running, signalvars, calls>>

drain_signal_pipe ==
    /\ phase = "drain"
    /\ pipe' = FALSE
    /\ phase' = "swap"
    /\ UNCHANGED <<memory, tables, running, got, installed, raised,
                   stranded, calls>>

(* The entries of the events in ready, in registration order.              *)
InOrder(ready) ==
    LET entries == {Active(e, pending[e].generation, TRUE) : e \in ready}
    IN {due \in [1 .. Cardinality(entries) -> entries] :
            \A i, j \in DOMAIN due :
                i < j => due[i].generation < due[j].generation}

(* What activate_ready leaves in the tables when the events of ready are   *)
(* due: queued in registration order; the one-shots are unregistered.      *)
Activated(ready) ==
    LET gone == {e \in ready : ~Persistent(e)}
    IN /\ \E due \in InOrder(ready) : active' = active \o due
       /\ pending' = [e \in DOMAIN pending \ gone |->
                          [pending[e] EXCEPT !.late = @ /\ e \notin ready]]
       /\ flag' = [e \in Events |-> flag[e] /\ e \notin gone]

(* The signal bits are read only after a wakeup through the pipe.          *)
activate_ready ==
    /\ phase \in {"swap", "activate"}
    /\ LET taken == IF phase = "swap" THEN raised ELSE {}
       IN /\ Activated({e \in DOMAIN pending :
                            e \in got \/ Late(e) \/ conf[e] \in taken})
          /\ raised' = raised \ taken
          /\ stranded' = stranded \ taken
    /\ phase' = "dispatch" /\ got' = {}
    /\ UNCHANGED <<alive, once, conf, gen, next_gen, running, installed, pipe,
                   calls>>

(* dispatch takes one entry.  An entry of an earlier registration is       *)
(* dropped; event_once_trampoline deletes its event before the callback.   *)
dispatch ==
    /\ phase = "dispatch" /\ active # <<>>
    /\ LET a == Head(active)
           e == a.ev
           runs == gen[e] = a.generation /\ conf[e] # "zeroed"
       IN /\ phase' = IF runs THEN "callback" ELSE "dispatch"
          /\ running' = IF runs THEN once \cap {e} ELSE {}
          /\ IF runs /\ e \in once
             THEN /\ pending' = Without(pending, e)
                  /\ active' = Scrub(Tail(active), e)
                  /\ flag' = [flag EXCEPT ![e] = FALSE]
             ELSE /\ active' = Tail(active)
                  /\ UNCHANGED <<pending, flag>>
    /\ UNCHANGED <<alive, once, conf, gen, next_gen, got, signalvars, calls>>

(* The callback returns; an OnceEvent is freed.                            *)
CallbackReturns ==
    /\ phase = "callback"
    /\ phase' = "dispatch" /\ running' = {}
    /\ alive' = alive \ running
    /\ once' = once \ running
    /\ UNCHANGED <<conf, flag, gen, tables, got, signalvars, calls>>

EndTurn ==
    /\ phase = "dispatch" /\ active = <<>>
    /\ phase' = "out"
    /\ UNCHANGED <<memory, tables, running, got, signalvars, calls>>

-----------------------------------------------------------------------------
(* The world: the clock, and signals, which interrupt the process between  *)
(* any two steps.                                                          *)

Deadline(e) ==
    /\ e \in DOMAIN pending /\ pending[e].timed /\ ~Late(e)
    /\ pending' = [pending EXCEPT ![e].late = TRUE]
    /\ UNCHANGED <<memory, active, next_gen, phase, running, got,
                   signalvars, calls>>

(* Mutant: the bit is recorded and the loop is not woken.                  *)
handle_signal_NoWrite(s) ==
    /\ s \in installed
    /\ raised' = raised \cup {s}
    /\ UNCHANGED <<memory, tables, phase, running, got, installed, pipe,
                   stranded, calls>>

(* The bit, then the byte.  A signal that comes during poll also ends the  *)
(* wait with EINTR, which reports nothing: the next turn finds the byte.   *)
handle_signal(s) ==
    /\ s \in installed
    /\ raised' = raised \cup {s}
    /\ pipe' = TRUE
    /\ \/ UNCHANGED phase
       \/ phase = "wait" /\ ~pipe /\ phase' = "activate"
    /\ UNCHANGED <<memory, tables, running, got, installed, stranded, calls>>

Call ==
    \/ \E e \in Events :
           \/ alloc(e) \/ event_del(e) \/ del_and_free(e) \/ event_active(e)
           \/ \E c \in Confs \ {"zeroed"} : event_set(e, c)
           \/ \E b \in BOOLEAN : \/ event_add(e, b)
                                 \/ \E c \in Confs : event_once(e, c, b)
    \/ event_reinit

LoopStep ==
    \/ event_loop \/ Wait({}) \/ drain_signal_pipe \/ activate_ready
    \/ dispatch \/ CallbackReturns \/ EndTurn

World ==
    \/ \E ready \in SUBSET Events : Wait(ready)
    \/ \E e \in Events : Deadline(e)
    \/ \E s \in Signals : handle_signal(s)

Next == Call \/ LoopStep \/ World

Spec == Init /\ [][Next]_vars

(* The loop runs for as long as the process, callbacks return and          *)
(* deadlines pass; nothing is assumed of descriptors and signals.          *)
FairSpec ==
    /\ Spec
    /\ WF_vars(LoopStep)
    /\ \A e \in Events : WF_vars(Deadline(e))

-----------------------------------------------------------------------------
TypeOK ==
    /\ once \subseteq alive /\ alive \subseteq Events
    /\ conf \in [Events -> Confs] /\ flag \in [Events -> BOOLEAN]
    /\ gen \in [Events -> Nat] /\ next_gen \in Nat
    /\ DOMAIN pending \subseteq Events
    /\ \A e \in DOMAIN pending :
           pending[e] \in [generation : Nat, timed : BOOLEAN, late : BOOLEAN]
    /\ active \in Seq([ev : Events, generation : Nat, ready : BOOLEAN])
    /\ phase \in {"out", "wait", "drain", "swap", "activate", "dispatch", "callback"}
    /\ running \subseteq once /\ (running # {} => phase = "callback")
    /\ got \subseteq DOMAIN pending /\ installed \subseteq Signals
    /\ raised \subseteq Signals /\ stranded \subseteq raised /\ pipe \in BOOLEAN

Queued == {active[i].ev : i \in DOMAIN active}

(* Neither table keeps the address of freed memory, whatever callbacks     *)
(* delete, free or defer while other callbacks are queued: dispatch and    *)
(* activate_ready write through these addresses.  ev_flags, which          *)
(* event_pending and event_set trust, agrees with the table of pending     *)
(* events.                                                                 *)
NoDangling ==
    /\ DOMAIN pending \cup Queued \subseteq alive
    /\ {e \in alive : flag[e]} = DOMAIN pending

(* Every queued activation is of the current registration: dispatch never  *)
(* has to drop one, and a callback that was cancelled or replaced does     *)
(* not run.  An event that is not persistent is unregistered when the loop *)
(* makes it due, so it cannot become due a second time.                    *)
NothingStale ==
    /\ \A i \in DOMAIN active : active[i].generation = gen[active[i].ev]
    /\ \A e \in DOMAIN pending : pending[e].generation = gen[e]
    /\ \A i \in DOMAIN active :
           LET e == active[i].ev
           IN active[i].ready /\ e \in DOMAIN pending => Persistent(e)

(* handle_signal is installed exactly for the signals somebody watches,    *)
(* and a raised signal has a byte in the pipe to wake the loop with, or    *)
(* the loop is about to read the bits; only event_reinit breaks that.      *)
SignalsWake ==
    /\ installed = {conf[e] : e \in DOMAIN pending} \cap Signals
    /\ raised \ stranded # {} => pipe \/ phase = "swap"

(* An event_once callback runs when its deadline is there, and a raised    *)
(* signal is picked up by the loop, unless event_reinit stranded it.       *)
EventsHappen ==
    /\ \A e \in Events : (e \in once /\ conf[e] = "timer") ~> (e \notin once)
    /\ \A s \in Signals : (s \in raised \ stranded) ~> (s \notin raised \ stranded)
=============================================================================
