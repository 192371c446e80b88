-------------------------- MODULE EventLoopProofs --------------------------
(***************************************************************************)
(* Proofs about EventLoop: for any number of events, signals and calls     *)
(* from callbacks, the two tables of the loop never hold the address of    *)
(* freed memory or a stale activation, and no signal is left without a     *)
(* byte in the pipe.                                                       *)
(***************************************************************************)
EXTENDS EventLoop, QueueLemmas, FiniteSetTheorems

Entries == [ev : Events, generation : Nat, ready : BOOLEAN]
Registrations == [generation : Nat, timed : BOOLEAN, late : BOOLEAN]

(* The registrations: of events that are there, marked in the event, and   *)
(* of its current generation.                                              *)
PendingOK ==
    /\ \A e \in DOMAIN pending : e \in alive /\ pending[e].generation = gen[e]
    /\ \A e \in alive : flag[e] <=> e \in DOMAIN pending

(* The same of what is queued.                                             *)
ActiveOK ==
    \A a \in ToSet(active) :
        /\ a.ev \in alive /\ a.generation = gen[a.ev]
        /\ a.ready /\ a.ev \in DOMAIN pending => Persistent(a.ev)

(* An event_once is no signal, and is in neither table when its callback   *)
(* runs: the loop frees it without deleting it again.                      *)
OnceOK ==
    /\ \A e \in once : conf[e] \in {"timer", "read"}
    /\ \A e \in running : e \notin DOMAIN pending
    /\ \A a \in ToSet(active) : a.ev \notin running

(* What the wait found is used in the same turn, before any callback.      *)
GotOK == phase \notin {"drain", "swap", "activate"} => got = {}

IInv == TypeOK /\ PendingOK /\ ActiveOK /\ OnceOK /\ GotOK /\ SignalsWake

(* No event, no call and no signal at first.                               *)
LEMMA InitIInv == Init => IInv
<1> SUFFICES ASSUME Init PROVE IInv OBVIOUS
<1> USE DEF Init
<1>1. DOMAIN pending = {} /\ ToSet(active) = {} /\ active \in Seq(Entries) BY EmptyQueue
<1>2. TypeOK BY <1>1 DEF TypeOK, Confs, Entries
<1>3. PendingOK /\ ActiveOK /\ OnceOK /\ GotOK /\ SignalsWake
  BY <1>1 DEF PendingOK, ActiveOK, OnceOK, GotOK, SignalsWake
<1> QED BY <1>2, <1>3 DEF IInv

(* Scrubbing a queue removes the entries of the event.                     *)
LEMMA ScrubSet ==
  ASSUME NEW q \in Seq(Entries), NEW e
  PROVE  Scrub(q, e) \in Seq(Entries) /\ ToSet(Scrub(q, e)) = {a \in ToSet(q) : a.ev # e}
BY OnlySet DEF Scrub

(* What a deletion leaves of the tables and of the handlers.               *)
DeletedFrom(e) ==
    /\ DOMAIN pending' = DOMAIN pending \ {e}
    /\ \A d \in DOMAIN pending \ {e} : pending'[d] = pending[d]
    /\ active' \in Seq(Entries)
    /\ ToSet(active') = {a \in ToSet(active) : a.ev # e}
    /\ installed' = {conf[d] : d \in DOMAIN pending'} \cap Signals

LEMMA DeletedProperty ==
  ASSUME IInv, NEW e \in Events, Deleted(e)
  PROVE  DeletedFrom(e)
<1>1. /\ DOMAIN pending' = DOMAIN pending \ {e}
      /\ \A d \in DOMAIN pending \ {e} : pending'[d] = pending[d]
  BY DEF Deleted, Without
<1>2. active' \in Seq(Entries) /\ ToSet(active') = {a \in ToSet(active) : a.ev # e}
  BY ScrubSet DEF Deleted, IInv, TypeOK, Entries
<1>3. installed' = {conf[d] : d \in DOMAIN pending'} \cap Signals
  <2>1. installed = {conf[d] : d \in DOMAIN pending} \cap Signals BY DEF IInv, SignalsWake
  <2>2. installed' = IF conf[e] \in Signals /\ ~(\E d \in DOMAIN pending' : conf[d] = conf[e])
                     THEN installed \ {conf[e]} ELSE installed
    BY DEF Deleted, IsSignal, Watched
  <2> QED BY <2>1, <2>2, <1>1
<1> QED BY <1>1, <1>2, <1>3 DEF DeletedFrom

(* event_del and del_and_free.                                             *)
LEMMA DeleteStep ==
  ASSUME IInv, NEW e \in Events, event_del(e) \/ del_and_free(e)
  PROVE  IInv'
<1>1. /\ DeletedFrom(e) /\ e \in alive /\ e \notin once /\ flag' = [flag EXCEPT ![e] = FALSE]
      /\ phase \in {"out", "callback"}
      /\ UNCHANGED <<once, conf, gen, next_gen, phase, running, got, raised, pipe, stranded>>
  BY DeletedProperty DEF event_del, del_and_free, Calling, Owned
<1>2. alive' = alive \/ alive' = alive \ {e} BY DEF event_del, del_and_free
<1> USE DEF DeletedFrom, IInv
<1>3. got = {} BY <1>1 DEF GotOK
<1>4. TypeOK' BY <1>1, <1>2, <1>3 DEF TypeOK, Entries
<1>5. PendingOK' BY <1>1, <1>2 DEF PendingOK, TypeOK
<1>6. ActiveOK' BY <1>1, <1>2 DEF ActiveOK, Persistent, IsSignal
<1>7. OnceOK' BY <1>1 DEF OnceOK
<1>8. GotOK' BY <1>1, <1>3 DEF GotOK
<1>9. SignalsWake' BY <1>1 DEF SignalsWake
<1> QED BY <1>4, <1>5, <1>6, <1>7, <1>8, <1>9

LEMMA SetStep ==
  ASSUME IInv, NEW e \in Events, NEW c \in Confs \ {"zeroed"}, event_set(e, c)
  PROVE  IInv'
<1>1. /\ e \in alive /\ e \notin once /\ flag' = [flag EXCEPT ![e] = FALSE]
      /\ conf' = [conf EXCEPT ![e] = c] /\ phase \in {"out", "callback"}
      /\ UNCHANGED <<alive, once, gen, next_gen, phase, running, got, raised, pipe, stranded>>
  BY DEF event_set, Calling, Owned
<1> USE DEF IInv
<1>2. /\ DOMAIN pending' = DOMAIN pending \ {e}
      /\ \A d \in DOMAIN pending \ {e} : pending'[d] = pending[d]
      /\ active' \in Seq(Entries) /\ ToSet(active') \subseteq ToSet(active)
      /\ installed' = {conf[d] : d \in DOMAIN pending'} \cap Signals
  <2>1. CASE flag[e] BY <2>1, DeletedProperty DEF event_set, DeletedFrom
  <2>2. CASE ~flag[e]
    <3>1. UNCHANGED <<pending, active, installed>> /\ e \notin DOMAIN pending
      BY <2>2, <1>1 DEF event_set, PendingOK
    <3> QED BY <3>1 DEF TypeOK, SignalsWake, Entries
  <2> QED BY <2>1, <2>2
<1>3. got = {} BY <1>1 DEF GotOK
<1>4. TypeOK' BY <1>1, <1>2, <1>3 DEF TypeOK, Entries
<1>5. PendingOK' BY <1>1, <1>2 DEF PendingOK, TypeOK
<1>6. ActiveOK' BY <1>1, <1>2 DEF ActiveOK, Persistent, IsSignal, TypeOK
<1>7. OnceOK' BY <1>1, <1>2 DEF OnceOK, TypeOK
<1>8. GotOK' BY <1>1, <1>3 DEF GotOK
<1>9. SignalsWake'
  <2>1. \A d \in DOMAIN pending' : conf'[d] = conf[d] BY <1>1, <1>2 DEF TypeOK
  <2>2. installed' = {conf'[d] : d \in DOMAIN pending'} \cap Signals BY <2>1, <1>2
  <2> QED BY <2>2, <1>1 DEF SignalsWake
<1> QED BY <1>4, <1>5, <1>6, <1>7, <1>8, <1>9

LEMMA AllocStep ==
  ASSUME IInv, NEW e \in Events, alloc(e)
  PROVE  IInv'
<1> USE DEF IInv, alloc, tables, signalvars
<1>1. e \notin DOMAIN pending /\ (\A a \in ToSet(active) : a.ev # e)
  BY DEF PendingOK, ActiveOK
<1>2. TypeOK' BY DEF TypeOK, Confs
<1>3. PendingOK' BY <1>1 DEF PendingOK, TypeOK
<1>4. ActiveOK' BY <1>1 DEF ActiveOK, Persistent, IsSignal, TypeOK
<1>5. OnceOK' BY <1>1 DEF OnceOK, TypeOK
<1>6. GotOK' BY DEF GotOK
<1>7. SignalsWake'
  <2>1. \A d \in DOMAIN pending : conf'[d] = conf[d] BY <1>1 DEF TypeOK
  <2>2. installed' = {conf'[d] : d \in DOMAIN pending'} \cap Signals BY <2>1 DEF SignalsWake
  <2> QED BY <2>2 DEF SignalsWake
<1> QED BY <1>2, <1>3, <1>4, <1>5, <1>6, <1>7

LEMMA AddStep ==
  ASSUME IInv, NEW e \in Events, NEW timed \in BOOLEAN, event_add(e, timed)
  PROVE  IInv'
<1>1. /\ e \in alive /\ e \notin once /\ flag' = [flag EXCEPT ![e] = TRUE]
      /\ gen' = [gen EXCEPT ![e] = next_gen] /\ next_gen' = next_gen + 1
      /\ phase \in {"out", "callback"} /\ installed' = installed \cup ({conf[e]} \cap Signals)
      /\ UNCHANGED <<alive, once, conf, phase, running, got, raised, pipe, stranded>>
  BY DEF event_add, Calling, Owned
<1>2. /\ DOMAIN pending' = DOMAIN pending \cup {e}
      /\ pending'[e] = [generation |-> next_gen, timed |-> timed, late |-> FALSE]
      /\ \A d \in DOMAIN pending : d # e => pending'[d] = pending[d]
  <2>1. pending' = Registered(e, timed) BY DEF event_add
  <2> QED BY <2>1 DEF Registered
<1>3. active' \in Seq(Entries) /\ ToSet(active') = {a \in ToSet(active) : a.ev # e}
  BY ScrubSet DEF event_add, IInv, TypeOK, Entries
<1> USE DEF IInv
<1>4. got = {} BY <1>1 DEF GotOK
<1>5. TypeOK'
  <2>1. \A d \in DOMAIN pending' : pending'[d] \in Registrations
    <3>1. \A d \in DOMAIN pending : pending[d] \in Registrations BY DEF TypeOK, Registrations
    <3>2. pending'[e] \in Registrations BY <1>2 DEF TypeOK, Registrations
    <3> QED BY <3>1, <3>2, <1>2
  <2>2. flag' \in [Events -> BOOLEAN] /\ gen' \in [Events -> Nat] /\ next_gen' \in Nat
    BY <1>1 DEF TypeOK
  <2> QED BY <1>1, <1>2, <1>3, <1>4, <2>1, <2>2 DEF TypeOK, Entries, Registrations
<1>6. PendingOK' BY <1>1, <1>2 DEF PendingOK, TypeOK
<1>7. ActiveOK' BY <1>1, <1>2, <1>3 DEF ActiveOK, Persistent, IsSignal, TypeOK
<1>8. OnceOK' BY <1>1, <1>2, <1>3 DEF OnceOK, TypeOK
<1>9. GotOK' BY <1>1, <1>4 DEF GotOK
<1>10. SignalsWake' BY <1>1, <1>2 DEF SignalsWake
<1> QED BY <1>5, <1>6, <1>7, <1>8, <1>9, <1>10

LEMMA ActiveStep ==
  ASSUME IInv, NEW e \in Events, event_active(e)
  PROVE  IInv'
<1> DEFINE a == Active(e, gen[e], FALSE)
<1>1. /\ e \in alive /\ e \notin once /\ active' = Append(active, a)
      /\ phase \in {"out", "callback"}
      /\ UNCHANGED <<memory, pending, next_gen, installed, phase, running, got, raised, pipe, stranded>>
  BY DEF event_active, Calling, Owned
<1> USE DEF IInv, memory
<1>2. a \in Entries /\ a.ev = e /\ a.generation = gen[e] /\ a.ready = FALSE
  BY DEF Active, Entries, TypeOK
<1> HIDE DEF a
<1>3. active' \in Seq(Entries) /\ ToSet(active') = ToSet(active) \cup {a}
  <2>1. active \in Seq(Entries) BY DEF TypeOK, Entries
  <2> QED BY <2>1, <1>1, <1>2, AppendSet
<1>4. TypeOK' BY <1>1, <1>3 DEF TypeOK, Entries
<1>5. PendingOK' BY <1>1 DEF PendingOK
<1>6. ActiveOK' BY <1>1, <1>2, <1>3 DEF ActiveOK, Persistent, IsSignal
<1>7. OnceOK' BY <1>1, <1>2, <1>3 DEF OnceOK, TypeOK
<1>8. GotOK' BY <1>1 DEF GotOK
<1>9. SignalsWake' BY <1>1 DEF SignalsWake
<1> QED BY <1>4, <1>5, <1>6, <1>7, <1>8, <1>9

LEMMA OnceStep ==
  ASSUME IInv, NEW e \in Events, NEW c \in Confs, NEW immediate \in BOOLEAN,
         event_once(e, c, immediate)
  PROVE  IInv'
<1> DEFINE a == Active(e, next_gen, FALSE)
<1>1. /\ e \notin alive /\ alive' = alive \cup {e} /\ once' = once \cup {e}
      /\ c \in {"timer", "read"} /\ conf' = [conf EXCEPT ![e] = c]
      /\ flag' = [flag EXCEPT ![e] = TRUE]
      /\ gen' = [gen EXCEPT ![e] = next_gen] /\ next_gen' = next_gen + 1
      /\ phase \in {"out", "callback"}
      /\ UNCHANGED <<installed, phase, running, got, raised, pipe, stranded>>
  BY DEF event_once, Calling
<1>2. /\ DOMAIN pending' = DOMAIN pending \cup {e}
      /\ pending'[e] \in Registrations /\ pending'[e].generation = next_gen
      /\ \A d \in DOMAIN pending : d # e => pending'[d] = pending[d]
  <2>1. next_gen \in Nat BY DEF IInv, TypeOK
  <2>2. (c = "timer" /\ ~immediate) \in BOOLEAN OBVIOUS
  <2> QED BY <2>1, <2>2 DEF event_once, Registered, Registrations
<1> USE DEF IInv
<1>3. a \in Entries /\ a.ev = e /\ a.generation = next_gen /\ a.ready = FALSE
  BY DEF Active, Entries, TypeOK
<1>4. active' = active \/ active' = Append(active, a) BY DEF event_once
<1> HIDE DEF a
<1>5. active' \in Seq(Entries) /\ ToSet(active') \subseteq ToSet(active) \cup {a}
  <2>1. active \in Seq(Entries) BY DEF TypeOK, Entries
  <2>2. Append(active, a) \in Seq(Entries) /\ ToSet(Append(active, a)) = ToSet(active) \cup {a}
    BY <2>1, <1>3, AppendSet
  <2> QED BY <2>1, <2>2, <1>4
<1>6. e \notin DOMAIN pending /\ (\A d \in ToSet(active) : d.ev # e) /\ e \notin running
  BY <1>1 DEF PendingOK, ActiveOK, TypeOK
<1>7. got = {} BY <1>1 DEF GotOK
<1>8. TypeOK'
  <2>1. \A d \in DOMAIN pending' : pending'[d] \in Registrations
    <3>1. \A d \in DOMAIN pending : pending[d] \in Registrations BY DEF TypeOK, Registrations
    <3>2. pending'[e] \in Registrations BY <1>2 DEF TypeOK, Registrations
    <3> QED BY <3>1, <3>2, <1>2
  <2>2. /\ flag' \in [Events -> BOOLEAN] /\ gen' \in [Events -> Nat] /\ next_gen' \in Nat
        /\ conf' \in [Events -> Confs]
    BY <1>1 DEF TypeOK
  <2> QED BY <1>1, <1>2, <1>5, <1>7, <2>1, <2>2 DEF TypeOK, Entries, Registrations
<1>9. PendingOK' BY <1>1, <1>2, <1>6 DEF PendingOK, TypeOK
<1>10. ActiveOK'
  <2> SUFFICES ASSUME NEW d \in ToSet(active')
      PROVE  /\ d.ev \in alive' /\ d.generation = gen'[d.ev]
             /\ d.ready /\ d.ev \in DOMAIN pending' => Persistent(d.ev)'
    BY DEF ActiveOK
  <2>1. CASE d \in ToSet(active)
    <3>1. d.ev # e /\ d.ev \in alive /\ d.ev \in Events /\ d.generation = gen[d.ev]
          /\ (d.ready /\ d.ev \in DOMAIN pending => Persistent(d.ev))
      BY <2>1, <1>6 DEF ActiveOK, TypeOK
    <3>2. gen'[d.ev] = gen[d.ev] /\ conf'[d.ev] = conf[d.ev] BY <3>1, <1>1 DEF TypeOK
    <3> QED BY <3>1, <3>2, <1>1, <1>2 DEF Persistent, IsSignal
  <2>2. CASE d = a
    <3>1. gen'[e] = next_gen BY <1>1 DEF TypeOK
    <3> QED BY <2>2, <3>1, <1>1, <1>3
  <2> QED BY <2>1, <2>2, <1>5
<1>11. OnceOK' BY <1>1, <1>2, <1>3, <1>5, <1>6 DEF OnceOK, TypeOK
<1>12. GotOK' BY <1>1, <1>7 DEF GotOK
<1>13. SignalsWake'
  <2>1. conf'[e] = c /\ c \notin Signals BY <1>1, SignalsAssumption DEF TypeOK
  <2>2. \A d \in DOMAIN pending : conf'[d] = conf[d] BY <1>1, <1>6 DEF TypeOK
  <2>3. DOMAIN pending' = DOMAIN pending \cup {e} BY <1>2
  <2>4. installed' = {conf'[d] : d \in DOMAIN pending'} \cap Signals
    BY <1>1, <2>1, <2>2, <2>3 DEF SignalsWake
  <2> QED BY <2>4, <1>1 DEF SignalsWake
<1> QED BY <1>8, <1>9, <1>10, <1>11, <1>12, <1>13

(* The steps that touch neither the events nor the tables.                 *)
LEMMA TurnStep ==
  ASSUME IInv, \/ event_loop \/ drain_signal_pipe \/ EndTurn \/ event_reinit
               \/ \E ready \in SUBSET Events : Wait(ready)
               \/ \E s \in Signals : handle_signal(s)
  PROVE  IInv'
<1> USE DEF IInv, memory, tables, signalvars
<1>1. UNCHANGED <<memory, tables, running>>
  BY DEF event_loop, drain_signal_pipe, EndTurn, event_reinit, Wait, handle_signal
<1>2. TypeOK' /\ GotOK' /\ SignalsWake'
  <2>1. CASE event_loop \/ drain_signal_pipe \/ EndTurn
    BY <2>1 DEF event_loop, drain_signal_pipe, EndTurn, TypeOK, GotOK, SignalsWake
  <2>2. CASE event_reinit BY <2>2 DEF event_reinit, TypeOK, GotOK, SignalsWake
  <2>3. ASSUME NEW ready \in SUBSET Events, Wait(ready) PROVE TypeOK' /\ GotOK' /\ SignalsWake'
    BY <2>3 DEF Wait, Descriptors, TypeOK, GotOK, SignalsWake
  <2>4. ASSUME NEW s \in Signals, handle_signal(s) PROVE TypeOK' /\ GotOK' /\ SignalsWake'
    BY <2>4 DEF handle_signal, TypeOK, GotOK, SignalsWake
  <2> QED BY <2>1, <2>2, <2>3, <2>4
<1>3. PendingOK' BY <1>1 DEF PendingOK
<1>4. ActiveOK' BY <1>1 DEF ActiveOK, Persistent, IsSignal
<1>5. OnceOK' BY <1>1 DEF OnceOK
<1> QED BY <1>2, <1>3, <1>4, <1>5

(* What activate_ready queues: entries of the events that are due.         *)
LEMMA DueEntries ==
  ASSUME IInv, NEW ready \in SUBSET DOMAIN pending, NEW due \in InOrder(ready)
  PROVE  /\ due \in Seq(Entries)
         /\ \A a \in ToSet(due) : \E e \in ready : a = Active(e, pending[e].generation, TRUE)
<1> DEFINE entries == {Active(e, pending[e].generation, TRUE) : e \in ready}
           f == [e \in ready |-> Active(e, pending[e].generation, TRUE)]
<1>1. IsFiniteSet(ready)
  BY EventsAssumption, FS_Subset DEF IInv, TypeOK
<1>2. f \in Surjection(ready, entries) BY DEF Surjection
<1>3. IsFiniteSet(entries)
  <2> HIDE DEF f, entries
  <2> QED BY <1>1, <1>2, FS_Surjection
<1>4. Cardinality(entries) \in Nat
  <2> HIDE DEF entries
  <2> QED BY <1>3, FS_CardinalityType
<1>5. entries \subseteq Entries
  <2>1. \A e \in ready : e \in Events /\ pending[e].generation \in Nat BY DEF IInv, TypeOK
  <2>2. ASSUME NEW e \in ready PROVE Active(e, pending[e].generation, TRUE) \in Entries
    BY <2>1 DEF Active, Entries
  <2> QED BY <2>2
<1>6. due \in [1 .. Cardinality(entries) -> entries] BY DEF InOrder
<1>7. due \in Seq(Entries) /\ \A i \in DOMAIN due : due[i] \in entries
  <2> HIDE DEF entries
  <2> QED BY <1>4, <1>5, <1>6
<1> QED BY <1>7 DEF ToSet

LEMMA ActivateStep ==
  ASSUME IInv, activate_ready
  PROVE  IInv'
<1> DEFINE taken == IF phase = "swap" THEN raised ELSE {}
           ready == {e \in DOMAIN pending : e \in got \/ Late(e) \/ conf[e] \in taken}
           gone == {e \in ready : ~Persistent(e)}
<1>1. /\ Activated(ready) /\ raised' = raised \ taken /\ stranded' = stranded \ taken
      /\ phase \in {"swap", "activate"} /\ phase' = "dispatch" /\ got' = {}
      /\ UNCHANGED <<alive, once, conf, gen, next_gen, running, installed, pipe>>
  BY DEF activate_ready
<1>2. ready \in SUBSET DOMAIN pending /\ gone \subseteq ready OBVIOUS
<1>3. \A e \in gone : ~Persistent(e) OBVIOUS
<1>4. /\ pending' = [e \in DOMAIN pending \ gone |->
                        [pending[e] EXCEPT !.late = @ /\ e \notin ready]]
      /\ flag' = [e \in Events |-> flag[e] /\ e \notin gone]
  BY <1>1 DEF Activated
<1>5. \A e \in ready : e \notin gone => Persistent(e) OBVIOUS
<1>6. PICK due \in InOrder(ready) : active' = active \o due
  <2> HIDE DEF ready
  <2> QED BY <1>1 DEF Activated
<1>7. raised' \subseteq raised /\ stranded' \subseteq raised'
      /\ (phase = "activate" => raised' = raised /\ stranded' = stranded)
      /\ (phase = "swap" => raised' = {})
  BY <1>1 DEF IInv, TypeOK
<1> HIDE DEF ready, gone, taken
<1> USE DEF IInv
<1>8. due \in Seq(Entries)
      /\ \A a \in ToSet(due) : \E e \in ready : a = Active(e, pending[e].generation, TRUE)
  BY <1>2, <1>6, DueEntries
<1>9. active' \in Seq(Entries) /\ ToSet(active') = ToSet(active) \cup ToSet(due)
  <2>1. active \in Seq(Entries) BY DEF TypeOK, Entries
  <2> QED BY <2>1, <1>6, <1>8, ConcatSet
<1>10. /\ DOMAIN pending' = DOMAIN pending \ gone
       /\ \A e \in DOMAIN pending' : pending'[e] = [pending[e] EXCEPT !.late = @ /\ e \notin ready]
  BY <1>4
<1>11. \A e \in DOMAIN pending' :
          pending'[e] \in Registrations /\ pending'[e].generation = pending[e].generation
  <2> TAKE e \in DOMAIN pending'
  <2>1. pending[e] \in Registrations BY <1>10 DEF TypeOK, Registrations
  <2>2. (pending[e].late /\ e \notin ready) \in BOOLEAN OBVIOUS
  <2> QED BY <2>1, <2>2, <1>10 DEF Registrations
<1>12. TypeOK'
  <2>1. flag' \in [Events -> BOOLEAN]
    <3>1. \A e \in Events : (flag[e] /\ e \notin gone) \in BOOLEAN OBVIOUS
    <3> QED BY <3>1, <1>4
  <2>2. running = {} BY <1>1 DEF TypeOK
  <2>3. DOMAIN pending' \subseteq Events BY <1>10 DEF TypeOK
  <2> QED BY <1>1, <1>7, <1>9, <1>11, <2>1, <2>2, <2>3 DEF TypeOK, Entries, Registrations
<1>13. PendingOK'
  <2>1. ASSUME NEW e \in alive PROVE flag'[e] <=> e \in DOMAIN pending'
    <3>1. flag'[e] <=> flag[e] /\ e \notin gone BY <1>4 DEF TypeOK
    <3> QED BY <3>1, <1>10 DEF PendingOK
  <2>2. ASSUME NEW e \in DOMAIN pending' PROVE e \in alive /\ pending'[e].generation = gen[e]
    BY <1>10, <1>11 DEF PendingOK
  <2> QED BY <1>1, <2>1, <2>2 DEF PendingOK
<1>14. \A a \in ToSet(due) : /\ a.ev \in ready /\ a.ev \in alive /\ a.generation = gen[a.ev]
  BY <1>2, <1>8 DEF Active, PendingOK
<1>15. ActiveOK' BY <1>1, <1>5, <1>9, <1>10, <1>14 DEF ActiveOK, Persistent, IsSignal
<1>16. OnceOK'
  <2>1. running = {} BY <1>1 DEF TypeOK
  <2> QED BY <1>1, <2>1 DEF OnceOK
<1>17. GotOK' BY <1>1 DEF GotOK
<1>18. SignalsWake'
  <2>1. \A e \in gone : conf[e] \notin Signals BY <1>3 DEF Persistent, IsSignal
  <2>2. {conf[e] : e \in DOMAIN pending'} \cap Signals = {conf[e] : e \in DOMAIN pending} \cap Signals
    BY <2>1, <1>10
  <2> QED BY <1>1, <1>7, <2>2 DEF SignalsWake
<1> QED BY <1>12, <1>13, <1>15, <1>16, <1>17, <1>18

(* The entry taken from the queue.                                         *)
LEMMA DispatchStep ==
  ASSUME IInv, dispatch
  PROVE  IInv'
<1> DEFINE a == Head(active)
           e == a.ev
           runs == gen[e] = a.generation /\ conf[e] # "zeroed"
<1> USE DEF IInv
<1>1. active \in Seq(Entries) /\ active # <<>> BY DEF dispatch, TypeOK, Entries
<1>2. a \in ToSet(active) /\ a \in Entries /\ Tail(active) \in Seq(Entries)
      /\ ToSet(Tail(active)) \subseteq ToSet(active)
  BY <1>1, TailSet
<1>3. e \in Events /\ e \in alive BY <1>2 DEF Entries, ActiveOK
<1>4. /\ phase = "dispatch" /\ phase' = (IF runs THEN "callback" ELSE "dispatch")
      /\ running' = (IF runs THEN once \cap {e} ELSE {})
      /\ UNCHANGED <<alive, once, conf, gen, next_gen, got, installed, raised, pipe, stranded>>
  BY DEF dispatch, signalvars
<1>5. CASE runs /\ e \in once
  <2>1. /\ pending' = Without(pending, e) /\ active' = Scrub(Tail(active), e)
        /\ flag' = [flag EXCEPT ![e] = FALSE]
    BY <1>5 DEF dispatch
  <2>2. phase' = "callback" /\ running' = {e} BY <1>4, <1>5
  <2> HIDE DEF runs, a, e
  <2>3. /\ DOMAIN pending' = DOMAIN pending \ {e}
        /\ \A d \in DOMAIN pending \ {e} : pending'[d] = pending[d]
    BY <2>1 DEF Without
  <2>4. active' \in Seq(Entries) /\ ToSet(active') = {d \in ToSet(Tail(active)) : d.ev # e}
    BY <1>2, <2>1, ScrubSet
  <2>5. got = {} BY <1>4 DEF GotOK
  <2>6. TypeOK' BY <1>3, <1>4, <1>5, <2>1, <2>2, <2>3, <2>4, <2>5 DEF TypeOK, Entries
  <2>7. PendingOK' BY <1>3, <1>4, <2>1, <2>3 DEF PendingOK, TypeOK
  <2>8. ActiveOK' BY <1>2, <1>4, <2>3, <2>4 DEF ActiveOK, Persistent, IsSignal
  <2>9. OnceOK' BY <1>4, <2>2, <2>3, <2>4 DEF OnceOK
  <2>10. GotOK' BY <1>4, <2>5 DEF GotOK
  <2>11. SignalsWake'
    <3>1. conf[e] \notin Signals BY <1>5, SignalsAssumption DEF OnceOK
    <3>2. {conf[d] : d \in DOMAIN pending'} \cap Signals = {conf[d] : d \in DOMAIN pending} \cap Signals
      BY <3>1, <2>3
    <3> QED BY <1>4, <3>2 DEF SignalsWake
  <2> QED BY <2>6, <2>7, <2>8, <2>9, <2>10, <2>11
<1>6. CASE ~(runs /\ e \in once)
  <2>1. active' = Tail(active) /\ UNCHANGED <<pending, flag>> BY <1>6 DEF dispatch
  <2>2. phase' \in {"callback", "dispatch"} /\ running' = {} BY <1>4, <1>6
  <2> HIDE DEF runs, a, e
  <2>3. got = {} BY <1>4 DEF GotOK
  <2>4. TypeOK' BY <1>2, <1>4, <2>1, <2>2, <2>3 DEF TypeOK, Entries
  <2>5. PendingOK' BY <1>4, <2>1 DEF PendingOK
  <2>6. ActiveOK' BY <1>2, <1>4, <2>1 DEF ActiveOK, Persistent, IsSignal
  <2>7. OnceOK' BY <1>4, <2>2 DEF OnceOK
  <2>8. GotOK' BY <1>4, <2>3 DEF GotOK
  <2>9. SignalsWake' BY <1>4, <2>1, <2>2 DEF SignalsWake
  <2> QED BY <2>4, <2>5, <2>6, <2>7, <2>8, <2>9
<1> QED BY <1>5, <1>6

LEMMA ReturnsStep ==
  ASSUME IInv, CallbackReturns
  PROVE  IInv'
<1> USE DEF IInv, CallbackReturns, tables, signalvars
<1>1. TypeOK' BY DEF TypeOK, GotOK
<1>2. PendingOK' BY DEF PendingOK, OnceOK
<1>3. ActiveOK' BY DEF ActiveOK, OnceOK, Persistent, IsSignal
<1>4. OnceOK' BY DEF OnceOK
<1>5. GotOK' BY DEF GotOK
<1>6. SignalsWake' BY DEF SignalsWake
<1> QED BY <1>1, <1>2, <1>3, <1>4, <1>5, <1>6

LEMMA DeadlineStep ==
  ASSUME IInv, NEW e \in Events, Deadline(e)
  PROVE  IInv'
<1> USE DEF IInv, memory, signalvars
<1>1. /\ e \in DOMAIN pending /\ pending' = [pending EXCEPT ![e].late = TRUE]
      /\ UNCHANGED <<memory, active, next_gen, phase, running, got, signalvars>>
  BY DEF Deadline
<1>2. /\ DOMAIN pending' = DOMAIN pending
      /\ \A d \in DOMAIN pending : /\ pending'[d] \in Registrations
                                   /\ pending'[d].generation = pending[d].generation
  <2>1. pending[e] \in Registrations BY <1>1 DEF TypeOK, Registrations
  <2>2. pending'[e] = [pending[e] EXCEPT !.late = TRUE] BY <1>1
  <2>3. \A d \in DOMAIN pending : d # e => pending'[d] = pending[d] BY <1>1
  <2> QED BY <1>1, <2>1, <2>2, <2>3 DEF TypeOK, Registrations
<1>3. TypeOK' BY <1>1, <1>2 DEF TypeOK, Registrations
<1>4. PendingOK' BY <1>1, <1>2 DEF PendingOK
<1>5. ActiveOK' BY <1>1, <1>2 DEF ActiveOK, Persistent, IsSignal
<1>6. OnceOK' BY <1>1, <1>2 DEF OnceOK
<1>7. GotOK' BY <1>1 DEF GotOK
<1>8. SignalsWake' BY <1>1, <1>2 DEF SignalsWake
<1> QED BY <1>3, <1>4, <1>5, <1>6, <1>7, <1>8

-----------------------------------------------------------------------------
(* Every step preserves the invariant.                                     *)
LEMMA NextIInv == IInv /\ [Next]_vars => IInv'
<1> SUFFICES ASSUME IInv, [Next]_vars PROVE IInv' OBVIOUS
<1>1. CASE UNCHANGED vars
  BY <1>1 DEF vars, IInv, TypeOK, PendingOK, ActiveOK, OnceOK, GotOK, SignalsWake, Persistent, IsSignal
<1>2. CASE Call
  <2>1. ASSUME NEW e \in Events, alloc(e) \/ event_del(e) \/ del_and_free(e) \/ event_active(e)
        PROVE  IInv'
    BY <2>1, AllocStep, DeleteStep, ActiveStep
  <2>2. ASSUME NEW e \in Events, NEW c \in Confs \ {"zeroed"}, event_set(e, c) PROVE IInv'
    BY <2>2, SetStep
  <2>3. ASSUME NEW e \in Events, NEW b \in BOOLEAN, event_add(e, b) PROVE IInv' BY <2>3, AddStep
  <2>4. ASSUME NEW e \in Events, NEW b \in BOOLEAN, NEW c \in Confs, event_once(e, c, b) PROVE IInv'
    BY <2>4, OnceStep
  <2>5. ASSUME event_reinit PROVE IInv' BY <2>5, TurnStep
  <2> QED BY <1>2, <2>1, <2>2, <2>3, <2>4, <2>5 DEF Call
<1>3. CASE LoopStep
  <2>1. ASSUME Wait({}) PROVE IInv'
    <3>1. {} \in SUBSET Events OBVIOUS
    <3> QED BY <2>1, <3>1, TurnStep
  <2> QED BY <1>3, <2>1, TurnStep, ActivateStep, DispatchStep, ReturnsStep DEF LoopStep
<1>4. CASE World BY <1>4, TurnStep, DeadlineStep DEF World
<1> QED BY <1>1, <1>2, <1>3, <1>4 DEF Next

LEMMA Invariance == Spec => []IInv
BY InitIInv, NextIInv, PTL DEF Spec

(* Every variable keeps its shape; in particular the events the wait found *)
(* are still registered when they are used.                                *)
THEOREM TypeCorrect == Spec => []TypeOK
<1>1. IInv => TypeOK BY DEF IInv
<1> QED BY <1>1, Invariance, PTL

(* Whatever callbacks delete, free or defer, neither table keeps the       *)
(* address of freed memory, and EVLIST_PENDING agrees with the table.      *)
THEOREM NoDanglingHolds == Spec => []NoDangling
<1>1. ASSUME IInv PROVE NoDangling
  <2>1. DOMAIN pending \subseteq alive BY <1>1 DEF IInv, PendingOK
  <2>2. Queued \subseteq alive BY <1>1 DEF IInv, ActiveOK, Queued, ToSet
  <2>3. {e \in alive : flag[e]} = DOMAIN pending BY <1>1 DEF IInv, PendingOK
  <2> QED BY <2>1, <2>2, <2>3 DEF NoDangling
<1> QED BY <1>1, Invariance, PTL

(* Every queued activation is of the current registration, so a cancelled  *)
(* or replaced callback does not run, and a one-shot is due only once.     *)
THEOREM NothingStaleHolds == Spec => []NothingStale
<1>1. IInv => NothingStale
  BY DEF IInv, NothingStale, PendingOK, ActiveOK, ToSet, Persistent, IsSignal
<1> QED BY <1>1, Invariance, PTL

(* The handler is installed exactly for the signals somebody watches, and  *)
(* a raised signal wakes the loop unless event_reinit threw its byte away. *)
THEOREM SignalsWakeHolds == Spec => []SignalsWake
<1>1. IInv => SignalsWake BY DEF IInv
<1> QED BY <1>1, Invariance, PTL
=============================================================================
