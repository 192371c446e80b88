--------------------------- MODULE WaitForProofs ---------------------------
(***************************************************************************)
(* Proofs about WaitFor, for every set of clients and of channels.         *)
(***************************************************************************)
EXTENDS WaitFor, QueueLemmas

(* The parts of the inductive invariant support each other: a channel may  *)
(* be freed only because nobody waits for an unlocked or woken channel,    *)
(* and a queue can be put on a list only because it is on no other.        *)
IInv == TypeOK /\ WaitersOnce /\ NothingLost /\ NoNeedlessWait /\ MutualExclusion

(* Initially no channel exists and no queue waits.                         *)
LEMMA InitIInv == Init => IInv
<1> SUFFICES ASSUME Init PROVE IInv
  OBVIOUS
<1>1. \A ch \in Channels : /\ waiters[ch] = <<>> /\ lockers[ch] = <<>>
                           /\ ToSet(waiters[ch]) = {} /\ ToSet(lockers[ch]) = {}
                           /\ IsInjective(waiters[ch]) /\ IsInjective(lockers[ch])
  BY EmptyQueue DEF Init
<1>2. TypeOK
  <2>1. <<>> \in Seq(Queues) OBVIOUS
  <2> QED BY <2>1, Zenon DEF Init, TypeOK
<1>3. WaitersOnce
  BY <1>1 DEF Init, WaitersOnce, Blocked
<1>4. NothingLost /\ NoNeedlessWait /\ MutualExclusion
  BY <1>1 DEF Init, NothingLost, NoNeedlessWait, MutualExclusion
<1> QED BY <1>2, <1>3, <1>4 DEF IInv

(* A queue that may run is on no list, so blocking it keeps lists apart.   *)
LEMMA RunnerIsOnNoList ==
  ASSUME IInv, NEW q \in Queues, CanRun(q)
  PROVE  \A ch \in Channels : q \notin ToSet(waiters[ch]) /\ q \notin ToSet(lockers[ch])
BY DEF IInv, WaitersOnce, Blocked, CanRun

(* cmd_wait_for_signal continues every waiter of the channel at once.      *)
LEMMA SignalStep ==
  ASSUME IInv, NEW q \in Queues, NEW ch \in Channels, cmd_wait_for_signal(q, ch)
  PROVE  IInv'
<1> USE DEF IInv
<1>1. CASE waiters[ch] = <<>> /\ ~woken[ch]
  <2>1. /\ woken' = [woken EXCEPT ![ch] = TRUE] /\ exists' = exists \cup {ch}
        /\ UNCHANGED <<waiters, waiting, locked, lockers, dead, granted, flushed>>
    BY <1>1 DEF cmd_wait_for_signal
  <2>2. TypeOK' BY <2>1 DEF TypeOK
  <2>3. WaitersOnce' BY <2>1 DEF WaitersOnce, Blocked
  <2>4. NothingLost' BY <2>1 DEF NothingLost, TypeOK
  <2>5. NoNeedlessWait' BY <1>1, <2>1 DEF NoNeedlessWait, TypeOK
  <2>6. MutualExclusion' BY <2>1 DEF MutualExclusion
  <2> QED BY <2>2, <2>3, <2>4, <2>5, <2>6
<1>2. CASE waiters[ch] # <<>> \/ woken[ch]
  <2>1. /\ waiting' = waiting \ ToSet(waiters[ch])
        /\ waiters' = [waiters EXCEPT ![ch] = <<>>]
        /\ cmd_wait_for_remove(ch, locked[ch], woken[ch], <<>>)
        /\ UNCHANGED <<locked, lockers, dead, granted, flushed>>
    BY <1>2 DEF cmd_wait_for_signal
  <2>2. TypeOK' BY <2>1 DEF TypeOK, cmd_wait_for_remove, Removed
  <2>3. WaitersOnce'
    <3>1. /\ waiters'[ch] = <<>> /\ ToSet(waiters'[ch]) = {}
          /\ IsInjective(waiters'[ch])
          /\ \A d \in Channels : d # ch => waiters'[d] = waiters[d]
      BY <2>1, EmptyQueue DEF TypeOK
    <3>2. /\ Blocked(ch)' = ToSet(lockers[ch])
          /\ \A d \in Channels : d # ch => Blocked(d)' = Blocked(d)
      BY <3>1, <2>1 DEF Blocked
    <3>3. \A d \in Channels :
             /\ IsInjective(waiters'[d]) /\ IsInjective(lockers'[d])
             /\ ToSet(waiters'[d]) \cap ToSet(lockers'[d]) = {}
      BY <3>1, <2>1 DEF WaitersOnce
    <3>4. \A d, e \in Channels : d # e => Blocked(d)' \cap Blocked(e)' = {}
      BY <3>2 DEF WaitersOnce, Blocked
    <3>5. \A d \in Channels : d # ch => Blocked(d) \cap ToSet(waiters[ch]) = {}
      BY DEF WaitersOnce, Blocked
    <3>6. waiting' = UNION {Blocked(d)' : d \in Channels}
      BY <2>1, <3>2, <3>5 DEF WaitersOnce, Blocked
    <3> QED BY <3>3, <3>4, <3>6, Zenon DEF WaitersOnce
  <2>4. NothingLost'
    BY <2>1 DEF NothingLost, NoNeedlessWait, TypeOK, cmd_wait_for_remove, Removed
  <2>5. NoNeedlessWait'
    BY <2>1 DEF NoNeedlessWait, TypeOK, cmd_wait_for_remove, Removed
  <2>6. MutualExclusion' BY <2>1 DEF MutualExclusion
  <2> QED BY <2>2, <2>3, <2>4, <2>5, <2>6
<1> QED BY <1>1, <1>2

(* cmd_wait_for_wait consumes the signal or adds the runner to a list.     *)
LEMMA WaitStep ==
  ASSUME IInv, NEW q \in Queues, NEW ch \in Channels, cmd_wait_for_wait(q, ch)
  PROVE  IInv'
<1> USE DEF IInv
<1>1. CASE woken[ch]
  <2>1. /\ cmd_wait_for_remove(ch, locked[ch], woken[ch], waiters[ch])
        /\ UNCHANGED <<waiters, waiting, locked, lockers, dead, granted, flushed>>
    BY <1>1 DEF cmd_wait_for_wait
  <2>2. TypeOK' BY <2>1 DEF TypeOK, cmd_wait_for_remove, Removed
  <2>3. WaitersOnce' BY <2>1 DEF WaitersOnce, Blocked
  <2>4. NothingLost'
    BY <2>1 DEF NothingLost, NoNeedlessWait, TypeOK, cmd_wait_for_remove, Removed
  <2>5. NoNeedlessWait'
    BY <2>1 DEF NoNeedlessWait, TypeOK, cmd_wait_for_remove, Removed
  <2>6. MutualExclusion' BY <2>1 DEF MutualExclusion
  <2> QED BY <2>2, <2>3, <2>4, <2>5, <2>6
<1>2. CASE ~woken[ch]
  <2>1. /\ CanRun(q) /\ exists' = exists \cup {ch}
        /\ waiters' = [waiters EXCEPT ![ch] = Append(@, q)]
        /\ waiting' = waiting \cup {q}
        /\ UNCHANGED <<woken, locked, lockers, dead, granted, flushed>>
    BY <1>2 DEF cmd_wait_for_wait
  <2>2. TypeOK' BY <2>1 DEF TypeOK
  <2>3. WaitersOnce'
    <3>0. \A d \in Channels : q \notin ToSet(waiters[d]) /\ q \notin ToSet(lockers[d])
      BY <2>1, RunnerIsOnNoList
    <3>1. /\ waiters[ch] \in Seq(Queues) /\ waiters'[ch] = Append(waiters[ch], q)
          /\ \A d \in Channels : d # ch => waiters'[d] = waiters[d]
      BY <2>1 DEF TypeOK
    <3>2. ToSet(waiters'[ch]) = ToSet(waiters[ch]) \cup {q}
      BY <3>1, AppendSet
    <3>3. IsInjective(waiters'[ch])
      BY <3>0, <3>1, AppendInjectiveSeq DEF WaitersOnce
    <3>4. /\ Blocked(ch)' = Blocked(ch) \cup {q}
          /\ \A d \in Channels : d # ch => Blocked(d)' = Blocked(d)
      BY <3>1, <3>2, <2>1 DEF Blocked
    <3>5. \A d \in Channels :
             /\ IsInjective(waiters'[d]) /\ IsInjective(lockers'[d])
             /\ ToSet(waiters'[d]) \cap ToSet(lockers'[d]) = {}
      BY <3>0, <3>1, <3>2, <3>3, <2>1 DEF WaitersOnce
    <3>6. \A d \in Channels : q \notin Blocked(d)
      BY <3>0 DEF Blocked
    <3>7. \A d, e \in Channels : d # e => Blocked(d)' \cap Blocked(e)' = {}
      BY <3>4, <3>6 DEF WaitersOnce
    <3>8. waiting' = UNION {Blocked(d)' : d \in Channels}
      BY <2>1, <3>4 DEF WaitersOnce
    <3> QED BY <3>5, <3>7, <3>8, Zenon DEF WaitersOnce
  <2>4. NothingLost' BY <2>1 DEF NothingLost, TypeOK
  <2>5. NoNeedlessWait' BY <1>2, <2>1 DEF NoNeedlessWait, TypeOK
  <2>6. MutualExclusion' BY <2>1 DEF MutualExclusion
  <2> QED BY <2>2, <2>3, <2>4, <2>5, <2>6
<1> QED BY <1>1, <1>2

(* cmd_wait_for_lock takes a free lock or queues up for a held one.        *)
LEMMA LockStep ==
  ASSUME IInv, NEW q \in Queues, NEW ch \in Channels, cmd_wait_for_lock(q, ch)
  PROVE  IInv'
<1> USE DEF IInv
<1>1. CASE locked[ch]
  <2>1. /\ CanRun(q) /\ exists' = exists \cup {ch}
        /\ lockers' = [lockers EXCEPT ![ch] = Append(@, q)]
        /\ waiting' = waiting \cup {q}
        /\ UNCHANGED <<woken, locked, waiters, dead, granted, flushed>>
    BY <1>1 DEF cmd_wait_for_lock
  <2>2. TypeOK' BY <2>1 DEF TypeOK
  <2>3. WaitersOnce'
    <3>0. \A d \in Channels : q \notin ToSet(waiters[d]) /\ q \notin ToSet(lockers[d])
      BY <2>1, RunnerIsOnNoList
    <3>1. /\ lockers[ch] \in Seq(Queues) /\ lockers'[ch] = Append(lockers[ch], q)
          /\ \A d \in Channels : d # ch => lockers'[d] = lockers[d]
      BY <2>1 DEF TypeOK
    <3>2. ToSet(lockers'[ch]) = ToSet(lockers[ch]) \cup {q}
      BY <3>1, AppendSet
    <3>3. IsInjective(lockers'[ch])
      BY <3>0, <3>1, AppendInjectiveSeq DEF WaitersOnce
    <3>4. /\ Blocked(ch)' = Blocked(ch) \cup {q}
          /\ \A d \in Channels : d # ch => Blocked(d)' = Blocked(d)
      BY <3>1, <3>2, <2>1 DEF Blocked
    <3>5. \A d \in Channels :
             /\ IsInjective(waiters'[d]) /\ IsInjective(lockers'[d])
             /\ ToSet(waiters'[d]) \cap ToSet(lockers'[d]) = {}
      BY <3>0, <3>1, <3>2, <3>3, <2>1 DEF WaitersOnce
    <3>6. \A d \in Channels : q \notin Blocked(d)
      BY <3>0 DEF Blocked
    <3>7. \A d, e \in Channels : d # e => Blocked(d)' \cap Blocked(e)' = {}
      BY <3>4, <3>6 DEF WaitersOnce
    <3>8. waiting' = UNION {Blocked(d)' : d \in Channels}
      BY <2>1, <3>4 DEF WaitersOnce
    <3> QED BY <3>5, <3>7, <3>8, Zenon DEF WaitersOnce
  <2>4. NothingLost' BY <2>1 DEF NothingLost, TypeOK
  <2>5. NoNeedlessWait' BY <1>1, <2>1 DEF NoNeedlessWait, TypeOK
  <2>6. MutualExclusion' BY <2>1 DEF MutualExclusion
  <2> QED BY <2>2, <2>3, <2>4, <2>5, <2>6
<1>2. CASE ~locked[ch]
  <2>1. /\ exists' = exists \cup {ch}
        /\ locked' = [locked EXCEPT ![ch] = TRUE]
        /\ granted' = [granted EXCEPT ![ch] = @ \cup {q}]
        /\ UNCHANGED <<lockers, waiting, woken, waiters, dead, flushed>>
    BY <1>2 DEF cmd_wait_for_lock
  <2>2. TypeOK' BY <2>1 DEF TypeOK
  <2>3. WaitersOnce' BY <2>1 DEF WaitersOnce, Blocked
  <2>4. NothingLost' BY <2>1 DEF NothingLost, TypeOK
  <2>5. NoNeedlessWait' BY <1>2, <2>1 DEF NoNeedlessWait, TypeOK
  <2>6. MutualExclusion' BY <1>2, <2>1 DEF MutualExclusion, TypeOK
  <2> QED BY <2>2, <2>3, <2>4, <2>5, <2>6
<1> QED BY <1>1, <1>2

(* cmd_wait_for_unlock hands the lock to the first locker or frees it.     *)
LEMMA UnlockStep ==
  ASSUME IInv, NEW q \in Queues, NEW ch \in Channels, cmd_wait_for_unlock(q, ch)
  PROVE  IInv'
<1> USE DEF IInv
<1>0. ~flushed => Release(q, ch) = {}
  BY DEF MutualExclusion, Release
<1>1. CASE lockers[ch] # <<>>
  <2> DEFINE h == Head(lockers[ch])
  <2>1. /\ locked[ch]
        /\ waiting' = waiting \ {h}
        /\ lockers' = [lockers EXCEPT ![ch] = Tail(@)]
        /\ granted' = [granted EXCEPT ![ch] = Release(q, ch) \cup {h}]
        /\ UNCHANGED <<exists, locked, woken, waiters, dead, flushed>>
    BY <1>1 DEF cmd_wait_for_unlock
  <2>2. /\ lockers[ch] \in Seq(Queues) /\ lockers'[ch] = Tail(lockers[ch])
        /\ \A d \in Channels : d # ch => lockers'[d] = lockers[d]
    BY <2>1 DEF TypeOK
  <2>3. /\ h \in ToSet(lockers[ch]) /\ h \in Queues
        /\ ToSet(lockers[ch]) = ToSet(lockers'[ch]) \cup {h}
    BY <1>1, <2>2, TailSet
  <2>4. IsInjective(lockers'[ch]) /\ h \notin ToSet(lockers'[ch])
    BY <1>1, <2>2, TailInjective DEF WaitersOnce
  <2> HIDE DEF h
  <2>5. TypeOK'
    <3>1. lockers' \in [Channels -> Seq(Queues)]
      <4>1. Tail(lockers[ch]) \in Seq(Queues) BY <1>1, <2>2, HeadTailProperties
      <4> QED BY <4>1, <2>1 DEF TypeOK
    <3>2. granted' \in [Channels -> SUBSET Queues]
      <4>1. Release(q, ch) \cup {h} \in SUBSET Queues BY <2>3 DEF Release, TypeOK
      <4> QED BY <4>1, <2>1 DEF TypeOK
    <3> QED BY <3>1, <3>2, <2>1 DEF TypeOK
  <2>6. WaitersOnce'
    <3>1. /\ Blocked(ch) = Blocked(ch)' \cup {h} /\ h \notin Blocked(ch)'
          /\ \A d \in Channels : d # ch => Blocked(d)' = Blocked(d)
      BY <2>1, <2>2, <2>3, <2>4 DEF Blocked, WaitersOnce
    <3>2. \A d \in Channels :
             /\ IsInjective(waiters'[d]) /\ IsInjective(lockers'[d])
             /\ ToSet(waiters'[d]) \cap ToSet(lockers'[d]) = {}
      BY <2>1, <2>2, <2>3, <2>4 DEF WaitersOnce
    <3>3. \A d, e \in Channels : d # e => Blocked(d)' \cap Blocked(e)' = {}
      BY <3>1 DEF WaitersOnce
    <3>4. \A d \in Channels : h \notin Blocked(d)'
      BY <3>1 DEF WaitersOnce
    <3>5. waiting' = UNION {Blocked(d)' : d \in Channels}
      BY <2>1, <3>1, <3>4 DEF WaitersOnce
    <3> QED BY <3>2, <3>3, <3>5, Zenon DEF WaitersOnce
  <2>7. NothingLost' BY <2>1, <2>2 DEF NothingLost, TypeOK
  <2>8. NoNeedlessWait' BY <2>1, <2>2 DEF NoNeedlessWait, TypeOK
  <2>9. MutualExclusion' BY <1>0, <2>1 DEF MutualExclusion, TypeOK
  <2> QED BY <2>5, <2>6, <2>7, <2>8, <2>9
<1>2. CASE lockers[ch] = <<>>
  <2>1. /\ locked[ch]
        /\ locked' = [locked EXCEPT ![ch] = FALSE]
        /\ granted' = [granted EXCEPT ![ch] = Release(q, ch)]
        /\ cmd_wait_for_remove(ch, FALSE, woken[ch], waiters[ch])
        /\ UNCHANGED <<lockers, waiting, waiters, dead, flushed>>
    BY <1>2 DEF cmd_wait_for_unlock
  <2>2. TypeOK'
    <3>1. Release(q, ch) \in SUBSET Queues BY DEF Release, TypeOK
    <3> QED BY <2>1, <3>1 DEF TypeOK, cmd_wait_for_remove, Removed
  <2>3. WaitersOnce' BY <2>1 DEF WaitersOnce, Blocked
  <2>4. NothingLost'
    BY <1>2, <2>1 DEF NothingLost, TypeOK, cmd_wait_for_remove, Removed
  <2>5. NoNeedlessWait'
    BY <1>2, <2>1 DEF NoNeedlessWait, TypeOK, cmd_wait_for_remove, Removed
  <2>6. MutualExclusion' BY <1>0, <2>1 DEF MutualExclusion, TypeOK
  <2> QED BY <2>2, <2>3, <2>4, <2>5, <2>6
<1> QED BY <1>1, <1>2

(* cmd_wait_for_flush leaves nobody waiting and no channel.                *)
LEMMA FlushStep ==
  ASSUME IInv, cmd_wait_for_flush
  PROVE  IInv'
<1> USE DEF IInv, cmd_wait_for_flush
<1>1. \A ch \in Channels : /\ waiters'[ch] = <<>> /\ lockers'[ch] = <<>>
                           /\ ToSet(waiters'[ch]) = {} /\ ToSet(lockers'[ch]) = {}
                           /\ IsInjective(waiters'[ch]) /\ IsInjective(lockers'[ch])
                           /\ Blocked(ch)' = {}
  BY EmptyQueue DEF Blocked
<1>2. TypeOK'
  <2>1. <<>> \in Seq(Queues) OBVIOUS
  <2>2. \A ch \in Channels : granted[ch] \cup ToSet(lockers[ch]) \subseteq Queues
    BY SetOfQueue DEF TypeOK
  <2>3. granted' \in [Channels -> SUBSET Queues] BY <2>2
  <2>4. waiting' \subseteq Queues BY DEF TypeOK
  <2>5. dead' \subseteq Clients BY DEF TypeOK
  <2> QED BY <2>1, <2>3, <2>4, <2>5, Zenon DEF TypeOK
<1>3. WaitersOnce'
  <2>1. \A ch \in Channels : ch \notin exists => Blocked(ch) = {}
    BY EmptyQueue DEF NothingLost, Blocked
  <2>2. waiting' = {}
    BY <2>1 DEF WaitersOnce, Blocked
  <2>3. UNION {Blocked(d)' : d \in Channels} = {}
    BY <1>1
  <2>4. \A d, e \in Channels : d # e => Blocked(d)' \cap Blocked(e)' = {}
    BY <1>1
  <2> QED BY <1>1, <2>2, <2>3, <2>4, Zenon DEF WaitersOnce
<1>4. NothingLost' /\ NoNeedlessWait' /\ MutualExclusion'
  BY <1>1 DEF NothingLost, NoNeedlessWait, MutualExclusion
<1> QED BY <1>2, <1>3, <1>4

(* Every step of the server keeps the invariant.                           *)
LEMMA NextIInv == IInv /\ [Next]_vars => IInv'
<1> SUFFICES ASSUME IInv, [Next]_vars PROVE IInv'
  OBVIOUS
<1>1. ASSUME NEW q \in Queues, NEW ch \in Channels,
             \/ cmd_wait_for_signal(q, ch) \/ cmd_wait_for_wait(q, ch)
             \/ cmd_wait_for_lock(q, ch) \/ cmd_wait_for_unlock(q, ch)
      PROVE  IInv'
  BY <1>1, SignalStep, WaitStep, LockStep, UnlockStep
<1>2. ASSUME NEW c \in Clients, server_client_lost(c)
      PROVE  IInv'
  BY <1>2 DEF server_client_lost, IInv, TypeOK, WaitersOnce, Blocked,
              NothingLost, NoNeedlessWait, MutualExclusion
<1>3. CASE cmd_wait_for_flush
  BY <1>3, FlushStep
<1>4. CASE UNCHANGED vars
  BY <1>4 DEF vars, IInv, TypeOK, WaitersOnce, Blocked, NothingLost,
              NoNeedlessWait, MutualExclusion
<1> QED BY <1>1, <1>2, <1>3, <1>4 DEF Next

(* Always: the types are right, each waiting queue is on exactly one list  *)
(* once, no freed channel held anything, nobody waits needlessly and the   *)
(* lock of a channel has at most one holder until the server flushes.      *)
THEOREM WaitForInvariant == Spec => []IInv
BY InitIInv, NextIInv, PTL DEF Spec

(* Always: a queue is marked CMDQ_WAITING exactly when one list of one     *)
(* channel holds its item, once.                                           *)
THEOREM WaitersOnceTheorem == Spec => []WaitersOnce
<1>1. IInv => WaitersOnce BY DEF IInv
<1> QED BY <1>1, WaitForInvariant, PTL

(* Always: until the server flushes, at most one queue was granted the     *)
(* lock of a channel and not yet unlocked, and only while it is locked.    *)
THEOREM MutualExclusionTheorem == Spec => []MutualExclusion
<1>1. IInv => MutualExclusion BY DEF IInv
<1> QED BY <1>1, WaitForInvariant, PTL

(* Always: freeing a channel loses no waiter, locker, lock or signal.      *)
THEOREM NothingLostTheorem == Spec => []NothingLost
<1>1. IInv => NothingLost BY DEF IInv
<1> QED BY <1>1, WaitForInvariant, PTL

(* Always: nobody waits for a signal or a lock that is there to be had.    *)
THEOREM NoNeedlessWaitTheorem == Spec => []NoNeedlessWait
<1>1. IInv => NoNeedlessWait BY DEF IInv
<1> QED BY <1>1, WaitForInvariant, PTL
=============================================================================
