--------------------------- MODULE ResizingProofs ---------------------------
(***************************************************************************)
(* Proofs about Resizing, for any number of clients, sessions, windows and *)
(* sizes, and any number of changes.                                       *)
(*                                                                         *)
(* SizesFresh needs only the types with it.  What carries it: the size     *)
(* that clients_calculate_size returns is a size of the window (or there   *)
(* is none), recalculate_size leaves what it looked at alone, and a step   *)
(* that does not recalculate either changes nothing that the size depends  *)
(* on or is in missed.  The same types make every step one of PaneNext for *)
(* the pane, so that the theorems about PaneSize hold here.                *)
(*                                                                         *)
(* The proofs about PaneSize come first, for every set of sizes and a      *)
(* queue of any length.  PaneInv is inductive as it stands; each operator  *)
(* on a pane preserves it, so that every step of PaneNext, a turn of the   *)
(* loop with its resize and its check included, does.                      *)
(***************************************************************************)
EXTENDS Resizing, QueueLemmas, FiniteSetTheorems, TLAPS

(***************************************************************************)
(* A pane and its queue of sizes                                           *)
(***************************************************************************)

Pane == [sx : Sizes, queue : Seq([osx : Sizes, sx : Sizes]), timer : BOOLEAN,
         fd : BOOLEAN, tty : Sizes, stale : BOOLEAN]

\* The parts of QueueLeads, of any pane wp.
Steps(wp) ==
    /\ \A i \in 1 .. Len(wp.queue) : wp.queue[i].osx # wp.queue[i].sx
    /\ \A i \in 2 .. Len(wp.queue) : wp.queue[i].osx = wp.queue[i - 1].sx
Ends(wp) == wp.queue # <<>> => Last(wp.queue).sx = wp.sx
Starts(wp) ==
    /\ (wp.queue = <<>> /\ wp.fd) => wp.tty = wp.sx
    /\ (wp.queue # <<>> /\ wp.fd /\ ~wp.stale) => wp.queue[1].osx = wp.tty
Leads(wp) == Steps(wp) /\ Ends(wp) /\ Starts(wp)

PaneInv == PaneTypeOK /\ QueueLeads

\* What is in a sequence.
LEMMA InSequence ==
  ASSUME NEW T, NEW q \in Seq(T), NEW i \in 1 .. Len(q)
  PROVE  q[i] \in T
  OBVIOUS

LEMMA NotEmpty ==
  ASSUME NEW T, NEW q \in Seq(T), q # <<>>
  PROVE  /\ Len(q) \in Nat /\ Len(q) > 0 /\ (Len(q) = 1 \/ Len(q) > 1)
         /\ q[Len(q)] \in T
<1>1. Len(q) \in Nat /\ Len(q) # 0
  OBVIOUS
<1>2. \A n \in Nat : n # 0 => n > 0 /\ (n = 1 \/ n > 1) /\ n \in 1 .. n
  OBVIOUS
<1> QED
  BY <1>1, <1>2, InSequence

\* PaneInv is these two facts about the pane.
LEMMA InvIsLeads == PaneInv <=> pane \in Pane /\ Leads(pane)
  BY DEF PaneInv, PaneTypeOK, QueueLeads, Pane, Leads, Steps, Ends, Starts

\* window_pane_resize adds one step to the queue, from the old size of the pane.
LEMMA ResizeLeads ==
  ASSUME NEW wp \in Pane, NEW s \in Sizes, Leads(wp)
  PROVE  window_pane_resize(wp, s) \in Pane /\ Leads(window_pane_resize(wp, s))
<1>1. CASE s = wp.sx
  BY <1>1 DEF window_pane_resize
<1>2. CASE s # wp.sx
  <2> DEFINE e == [osx |-> wp.sx, sx |-> s]
             q == Append(wp.queue, e)
             np == window_pane_resize(wp, s)
  <2>1. /\ wp.queue \in Seq([osx : Sizes, sx : Sizes]) /\ wp.sx \in Sizes
        /\ e \in [osx : Sizes, sx : Sizes]
    BY DEF Pane
  <2>2. /\ np.queue = q /\ np.sx = s /\ np.tty = wp.tty /\ np.fd = wp.fd
        /\ np.stale = wp.stale /\ np \in Pane
    <3>1. np = [wp EXCEPT !.sx = s, !.queue = q]
      BY <1>2 DEF window_pane_resize
    <3>2. q \in Seq([osx : Sizes, sx : Sizes])
      BY <2>1
    <3> HIDE DEF q, np, e
    <3>3. np.queue = q /\ np.sx = s /\ np.tty = wp.tty
      BY <3>1 DEF Pane
    <3>4. np.fd = wp.fd /\ np.stale = wp.stale
      BY <3>1, Zenon DEF Pane
    <3>5. np \in Pane
      BY <3>1, <3>2 DEF Pane
    <3> QED
      BY <3>3, <3>4, <3>5
  <2>3. /\ q \in Seq([osx : Sizes, sx : Sizes]) /\ Len(q) = Len(wp.queue) + 1
        /\ Len(wp.queue) \in Nat
        /\ q[Len(q)] = e
        /\ \A i \in 1 .. Len(wp.queue) : q[i] = wp.queue[i]
    BY <2>1
  <2> HIDE DEF q, np
  <2>4. Steps(np)
    <3>1. \A i \in 1 .. Len(q) : q[i].osx # q[i].sx
      BY <1>2, <2>3 DEF Leads, Steps
    <3>2. ASSUME NEW i \in 2 .. Len(q) PROVE q[i].osx = q[i - 1].sx
      <4>1. CASE i = Len(q)
        <5>1. wp.queue # <<>> /\ i - 1 = Len(wp.queue)
          BY <4>1, <2>1, <2>3
        <5>2. q[i - 1].sx = wp.sx
          BY <5>1, <2>3 DEF Leads, Ends, Last
        <5> QED
          BY <4>1, <5>2, <2>3
      <4>2. CASE i # Len(q)
        BY <4>2, <2>3 DEF Leads, Steps
      <4> QED
        BY <4>1, <4>2
    <3> QED
      BY <3>1, <3>2, <2>2 DEF Steps
  <2>5. Ends(np)
    BY <2>2, <2>3 DEF Ends, Last
  <2>6. q # <<>>
    BY <2>3
  <2>7. Starts(np)
    <3>1. CASE wp.queue = <<>>
      <4>1. q[1] = e
        BY <3>1, <2>3
      <4> QED
        BY <3>1, <4>1, <2>2, <2>6 DEF Leads, Starts
    <3>2. CASE wp.queue # <<>>
      <4>1. q[1] = wp.queue[1]
        BY <3>2, <2>1, <2>3
      <4> QED
        BY <3>2, <4>1, <2>2, <2>6 DEF Leads, Starts
    <3> QED
      BY <3>1, <3>2
  <2> QED
    BY <2>2, <2>4, <2>5, <2>7 DEF Leads, np
<1> QED
  BY <1>1, <1>2

\* What the check sends is the size of the pane, or else is not yet; what is
\* left then leads from there to it.
LEMMA CheckLeads ==
  ASSUME NEW wp \in Pane, Leads(wp)
  PROVE  /\ server_client_check_pane_resize(wp) \in Pane
         /\ Leads(server_client_check_pane_resize(wp))
<1> DEFINE np == server_client_check_pane_resize(wp)
           q == wp.queue
<1>1. CASE ~wp.fd \/ q = <<>> \/ wp.timer
  BY <1>1 DEF server_client_check_pane_resize
<1>2. CASE ~(~wp.fd \/ q = <<>> \/ wp.timer)
  <2>1. q \in Seq([osx : Sizes, sx : Sizes]) /\ q # <<>> /\ wp.sx \in Sizes
    BY <1>2 DEF Pane
  <2>2. /\ Len(q) \in Nat /\ Len(q) > 0 /\ q[Len(q)] \in [osx : Sizes, sx : Sizes]
        /\ q[Len(q)].sx = wp.sx
    <3>1. Len(q) \in Nat /\ Len(q) > 0
      BY <2>1
    <3>2. q[Len(q)] \in [osx : Sizes, sx : Sizes]
      BY <2>1, NotEmpty, Zenon
    <3>3. q[Len(q)].sx = wp.sx
      BY <2>1 DEF Leads, Ends, Last
    <3> QED
      BY <3>1, <3>2, <3>3
  <2>3. np = [wp EXCEPT !.tty = Sent(q), !.queue = Left(q), !.timer = TRUE, !.stale = FALSE]
    BY <1>2 DEF server_client_check_pane_resize
  <2> HIDE DEF np
  <2>4. CASE Len(q) > 1 /\ Last(q).sx = q[1].osx
    <3> DEFINE n == Len(q)
    <3>1. Sent(q) = q[n - 1].sx /\ Left(q) = <<q[n]>>
      BY <2>4 DEF Sent, Left, Last
    <3>2. q[n - 1] \in [osx : Sizes, sx : Sizes] /\ q[n].osx = q[n - 1].sx /\ q[n].osx # q[n].sx
      <4>1. n \in 2 .. Len(q) /\ n \in 1 .. Len(q) /\ n - 1 \in 1 .. Len(q)
        BY <2>2, <2>4
      <4>2. q[n - 1] \in [osx : Sizes, sx : Sizes]
        <5> HIDE DEF q, n
        <5> QED
          BY <2>1, <4>1, InSequence
      <4> HIDE DEF n
      <4>3. q[n].osx = q[n - 1].sx /\ q[n].osx # q[n].sx
        BY <4>1 DEF Leads, Steps
      <4> QED
        BY <4>2, <4>3
    <3>3. Left(q) \in Seq([osx : Sizes, sx : Sizes]) /\ Sent(q) \in Sizes
      BY <3>1, <3>2, <2>2
    <3>4. np \in Pane
      BY <3>3, <2>3 DEF Pane
    <3>5. np.queue = <<q[n]>> /\ np.sx = wp.sx /\ np.tty = q[n - 1].sx
      BY <3>1, <2>3 DEF Pane
    <3>6. Len(np.queue) = 1 /\ np.queue[1] = q[n] /\ np.queue # <<>>
      BY <3>5
    <3> HIDE DEF n, q
    <3>7. Leads(np)
      BY <3>2, <3>5, <3>6, <2>2 DEF Leads, Steps, Ends, Starts, Last, n
    <3> QED
      BY <3>4, <3>7 DEF np
  <2>5. CASE ~(Len(q) > 1 /\ Last(q).sx = q[1].osx)
    <3>1. Sent(q) = wp.sx /\ Left(q) = <<>>
      BY <2>2, <2>5 DEF Sent, Left, Last
    <3>2. <<>> \in Seq([osx : Sizes, sx : Sizes])
      OBVIOUS
    <3>3. np \in Pane
      BY <3>1, <3>2, <2>1, <2>3 DEF Pane
    <3>4. np.queue = <<>> /\ np.sx = wp.sx /\ np.tty = wp.sx
      BY <3>1, <2>3 DEF Pane
    <3>5. Leads(np)
      BY <3>4 DEF Leads, Steps, Ends, Starts
    <3> QED
      BY <3>3, <3>5 DEF np
  <2> QED
    BY <2>4, <2>5
<1> QED
  BY <1>1, <1>2

\* Every step of PaneNext preserves the invariant.
LEMMA PaneStep == PaneInv /\ [PaneNext]_pane => PaneInv'
<1> SUFFICES ASSUME pane \in Pane, Leads(pane), [PaneNext]_pane
             PROVE  pane' \in Pane /\ Leads(pane')
  BY InvIsLeads DEF PaneInv, PaneTypeOK, QueueLeads, Pane, Leads, Steps, Ends, Starts
<1>1. CASE server_client_resize_timer
  <2>1. /\ pane'.queue = pane.queue /\ pane'.sx = pane.sx /\ pane'.tty = pane.tty
        /\ pane' \in Pane
    BY <1>1 DEF server_client_resize_timer, Pane
  <2>2. pane'.fd = pane.fd /\ pane'.stale = pane.stale
    BY <1>1, Zenon DEF server_client_resize_timer, Pane
  <2> QED
    BY <2>1, <2>2 DEF Leads, Steps, Ends, Starts
<1>2. CASE PaneDies
  <2>1. /\ pane'.queue = pane.queue /\ pane'.sx = pane.sx /\ pane'.tty = pane.tty
        /\ pane' \in Pane /\ ~pane'.fd
    BY <1>2 DEF PaneDies, Died, Pane
  <2> QED
    BY <2>1 DEF Leads, Steps, Ends, Starts
<1>3. CASE PaneRespawns
  <2>1. /\ pane'.queue = pane.queue /\ pane'.sx = pane.sx /\ pane'.tty = pane.sx
        /\ pane' \in Pane /\ (pane.queue # <<>> => pane'.stale)
    BY <1>3 DEF PaneRespawns, Respawned, Pane
  <2> QED
    BY <2>1 DEF Leads, Steps, Ends, Starts
<1>4. ASSUME NEW s \in Sizes, PaneResizes(s)
      PROVE  pane' \in Pane /\ Leads(pane')
  BY <1>4, ResizeLeads DEF PaneResizes
<1>5. ASSUME NEW s \in Sizes, PaneLoop(s)
      PROVE  pane' \in Pane /\ Leads(pane')
  <2>1. window_pane_resize(pane, s) \in Pane /\ Leads(window_pane_resize(pane, s))
    BY ResizeLeads
  <2> QED
    BY <2>1, <1>5, CheckLeads DEF PaneLoop
<1>6. CASE UNCHANGED pane
  BY <1>6
<1> QED
  BY <1>1, <1>2, <1>3, <1>4, <1>5, <1>6 DEF PaneNext

LEMMA PaneStart == PaneInit => PaneInv
<1> SUFFICES ASSUME NEW s \in Sizes, pane = NewPane(s) PROVE PaneInv
  BY DEF PaneInit
<1>1. pane \in Pane /\ pane.queue = <<>> /\ pane.tty = pane.sx
  BY DEF NewPane, Pane
<1>2. Leads(pane)
  BY <1>1 DEF Leads, Steps, Ends, Starts
<1> QED
  BY <1>1, <1>2, InvIsLeads

\* The size of the pane is what its terminal gets: for every sequence of
\* resizes, checks, timers, deaths and respawns the queue leads to it.
THEOREM PaneSizeCorrect == PaneSpec => [](PaneTypeOK /\ QueueLeads)
<1>1. PaneSpec => []PaneInv
  BY PaneStart, PaneStep, PTL DEF PaneSpec
<1> QED
  BY <1>1, PTL DEF PaneInv

\* A check of a pane in good order changes the size of the terminal.
LEMMA CheckRedraws ==
  ASSUME NEW wp \in Pane, Leads(wp), ~wp.timer, ~wp.stale,
         server_client_check_pane_resize(wp).timer
  PROVE  server_client_check_pane_resize(wp).tty # wp.tty
<1> DEFINE q == wp.queue
<1>1. wp.fd /\ q # <<>>
  BY DEF server_client_check_pane_resize
<1>2. q \in Seq([osx : Sizes, sx : Sizes]) /\ Len(q) \in Nat /\ Len(q) > 0
  BY <1>1 DEF Pane
<1>3. server_client_check_pane_resize(wp).tty = Sent(q)
  BY <1>1 DEF server_client_check_pane_resize, Pane
<1>4. q[1].osx = wp.tty
  BY <1>1 DEF Leads, Starts
<1>5. CASE Len(q) > 1 /\ Last(q).sx = q[1].osx
  <2>1. Sent(q) = q[Len(q) - 1].sx
    BY <1>5 DEF Sent
  <2>2. q[Len(q)].osx = q[Len(q) - 1].sx /\ q[Len(q)].osx # q[Len(q)].sx
    BY <1>2, <1>5 DEF Leads, Steps
  <2> QED
    BY <2>1, <2>2, <1>3, <1>4, <1>5 DEF Last
<1>6. CASE Len(q) > 1 /\ Last(q).sx # q[1].osx
  BY <1>3, <1>4, <1>6 DEF Sent
<1>7. CASE Len(q) = 1
  <2>1. Sent(q) = q[1].sx /\ q[1].osx # q[1].sx
    BY <1>7, <1>2 DEF Sent, Last, Leads, Steps
  <2> QED
    BY <2>1, <1>3, <1>4
<1>8. Len(q) = 1 \/ Len(q) > 1
  BY <1>1, <1>2, NotEmpty, Zenon
<1> QED
  BY <1>5, <1>6, <1>7, <1>8

\* Whatever the loop sends to the terminal is a change, so that the application
\* gets SIGWINCH and redraws, also when the size is the old one in the end.
THEOREM PaneRedraws == PaneSpec => Redraws
<1>1. PaneInv /\ [PaneNext]_pane =>
        [(~pane.timer /\ pane'.timer /\ ~pane.stale) => pane'.tty # pane.tty]_pane
  <2> SUFFICES ASSUME pane \in Pane, Leads(pane), PaneNext,
                      ~pane.timer, pane'.timer, ~pane.stale
               PROVE  pane'.tty # pane.tty
    BY InvIsLeads
  <2>1. CASE server_client_resize_timer
    BY <2>1 DEF server_client_resize_timer
  <2>2. CASE PaneDies \/ PaneRespawns
    <3>1. pane'.timer = pane.timer
      BY <2>2, Zenon DEF PaneDies, PaneRespawns, Died, Respawned, Pane
    <3> QED
      BY <3>1
  <2>3. ASSUME NEW s \in Sizes, PaneResizes(s) PROVE FALSE
    <3>1. pane'.timer = pane.timer
      <4>1. CASE s = pane.sx
        BY <2>3, <4>1 DEF PaneResizes, window_pane_resize
      <4>2. CASE s # pane.sx
        BY <2>3, <4>2, Zenon DEF PaneResizes, window_pane_resize, Pane
      <4> QED
        BY <4>1, <4>2
    <3> QED
      BY <3>1
  <2>4. ASSUME NEW s \in Sizes, PaneLoop(s) PROVE pane'.tty # pane.tty
    <3> DEFINE np == window_pane_resize(pane, s)
    <3>1. np \in Pane /\ Leads(np)
      BY ResizeLeads
    <3>2. np.tty = pane.tty
      BY DEF window_pane_resize, Pane
    <3>3. np.timer = pane.timer /\ np.stale = pane.stale
      <4>1. CASE s = pane.sx
        BY <4>1 DEF window_pane_resize
      <4>2. CASE s # pane.sx
        BY <4>2, Zenon DEF window_pane_resize, Pane
      <4> QED
        BY <4>1, <4>2
    <3>4. server_client_check_pane_resize(np).timer
      BY <2>4 DEF PaneLoop
    <3> HIDE DEF np
    <3>5. server_client_check_pane_resize(np).tty # np.tty
      BY <3>1, <3>3, <3>4, CheckRedraws
    <3> QED
      BY <3>2, <3>5, <2>4 DEF PaneLoop, np
  <2> QED
    BY <2>1, <2>2, <2>3, <2>4 DEF PaneNext
<1>2. PaneSpec => []PaneInv
  BY PaneStart, PaneStep, PTL DEF PaneSpec
<1> QED
  BY <1>1, <1>2, PTL DEF PaneSpec, Redraws

(***************************************************************************)
(* The size of windows                                                     *)
(***************************************************************************)

Flags == {"CONTROL", "IGNORESIZE", "SIZECHANGED", "WINDOWSIZECHANGED", "SUSPENDED", "EXIT"}
Kinds == {"largest", "smallest", "manual", "latest"}
Client == [session : Sessions \cup {None}, flags : SUBSET Flags, tty : Sizes, term : Sizes,
           cw : [Windows -> Sizes \cup {NoSize}], resized : BOOLEAN]

\* A window that has been asked to take a size has one to take.
Window ==
    {wr \in [sx : Sizes, new : Sizes \cup {NoSize}, resize : BOOLEAN, type : Kinds, aggressive : BOOLEAN,
             manual : Sizes, latest : Clients \cup {None}] : wr.resize => wr.new \in Sizes}

TypeOK ==
    /\ client \in [Clients -> Client]
    /\ win \in [Windows -> Window]
    /\ curw \in [Sessions -> Windows]
    /\ attached \in [Sessions -> Nat]
    /\ missed \subseteq {"latest", "flags", "suspend", "exit"}
    /\ changes \in Nat

\* The parts of SizesFresh, of any clients, current windows and window.
Fresh(cl, cur, w, wr) ==
    LET s == Calculated(cl, cur, w, wr)
    IN s # NoSize => s = IF wr.resize THEN wr.new ELSE wr.sx
Counted(cl, att) ==
    \A s \in Sessions : (att[s] # 0) = \E c \in Clients : cl[c].session = s /\ Attached(cl, c)

IInv == TypeOK /\ SizesFresh

-----------------------------------------------------------------------------
(* Sizes of clients. *)

LEMMA SizesAreNumbers == Sizes \subseteq Nat /\ 0 \notin Sizes
  BY SizesAssumption

\* The smallest of some numbers is one of them.
LEMMA MinOf ==
  ASSUME NEW S \in SUBSET Nat, S # {}
  PROVE  Min(S) \in S
<1> DEFINE R == OpToRel(<, Nat)
<1>1. PICK x \in S : \A y \in S : ~(<<y, x>> \in R)
  <2>1. IsWellFoundedOn(R, Nat)
    BY NatLessThanWellFounded
  <2> HIDE DEF R
  <2> QED
    BY <2>1, WFMin
<1>2. \A y \in S : x =< y
  <2> TAKE y \in S
  <2>1. ~(y < x)
    BY <1>1, LessThan
  <2> QED
    BY <2>1
<1> QED
  BY <1>2 DEF Min

\* So is the largest of finitely many: by induction over how many they are.
LEMMA MaxOf ==
  ASSUME NEW S \in SUBSET Nat, S # {}, IsFiniteSet(S)
  PROVE  Max(S) \in S
<1> DEFINE Bounded(T) == \E x \in T : \A y \in T : x >= y
           good == {n \in Nat : \A T \in SUBSET Nat :
                      IsFiniteSet(T) /\ Cardinality(T) = n + 1 => Bounded(T)}
<1>1. 0 \in good
  <2> SUFFICES ASSUME NEW T \in SUBSET Nat, IsFiniteSet(T), Cardinality(T) = 1
               PROVE  Bounded(T)
    OBVIOUS
  <2>1. PICK x : T = {x}
    BY FS_Singleton
  <2> QED
    BY <2>1
<1>2. ASSUME NEW n \in Nat, n \in good PROVE n + 1 \in good
  <2> SUFFICES ASSUME NEW T \in SUBSET Nat, IsFiniteSet(T), Cardinality(T) = n + 2
               PROVE  Bounded(T)
    BY <1>2
  <2>1. PICK z : z \in T
    BY FS_EmptySet
  <2>2. IsFiniteSet(T \ {z}) /\ Cardinality(T \ {z}) = n + 1 /\ T \ {z} \in SUBSET Nat
    BY <2>1, FS_RemoveElement
  <2>3. PICK x \in T \ {z} : \A y \in T \ {z} : x >= y
    BY <1>2, <2>2
  <2>4. CASE x >= z
    BY <2>1, <2>3, <2>4
  <2>5. CASE ~(x >= z)
    <3>1. x \in Nat /\ z \in Nat
      BY <2>1, <2>3
    <3>2. \A y \in T : z >= y
      BY <2>3, <2>5, <3>1
    <3> QED
      BY <2>1, <3>2
  <2> QED
    BY <2>4, <2>5
<1>3. Nat \subseteq good
  <2> HIDE DEF good
  <2> QED
    BY <1>1, <1>2, NatSetInduction
<1>4. Cardinality(S) \in Nat /\ Cardinality(S) # 0
  BY FS_CardinalityType, FS_EmptySet
<1>5. PICK n \in Nat : Cardinality(S) = n + 1
  <2>1. Cardinality(S) - 1 \in Nat
    BY <1>4
  <2> QED
    BY <1>4, <2>1
<1>6. Bounded(S)
  BY <1>3, <1>5
<1> QED
  BY <1>6 DEF Max

\* The sizes of some clients are finitely many.
LEMMA SizesFinite ==
  ASSUME NEW cl, NEW used \in SUBSET Clients, NEW w
  PROVE  IsFiniteSet({SizeFor(cl, c, w) : c \in used})
<1> DEFINE f == [c \in used |-> SizeFor(cl, c, w)]
           T == {SizeFor(cl, c, w) : c \in used}
<1>1. IsFiniteSet(used)
  BY FS_Subset, ResizingAssumption
<1>2. f \in Surjection(used, T)
  BY DEF Surjection
<1> QED
  BY <1>1, <1>2, FS_Surjection

\* What is calculated is a size, or there is none.
LEMMA CalculatedSize ==
  ASSUME NEW cl \in [Clients -> Client], NEW cur, NEW w \in Windows, NEW type, NEW aggressive,
         NEW latest, NEW manual, type = "manual" => manual \in Sizes
  PROVE  clients_calculate_size(cl, cur, w, type, aggressive, latest, manual) \in Sizes \cup {NoSize}
<1> DEFINE with == {c \in Clients : ~ignore_client_size(cl, c) /\ w \in WindowsOf[cl[c].session]}
           some == {c \in with : aggressive => cur[cl[c].session] = w}
           used == IF type = "latest" /\ Cardinality(with) > 1 THEN some \cap {latest} ELSE some
           sizes == {SizeFor(cl, c, w) : c \in used}
           limits == {cl[c].cw[w] : c \in {d \in some : "WINDOWSIZECHANGED" \in cl[d].flags}} \ {NoSize}
           best == CASE type = "manual" -> {manual}
                     [] type = "largest" /\ sizes # {} -> {Max(sizes)}
                     [] OTHER -> sizes
<1>1. some \subseteq Clients /\ used \in SUBSET Clients
  OBVIOUS
<1>2. sizes \subseteq Sizes
  <2>1. \A c \in Clients : cl[c].tty \in Sizes /\ cl[c].cw[w] \in Sizes \cup {NoSize}
    BY DEF Client
  <2> HIDE DEF used
  <2> QED
    BY <1>1, <2>1 DEF SizeFor
<1>3. limits \subseteq Sizes
  <2>1. \A c \in Clients : cl[c].cw[w] \in Sizes \cup {NoSize}
    BY DEF Client
  <2> HIDE DEF some
  <2> QED
    BY <1>1, <2>1
<1>4. IsFiniteSet(sizes)
  <2> HIDE DEF used
  <2> QED
    BY <1>1, SizesFinite
<1> HIDE DEF sizes, limits
<1>5. best \subseteq Sizes
  <2>1. sizes # {} => Max(sizes) \in Sizes
    BY <1>2, <1>4, SizesAreNumbers, MaxOf
  <2>2. CASE type = "manual"
    BY <2>2
  <2>3. CASE type = "largest" /\ sizes # {}
    BY <2>1, <2>3
  <2>4. CASE ~(type = "manual" \/ (type = "largest" /\ sizes # {}))
    BY <2>4, <1>2
  <2> QED
    BY <2>2, <2>3, <2>4
<1> HIDE DEF best
<1>6. best \cup limits # {} => Min(best \cup limits) \in Sizes
  <2>1. best \cup limits \in SUBSET Nat /\ best \cup limits \subseteq Sizes
    BY <1>3, <1>5, SizesAreNumbers
  <2> QED
    BY <2>1, MinOf
<1>7. clients_calculate_size(cl, cur, w, type, aggressive, latest, manual)
        = IF best \cup limits = {} THEN NoSize ELSE Min(best \cup limits)
  BY DEF clients_calculate_size, best, limits, sizes
<1> QED
  BY <1>6, <1>7

-----------------------------------------------------------------------------
(* recalculate_size and recalculate_sizes. *)

\* The size depends on a window through these fields only.
SameOptions(wr, old) ==
    /\ wr.type = old.type /\ wr.aggressive = old.aggressive
    /\ wr.latest = old.latest /\ wr.manual = old.manual

LEMMA CalculatedSame ==
  ASSUME NEW cl, NEW cur, NEW w, NEW wr, NEW old, SameOptions(wr, old)
  PROVE  Calculated(cl, cur, w, wr) = Calculated(cl, cur, w, old)
BY Zenon DEF Calculated, SameOptions

LEMMA CalculatedType ==
  ASSUME NEW cl \in [Clients -> Client], NEW cur, NEW w \in Windows, NEW wr \in Window
  PROVE  Calculated(cl, cur, w, wr) \in Sizes \cup {NoSize}
<1>1. wr.manual \in Sizes
  BY DEF Window
<1> QED
  BY <1>1, CalculatedSize DEF Calculated

\* resize_window gives a window a size and nothing else to take.
LEMMA ResizeWindow ==
  ASSUME NEW wr \in Window, NEW s \in Sizes
  PROVE  /\ resize_window(wr, s) \in Window /\ SameOptions(resize_window(wr, s), wr)
         /\ resize_window(wr, s).sx = s /\ ~resize_window(wr, s).resize
<1> DEFINE r == resize_window(wr, s)
<1>1. r = [wr EXCEPT !.sx = s, !.new = NoSize, !.resize = FALSE]
  BY DEF resize_window
<1>2. r.resize = FALSE
  BY <1>1, Zenon DEF Window
<1>3. r \in Window /\ r.sx = s /\ SameOptions(r, wr)
  BY <1>1 DEF Window, SameOptions
<1> QED
  BY <1>2, <1>3

\* After recalculate_size the window has the size its clients call for, or has
\* been asked to take it.
LEMMA RecalculateSize ==
  ASSUME NEW cl \in [Clients -> Client], NEW cur, NEW w \in Windows, NEW wr \in Window, NEW now \in BOOLEAN
  PROVE  /\ recalculate_size(cl, cur, w, wr, now) \in Window
         /\ SameOptions(recalculate_size(cl, cur, w, wr, now), wr)
         /\ Fresh(cl, cur, w, recalculate_size(cl, cur, w, wr, now))
<1> DEFINE s == Calculated(cl, cur, w, wr)
           same == s = (IF wr.resize THEN wr.new ELSE wr.sx)
           r == recalculate_size(cl, cur, w, wr, now)
<1>1. s \in Sizes \cup {NoSize}
  BY CalculatedType
<1>2. r = IF s = NoSize \/ (~now /\ same) THEN wr
          ELSE IF now \/ wr.type = "manual" THEN resize_window(wr, s)
          ELSE [wr EXCEPT !.new = s, !.resize = TRUE]
  BY DEF recalculate_size
<1> HIDE DEF r
<1>3. SameOptions(r, wr) => Calculated(cl, cur, w, r) = s
  BY CalculatedSame
<1> HIDE DEF s
<1>4. CASE s = NoSize \/ (~now /\ same)
  <2>1. r = wr
    BY <1>2, <1>4
  <2>2. SameOptions(r, wr)
    BY <2>1 DEF SameOptions
  <2> QED
    BY <1>3, <1>4, <2>1, <2>2 DEF Fresh, r
<1>5. CASE ~(s = NoSize \/ (~now /\ same)) /\ (now \/ wr.type = "manual")
  <2>1. r = resize_window(wr, s) /\ s \in Sizes
    BY <1>1, <1>2, <1>5
  <2>2. r \in Window /\ SameOptions(r, wr) /\ r.sx = s /\ ~r.resize
    BY <2>1, ResizeWindow
  <2> QED
    BY <1>3, <2>2 DEF Fresh, r
<1>6. CASE ~(s = NoSize \/ (~now /\ same)) /\ ~(now \/ wr.type = "manual")
  <2>1. r = [wr EXCEPT !.new = s, !.resize = TRUE] /\ s \in Sizes
    BY <1>1, <1>2, <1>6
  <2>2. r.resize = TRUE
    BY <2>1, Zenon DEF Window
  <2>3. r \in Window /\ r.new = s /\ SameOptions(r, wr)
    BY <2>1 DEF Window, SameOptions
  <2> QED
    BY <1>3, <2>2, <2>3 DEF Fresh, r
<1> QED
  BY <1>4, <1>5, <1>6

\* recalculate_sizes_update_session: a session is attached when it has a client
\* that is.
LEMMA AttachedCount ==
  ASSUME NEW cl \in [Clients -> Client], NEW att,
         att = [s \in Sessions |-> Cardinality({c \in Clients : cl[c].session = s /\ Attached(cl, c)})]
  PROVE  att \in [Sessions -> Nat] /\ Counted(cl, att)
<1> SUFFICES ASSUME NEW s \in Sessions
             PROVE  /\ att[s] \in Nat
                    /\ (att[s] # 0) = \E c \in Clients : cl[c].session = s /\ Attached(cl, c)
  BY DEF Counted
<1> DEFINE A == {c \in Clients : cl[c].session = s /\ Attached(cl, c)}
<1>1. IsFiniteSet(A)
  BY FS_Subset, ResizingAssumption
<1>2. Cardinality(A) \in Nat /\ (Cardinality(A) = 0 <=> A = {})
  <2> HIDE DEF A
  <2> QED
    BY <1>1, FS_CardinalityType, FS_EmptySet
<1>3. att[s] = Cardinality(A)
  OBVIOUS
<1> QED
  BY <1>2, <1>3

LEMMA FreshDef ==
  SizesFresh <=>
    (missed = {} => (\A w \in Windows : Fresh(client, curw, w, win[w])) /\ Counted(client, attached))
BY DEF SizesFresh, Fresh, Counted

LEMMA FreshDefNext ==
  SizesFresh' <=>
    (missed' = {} => (\A w \in Windows : Fresh(client', curw', w, win'[w])) /\ Counted(client', attached'))
BY DEF SizesFresh, Fresh, Counted, Calculated, clients_calculate_size, ignore_client_size, SizeFor, Attached

\* What every step has to show, with the step of the pane.
Good == TypeOK' /\ SizesFresh' /\ (PaneNext \/ UNCHANGED pane)

\* A pane takes the size of its window as PaneSize says.
LEMMA PaneFollowsStep ==
  ASSUME PaneFollows, win' \in [Windows -> Window]
  PROVE  PaneNext
<1>1. win'[Watched].sx \in Sizes
  BY ResizingAssumption DEF Window
<1> QED
  BY <1>1 DEF PaneFollows, PaneNext, PaneResizes

\* recalculate_sizes makes every size fresh.
LEMMA RecalculateSizes ==
  ASSUME NEW cl \in [Clients -> Client], NEW ws \in [Windows -> Window],
         NEW cur \in [Sessions -> Windows], NEW now \in BOOLEAN,
         recalculate_sizes_now(cl, ws, cur, now), changes' \in Nat
  PROVE  Good
<1>1. \A w \in Windows : win'[w] \in Window /\ Fresh(client', curw', w, win'[w])
  BY RecalculateSize DEF recalculate_sizes_now
<1>2. win' \in [Windows -> Window]
  BY <1>1 DEF recalculate_sizes_now
<1>3. attached' \in [Sessions -> Nat] /\ Counted(client', attached')
  BY AttachedCount DEF recalculate_sizes_now
<1>4. PaneNext
  BY <1>2, PaneFollowsStep DEF recalculate_sizes_now
<1> QED
  BY <1>1, <1>2, <1>3, <1>4, FreshDefNext DEF Good, TypeOK, recalculate_sizes_now

-----------------------------------------------------------------------------
(* Steps that recalculate nothing, or the size of one window. *)

\* The sizes depend on the clients that are attached, and on these fields of them.
SameSizes(new, cl) ==
    \A c \in Clients :
        /\ Attached(new, c) <=> Attached(cl, c)
        /\ Attached(cl, c) => /\ new[c].session = cl[c].session /\ new[c].flags = cl[c].flags
                              /\ new[c].tty = cl[c].tty /\ new[c].cw = cl[c].cw

LEMMA SameCalculated ==
  ASSUME NEW cl, NEW new, SameSizes(new, cl), NEW cur, NEW w, NEW wr
  PROVE  Calculated(new, cur, w, wr) = Calculated(cl, cur, w, wr)
<1> DEFINE With(x) == {c \in Clients : ~ignore_client_size(x, c) /\ w \in WindowsOf[x[c].session]}
           Some(x) == {c \in With(x) : wr.aggressive => cur[x[c].session] = w}
           Used(x) == IF wr.type = "latest" /\ Cardinality(With(x)) > 1 THEN Some(x) \cap {wr.latest} ELSE Some(x)
           Of(x) == {SizeFor(x, c, w) : c \in Used(x)}
           Limits(x) == {x[c].cw[w] : c \in {d \in Some(x) : "WINDOWSIZECHANGED" \in x[d].flags}} \ {NoSize}
           Best(z) == CASE wr.type = "manual" -> {wr.manual}
                        [] wr.type = "largest" /\ z # {} -> {Max(z)}
                        [] OTHER -> z
<1>1. \A c \in Clients : ignore_client_size(new, c) <=> ignore_client_size(cl, c)
  BY DEF ignore_client_size, SameSizes
<1>2. \A c \in Clients : ~ignore_client_size(cl, c) => Attached(cl, c)
  BY DEF ignore_client_size
<1>3. With(new) = With(cl)
  BY <1>1, <1>2 DEF SameSizes
<1>4. \A c \in With(cl) : /\ new[c].session = cl[c].session /\ new[c].flags = cl[c].flags
                          /\ new[c].tty = cl[c].tty /\ new[c].cw = cl[c].cw
  BY <1>2 DEF SameSizes
<1> HIDE DEF With
<1>5. Some(new) = Some(cl)
  BY <1>3, <1>4
<1>6. Used(new) = Used(cl) /\ Used(cl) \subseteq With(cl)
  BY <1>3, <1>5
<1>7. Limits(new) = Limits(cl)
  <2>1. Some(cl) \subseteq With(cl)
    OBVIOUS
  <2> HIDE DEF Some
  <2> QED
    BY <1>4, <1>5, <2>1
<1> HIDE DEF Used
<1>8. Of(new) = Of(cl)
  BY <1>4, <1>6 DEF SizeFor
<1>9. \A x : Calculated(x, cur, w, wr)
               = IF Best(Of(x)) \cup Limits(x) = {} THEN NoSize ELSE Min(Best(Of(x)) \cup Limits(x))
  BY DEF Calculated, clients_calculate_size, Used, With
<1> HIDE DEF Best, Of, Limits
<1> QED
  BY <1>7, <1>8, <1>9

LEMMA SameFresh ==
  ASSUME NEW cl, NEW new, SameSizes(new, cl), NEW cur, NEW w, NEW wr, Fresh(cl, cur, w, wr)
  PROVE  Fresh(new, cur, w, wr)
BY SameCalculated DEF Fresh

LEMMA SameCounted ==
  ASSUME NEW cl, NEW new, SameSizes(new, cl), NEW att, Counted(cl, att)
  PROVE  Counted(new, att)
BY DEF Counted, SameSizes

\* The latest client matters to type latest only.
LEMMA LatestUnused ==
  ASSUME NEW cl, NEW cur, NEW w, NEW wr \in Window, wr.type # "latest", NEW c \in Clients \cup {None}
  PROVE  Calculated(cl, cur, w, [wr EXCEPT !.latest = c]) = Calculated(cl, cur, w, wr)
<1> DEFINE r == [wr EXCEPT !.latest = c]
<1>1. r.type = wr.type /\ r.manual = wr.manual /\ r.latest = c
  BY DEF Window
<1>2. r.aggressive = wr.aggressive
  BY Zenon DEF Window
<1> HIDE DEF r
<1>3. \A a, m, l, t : t # "latest" =>
         clients_calculate_size(cl, cur, w, t, a, c, m) = clients_calculate_size(cl, cur, w, t, a, l, m)
  BY DEF clients_calculate_size
<1> QED
  BY <1>1, <1>2, <1>3 DEF Calculated, r

LEMMA LatestIsWindow ==
  ASSUME NEW wr \in Window, NEW c \in Clients \cup {None}
  PROVE  /\ [wr EXCEPT !.latest = c] \in Window /\ [wr EXCEPT !.latest = c].type = wr.type
         /\ [wr EXCEPT !.latest = c].sx = wr.sx /\ [wr EXCEPT !.latest = c].new = wr.new
         /\ [wr EXCEPT !.latest = c].resize = wr.resize
<1>1. [wr EXCEPT !.latest = c].resize = wr.resize
  BY Zenon DEF Window
<1> QED
  BY <1>1 DEF Window

LEMMA FreshLatest ==
  ASSUME NEW cl, NEW cur, NEW w, NEW wr \in Window, wr.type # "latest", NEW c \in Clients \cup {None},
         Fresh(cl, cur, w, wr)
  PROVE  Fresh(cl, cur, w, [wr EXCEPT !.latest = c])
<1> DEFINE r == [wr EXCEPT !.latest = c]
<1>1. Calculated(cl, cur, w, r) = Calculated(cl, cur, w, wr)
  BY LatestUnused
<1>2. r.sx = wr.sx /\ r.new = wr.new /\ r.resize = wr.resize
  BY LatestIsWindow
<1> HIDE DEF r
<1>3. Fresh(cl, cur, w, r)
  BY <1>1, <1>2 DEF Fresh
<1> QED
  BY <1>3 DEF r

\* server_client_update_latest leaves fresh sizes fresh.
LEMMA UpdateLatest ==
  ASSUME NEW cl \in [Clients -> Client], NEW ws \in [Windows -> Window], NEW c \in Clients,
         TypeOK
  PROVE  LET r == server_client_update_latest(cl, ws, c)
         IN /\ r \in [Windows -> Window]
            /\ (\A w \in Windows : Fresh(cl, curw, w, ws[w])) => \A w \in Windows : Fresh(cl, curw, w, r[w])
<1> DEFINE w == curw[cl[c].session]
           wr == [ws[w] EXCEPT !.latest = c]
           nw == IF wr.type = "latest" THEN recalculate_size(cl, curw, w, wr, FALSE) ELSE wr
           r == server_client_update_latest(cl, ws, c)
<1>1. CASE cl[c].session = None \/ ws[w].latest = c
  <2>1. r = ws
    BY <1>1 DEF server_client_update_latest
  <2> QED
    BY <2>1
<1>2. CASE ~(cl[c].session = None \/ ws[w].latest = c)
  <2>1. w \in Windows
    BY <1>2 DEF TypeOK, Client
  <2>2. r = [ws EXCEPT ![w] = nw]
    BY <1>2 DEF server_client_update_latest
  <2>3. wr \in Window /\ wr.type = ws[w].type
    BY <2>1, LatestIsWindow
  <2>4. nw \in Window /\ (Fresh(cl, curw, w, ws[w]) => Fresh(cl, curw, w, nw))
    <3>1. CASE wr.type = "latest"
      BY <2>1, <2>3, <3>1, RecalculateSize
    <3>2. CASE wr.type # "latest"
      <4>1. nw = wr /\ ws[w] \in Window /\ ws[w].type # "latest"
        BY <2>1, <2>3, <3>2
      <4> QED
        BY <4>1, <2>3, FreshLatest
    <3> QED
      BY <3>1, <3>2
  <2> HIDE DEF nw, w, r
  <2>5. r \in [Windows -> Window] /\ r[w] = nw /\ \A v \in Windows : v # w => r[v] = ws[v]
    BY <2>1, <2>2, <2>4
  <2> QED
    BY <2>1, <2>4, <2>5 DEF r
<1> QED
  BY <1>1, <1>2

-----------------------------------------------------------------------------
(* The actions. *)

\* A step that changes clients and is missed.
LEMMA MissedStep ==
  ASSUME IInv, NEW cl \in [Clients -> Client], NEW what \in {"flags", "suspend", "exit"},
         Missed(what, cl), changes' \in Nat
  PROVE  Good
<1>1. missed' # {} /\ missed' \subseteq {"latest", "flags", "suspend", "exit"}
  BY DEF IInv, TypeOK, Missed
<1>2. SizesFresh'
  BY <1>1, FreshDefNext
<1> QED
  BY <1>1, <1>2 DEF Good, IInv, TypeOK, Missed

\* A step that the sizes do not depend on.
LEMMA OtherStep ==
  ASSUME IInv, client' \in [Clients -> Client], SameSizes(client', client), changes' \in Nat,
         UNCHANGED <<win, curw, attached, missed>>, PaneNext \/ UNCHANGED pane
  PROVE  Good
<1>1. SizesFresh'
  BY SameFresh, SameCounted, FreshDef, FreshDefNext DEF IInv
<1> QED
  BY <1>1 DEF Good, IInv, TypeOK

\* A step that changes windows and keeps them fresh.
LEMMA WindowStep ==
  ASSUME IInv, win' \in [Windows -> Window],
         (\A w \in Windows : Fresh(client, curw, w, win[w])) => \A w \in Windows : Fresh(client, curw, w, win'[w]),
         changes' \in Nat, UNCHANGED <<client, curw, attached, missed>>, PaneNext \/ UNCHANGED pane
  PROVE  Good
<1>1. SizesFresh'
  BY FreshDef, FreshDefNext DEF IInv
<1> QED
  BY <1>1 DEF Good, IInv, TypeOK

\* One field of one client.
LEMMA ClientTypes ==
  ASSUME TypeOK, NEW c \in Clients
  PROVE  /\ client[c] \in Client
         /\ \A s \in Sessions \cup {None} : [client EXCEPT ![c].session = s] \in [Clients -> Client]
         /\ \A f \in SUBSET Flags : [client EXCEPT ![c].flags = f] \in [Clients -> Client]
BY DEF TypeOK, Client

LEMMA SetSession ==
  ASSUME IInv, NEW cl \in [Clients -> Client], NEW c \in Clients, NEW s \in Sessions,
         server_client_set_session(cl, c, s), changes' \in Nat
  PROVE  Good
<1> DEFINE w == curw[s]
           new == [cl EXCEPT ![c].session = s]
           rec(v) == recalculate_size(new, curw, v, win[v], FALSE)
<1>1. new \in [Clients -> Client] /\ w \in Windows /\ win \in [Windows -> Window] /\ curw' = curw
      /\ client' = new
  BY DEF Client, IInv, TypeOK, server_client_set_session
<1>2. \A v \in Windows : win'[v] = IF v = w THEN [rec(v) EXCEPT !.latest = c] ELSE rec(v)
  BY DEF server_client_set_session
<1> HIDE DEF new
<1>3. \A v \in Windows : rec(v) \in Window /\ SameOptions(rec(v), win[v]) /\ Fresh(new, curw, v, rec(v))
  BY <1>1, RecalculateSize
<1> HIDE DEF rec, w
<1>4. ASSUME NEW v \in Windows PROVE win'[v] \in Window
  <2>1. rec(v) \in Window /\ [rec(v) EXCEPT !.latest = c] \in Window
    BY <1>3, LatestIsWindow
  <2> QED
    BY <1>2, <2>1
<1>5. win' \in [Windows -> Window]
  BY <1>4 DEF server_client_set_session
<1>6. attached' \in [Sessions -> Nat] /\ Counted(new, attached')
  BY <1>1, AttachedCount DEF server_client_set_session, new
<1>7. PaneNext
  BY <1>5, PaneFollowsStep DEF server_client_set_session
<1>8. missed' = IF win[w].type = "latest" /\ win[w].latest # c THEN {"latest"} ELSE {}
  BY DEF server_client_set_session, w
<1>9. ASSUME missed' = {}, NEW v \in Windows PROVE Fresh(new, curw, v, win'[v])
  <2>1. CASE v # w
    BY <1>2, <1>3, <2>1
  <2>2. CASE v = w /\ win[w].type = "latest"
    <3>1. rec(w).latest = c
      BY <1>1, <1>3, <1>8, <1>9, <2>2 DEF SameOptions
    <3>2. [rec(w) EXCEPT !.latest = c] = rec(w)
      BY <1>1, <1>3, <3>1, Zenon DEF Window
    <3> QED
      BY <1>2, <1>3, <2>2, <3>2
  <2>3. CASE v = w /\ win[w].type # "latest"
    <3>1. rec(w).type # "latest"
      BY <1>1, <1>3, <2>3 DEF SameOptions
    <3>2. Fresh(new, curw, w, [rec(w) EXCEPT !.latest = c])
      BY <1>1, <1>3, <3>1, FreshLatest
    <3> QED
      BY <1>2, <2>3, <3>2
  <2> QED
    BY <2>1, <2>2, <2>3
<1>10. SizesFresh'
  BY <1>1, <1>6, <1>9, FreshDefNext
<1> QED
  BY <1>1, <1>5, <1>6, <1>7, <1>8, <1>10 DEF Good, TypeOK, IInv

LEMMA ChangeCounts ==
  ASSUME TypeOK, NEW what, Change(what)
  PROVE  changes' \in Nat
BY DEF TypeOK, Change

LEMMA ClientAttach ==
  ASSUME IInv, NEW c \in Clients, NEW s \in Sessions, NEW size \in Sizes, NEW flags \in Starting[c],
         cmd_attach_session(c, s, size, flags)
  PROVE  Good
<1>1. flags \in SUBSET Flags
  BY ResizingAssumption DEF Flags
<1> DEFINE r == [NoClient(size) EXCEPT !.flags = flags, !.resized = "CONTROL" \notin flags]
<1>2. r \in Client
  BY <1>1 DEF NoClient, Client
<1> HIDE DEF r
<1>3. [client EXCEPT ![c] = r] \in [Clients -> Client]
  BY <1>2 DEF IInv, TypeOK
<1> QED
  BY <1>3, SetSession, ChangeCounts DEF cmd_attach_session, IInv, r


LEMMA ClientKey ==
  ASSUME IInv, NEW c \in Clients, server_client_key_callback(c)
  PROVE  Good
<1>1. /\ win' \in [Windows -> Window]
      /\ (\A w \in Windows : Fresh(client, curw, w, win[w])) => \A w \in Windows : Fresh(client, curw, w, win'[w])
  BY UpdateLatest DEF server_client_key_callback, IInv, TypeOK
<1> QED
  BY <1>1, WindowStep, PaneFollowsStep, ChangeCounts DEF server_client_key_callback, IInv

LEMMA ClientTerminal ==
  ASSUME IInv, NEW c \in Clients, NEW size \in Sizes, TerminalResizes(c, size)
  PROVE  Good
<1>1. client \in [Clients -> Client] /\ client' = [client EXCEPT ![c].term = size, ![c].resized = TRUE]
  BY DEF TerminalResizes, IInv, TypeOK
<1>2. client' \in [Clients -> Client]
  BY <1>1 DEF Client
<1>3. SameSizes(client', client)
  <2>1. \A d \in Clients : /\ client'[d].session = client[d].session /\ client'[d].flags = client[d].flags
                           /\ client'[d].tty = client[d].tty /\ client'[d].cw = client[d].cw
    BY <1>1 DEF Client
  <2> QED
    BY <2>1 DEF SameSizes, Attached
<1> QED
  BY <1>2, <1>3, OtherStep, ChangeCounts DEF TerminalResizes, IInv

LEMMA ClientResize ==
  ASSUME IInv, NEW c \in Clients, server_client_dispatch_resize(c)
  PROVE  Good
<1>1. [client EXCEPT ![c].tty = client[c].term, ![c].resized = FALSE] \in [Clients -> Client]
  BY ZenonT(60) DEF IInv, TypeOK, Client
<1>2. server_client_update_latest(client, win, c) \in [Windows -> Window]
  BY UpdateLatest DEF IInv, TypeOK
<1> QED
  BY <1>1, <1>2, RecalculateSizes DEF server_client_dispatch_resize, recalculate_sizes, IInv, TypeOK

LEMMA ClientControlSize ==
  ASSUME IInv, NEW c \in Clients, NEW size \in Sizes, cmd_refresh_client_size(c, size)
  PROVE  Good
<1> DEFINE f == client[c].flags \cup {"SIZECHANGED"}
<1>1. f \in SUBSET Flags /\ client \in [Clients -> Client]
  BY DEF IInv, TypeOK, Client, Flags
<1>2. [client EXCEPT ![c].tty = size, ![c].flags = f] \in [Clients -> Client]
  <2> HIDE DEF f
  <2> QED
    BY <1>1 DEF Client
<1> QED
  BY <1>2, RecalculateSizes, ChangeCounts DEF cmd_refresh_client_size, IInv, TypeOK

LEMMA ClientControlWindow ==
  ASSUME IInv, NEW c \in Clients, NEW w \in Windows, NEW size \in Sizes \cup {NoSize},
         cmd_refresh_client_window(c, w, size)
  PROVE  Good
<1> DEFINE f == IF size = NoSize THEN client[c].flags ELSE client[c].flags \cup {"WINDOWSIZECHANGED"}
           g == [client[c].cw EXCEPT ![w] = size]
<1>1. f \in SUBSET Flags /\ client \in [Clients -> Client] /\ g \in [Windows -> Sizes \cup {NoSize}]
  BY DEF IInv, TypeOK, Client, Flags
<1>2. [client EXCEPT ![c].cw = g, ![c].flags = f] \in [Clients -> Client]
  <2> HIDE DEF f, g
  <2> QED
    BY <1>1 DEF Client
<1> QED
  BY <1>2, RecalculateSizes, ChangeCounts DEF cmd_refresh_client_window, IInv, TypeOK

\* The flags a client gets or loses.
LEMMA FlagSets ==
  ASSUME TypeOK, NEW c \in Clients, NEW f \in Flags
  PROVE  client[c].flags \cup {f} \in SUBSET Flags /\ client[c].flags \ {f} \in SUBSET Flags
BY DEF TypeOK, Client

LEMMA ToggledTypes ==
  ASSUME TypeOK, NEW c \in Clients
  PROVE  ToggleIgnoreSize(c) \in [Clients -> Client]
<1> DEFINE f == IF "IGNORESIZE" \in client[c].flags THEN client[c].flags \ {"IGNORESIZE"}
                ELSE client[c].flags \cup {"IGNORESIZE"}
<1>1. f \in SUBSET Flags
  BY FlagSets DEF Flags
<1>2. [client EXCEPT ![c].flags = f] \in [Clients -> Client]
  BY <1>1, ClientTypes
<1> QED
  BY <1>2 DEF ToggleIgnoreSize

LEMMA ClientFlags ==
  ASSUME IInv, NEW c \in Clients, server_client_set_flags(c)
  PROVE  Good
BY ToggledTypes, MissedStep, ChangeCounts DEF server_client_set_flags, IInv

LEMMA ClientSwitch ==
  ASSUME IInv, NEW c \in Clients, NEW s \in Sessions, NEW readonly \in BOOLEAN,
         cmd_switch_client(c, s, readonly)
  PROVE  Good
<1> DEFINE cl == IF readonly THEN ToggleIgnoreSize(c) ELSE client
<1>1. cl \in [Clients -> Client]
  BY ToggledTypes DEF IInv, TypeOK
<1>2. server_client_set_session(cl, c, s) /\ changes' \in Nat
  BY ChangeCounts DEF cmd_switch_client, IInv
<1> QED
  BY <1>1, <1>2, SetSession

LEMMA ClientSuspend ==
  ASSUME IInv, NEW c \in Clients, server_client_suspend(c) \/ server_lock_client(c)
  PROVE  Good
<1>1. [client EXCEPT ![c].flags = client[c].flags \cup {"SUSPENDED"}] \in [Clients -> Client]
  BY FlagSets, ClientTypes DEF IInv, Flags
<1>2. CASE server_client_suspend(c)
  BY <1>1, <1>2, MissedStep, ChangeCounts DEF server_client_suspend, IInv
<1>3. CASE server_lock_client(c)
  BY <1>1, <1>3, RecalculateSizes, ChangeCounts DEF server_lock_client, recalculate_sizes, IInv, TypeOK
<1> QED
  BY <1>2, <1>3

LEMMA ClientDetach ==
  ASSUME IInv, NEW c \in Clients, server_client_detach(c)
  PROVE  Good
<1>1. [client EXCEPT ![c].flags = client[c].flags \cup {"EXIT"}] \in [Clients -> Client]
  BY FlagSets, ClientTypes DEF IInv, Flags
<1> QED
  BY <1>1, MissedStep, ChangeCounts DEF server_client_detach, IInv

\* MSG_WAKEUP of a client without a session: it does not count before or after.
LEMMA ClientWakeup ==
  ASSUME IInv, NEW c \in Clients, server_client_dispatch_wakeup(c)
  PROVE  Good
<1> DEFINE cl == [client EXCEPT ![c].flags = client[c].flags \ {"SUSPENDED"}]
<1>1. cl \in [Clients -> Client] /\ client \in [Clients -> Client]
  BY FlagSets, ClientTypes DEF IInv, Flags, TypeOK
<1>2. CASE client[c].session # None
  BY <1>1, <1>2, RecalculateSizes DEF server_client_dispatch_wakeup, recalculate_sizes, IInv, TypeOK
<1>3. CASE client[c].session = None
  <2>1. cl[c].session = client[c].session /\ \A d \in Clients : d # c => cl[d] = client[d]
    BY <1>1 DEF Client
  <2>2. ~Attached(cl, c) /\ ~Attached(client, c)
    BY <1>3, <2>1 DEF Attached
  <2>3. client' = cl
    BY <1>3 DEF server_client_dispatch_wakeup
  <2> HIDE DEF cl
  <2>4. SameSizes(cl, client)
    <3> SUFFICES ASSUME NEW d \in Clients
                 PROVE  /\ Attached(cl, d) <=> Attached(client, d)
                        /\ Attached(client, d) => cl[d] = client[d]
      BY DEF SameSizes
    <3>1. CASE d = c
      BY <2>2, <3>1
    <3>2. CASE d # c
      BY <2>1, <3>2 DEF Attached
    <3> QED
      BY <3>1, <3>2
  <2> QED
    BY <1>1, <1>3, <2>3, <2>4, OtherStep DEF server_client_dispatch_wakeup, IInv, TypeOK
<1> QED
  BY <1>2, <1>3

LEMMA ClientExiting ==
  ASSUME IInv, NEW c \in Clients, server_client_dispatch_exiting(c)
  PROVE  Good
<1>1. [client EXCEPT ![c].session = None] \in [Clients -> Client]
  BY ClientTypes DEF IInv
<1> QED
  BY <1>1, RecalculateSizes DEF server_client_dispatch_exiting, recalculate_sizes, IInv, TypeOK

LEMMA ClientLost ==
  ASSUME IInv, NEW c \in Clients, server_client_lost(c)
  PROVE  Good
<1> DEFINE cl == [client EXCEPT ![c] = NoClient(DefaultSize)]
           Ws(f) == [w \in Windows |-> server_client_attached_lost(cl, w, c, f[w])]
<1>1. cl \in [Clients -> Client]
  <2>1. NoClient(DefaultSize) \in Client
    BY ResizingAssumption DEF NoClient, Client
  <2> QED
    BY <2>1 DEF IInv, TypeOK
<1>2. PICK found \in [Windows -> Clients \cup {None}] : recalculate_sizes(cl, Ws(found), curw)
  BY DEF server_client_lost
<1>3. changes' \in Nat
  BY ChangeCounts DEF server_client_lost, IInv, TypeOK
<1> HIDE DEF cl
<1>4. Ws(found) \in [Windows -> Window]
  <2> SUFFICES ASSUME NEW w \in Windows
               PROVE  server_client_attached_lost(cl, w, c, found[w]) \in Window
    OBVIOUS
  <2> DEFINE wr == [win[w] EXCEPT !.latest = found[w]]
  <2>1. win[w] \in Window /\ found[w] \in Clients \cup {None}
    BY <1>2 DEF IInv, TypeOK
  <2>2. wr \in Window
    BY <2>1, LatestIsWindow
  <2>3. recalculate_size(cl, curw, w, wr, FALSE) \in Window
    BY <1>1, <2>2, RecalculateSize
  <2> QED
    BY <2>1, <2>2, <2>3 DEF server_client_attached_lost
<1> QED
  BY <1>1, <1>2, <1>3, <1>4, RecalculateSizes DEF recalculate_sizes, IInv, TypeOK

LEMMA WindowSelect ==
  ASSUME IInv, NEW c \in Clients \cup {None}, NEW s \in Sessions, NEW w \in Windows,
         cmd_select_window(c, s, w)
  PROVE  Good
<1> DEFINE l == IF c = None THEN win[w].latest ELSE c
<1>1. l \in Clients \cup {None} /\ win[w] \in Window /\ win \in [Windows -> Window]
  BY DEF IInv, TypeOK, Window
<1> HIDE DEF l
<1>2. [win[w] EXCEPT !.latest = l] \in Window
  BY <1>1, LatestIsWindow
<1>3. [win EXCEPT ![w].latest = l] \in [Windows -> Window]
  BY <1>1, <1>2
<1>4. [curw EXCEPT ![s] = w] \in [Sessions -> Windows]
  BY DEF IInv, TypeOK
<1> QED
  BY <1>3, <1>4, RecalculateSizes, ChangeCounts DEF cmd_select_window, recalculate_sizes, IInv, TypeOK, l

\* resize-window: the size that -A and -a take is one.
LEMMA DefaultWindowSize ==
  ASSUME TypeOK, NEW w \in Windows, NEW type \in {"largest", "smallest"}
  PROVE  default_window_size(w, type) \in Sizes
<1>1. clients_calculate_size(client, curw, w, type, FALSE, None, NoSize) \in Sizes \cup {NoSize}
  BY CalculatedSize DEF TypeOK
<1> QED
  BY <1>1, ResizingAssumption DEF default_window_size

LEMMA WindowManual ==
  ASSUME IInv, NEW w \in Windows, NEW s \in Sizes, cmd_resize_window(w, s)
  PROVE  Good
<1> DEFINE wr == [win[w] EXCEPT !.type = "manual", !.manual = s]
           nw == recalculate_size(client, curw, w, wr, TRUE)
<1>1. win \in [Windows -> Window] /\ win' = [win EXCEPT ![w] = nw] /\ client \in [Clients -> Client]
  BY DEF IInv, TypeOK, cmd_resize_window
<1>2. wr \in Window
  <2>1. wr.resize = win[w].resize
    BY <1>1, Zenon DEF Window
  <2> QED
    BY <1>1, <2>1 DEF Window, Kinds
<1>3. nw \in Window /\ Fresh(client, curw, w, nw)
  BY <1>1, <1>2, RecalculateSize
<1> HIDE DEF nw
<1>4. /\ win' \in [Windows -> Window] /\ win'[w] = nw
      /\ \A v \in Windows : v # w => win'[v] = win[v]
  BY <1>1, <1>3
<1>5. (\A v \in Windows : Fresh(client, curw, v, win[v])) => \A v \in Windows : Fresh(client, curw, v, win'[v])
  BY <1>3, <1>4
<1> QED
  BY <1>4, <1>5, WindowStep, PaneFollowsStep, ChangeCounts DEF cmd_resize_window, IInv

LEMMA WindowOptions ==
  ASSUME IInv, NEW w \in Windows, NEW type \in Types, NEW aggressive \in BOOLEAN,
         options_push_changes(w, type, aggressive)
  PROVE  Good
<1> DEFINE wr == [win[w] EXCEPT !.type = type, !.aggressive = aggressive]
<1>1. win \in [Windows -> Window] /\ win[w] \in Window /\ type \in Kinds
  BY ResizingAssumption DEF IInv, TypeOK, Kinds
<1>2. wr \in Window
  <2>1. wr.resize = win[w].resize
    BY <1>1, Zenon DEF Window
  <2> QED
    BY <1>1, <2>1 DEF Window
<1>3. [win EXCEPT ![w].type = type, ![w].aggressive = aggressive] \in [Windows -> Window]
  BY <1>1, <1>2
<1> QED
  BY <1>3, RecalculateSizes, ChangeCounts DEF options_push_changes, recalculate_sizes, IInv, TypeOK

\* A turn of the loop gives windows the sizes they were asked to take.
LEMMA ServerLoop ==
  ASSUME IInv, server_client_loop
  PROVE  Good
<1>1. ASSUME NEW w \in Windows
      PROVE  /\ win'[w] \in Window
             /\ Fresh(client, curw, w, win[w]) => Fresh(client, curw, w, win'[w])
  <2>1. win[w] \in Window /\ win'[w] = server_client_check_window_resize(w)
    BY DEF server_client_loop, IInv, TypeOK
  <2>2. CASE win'[w] = win[w]
    BY <2>1, <2>2
  <2>3. CASE win'[w] # win[w]
    <3>1. win[w].resize /\ win'[w] = resize_window(win[w], win[w].new)
      BY <2>1, <2>3 DEF server_client_check_window_resize
    <3>2. win[w].new \in Sizes
      BY <2>1, <3>1 DEF Window
    <3>3. /\ win'[w] \in Window /\ SameOptions(win'[w], win[w])
          /\ win'[w].sx = win[w].new /\ ~win'[w].resize
      BY <2>1, <3>1, <3>2, ResizeWindow
    <3>4. Calculated(client, curw, w, win'[w]) = Calculated(client, curw, w, win[w])
      BY <3>3, CalculatedSame
    <3> QED
      BY <3>1, <3>3, <3>4 DEF Fresh
  <2> QED
    BY <2>2, <2>3
<1>2. win' \in [Windows -> Window]
  BY <1>1 DEF server_client_loop
<1>3. PaneNext
  <2>1. win'[Watched].sx \in Sizes
    BY <1>2, ResizingAssumption DEF Window
  <2> QED
    BY <2>1 DEF server_client_loop, PaneNext, PaneLoop
<1> QED
  BY <1>1, <1>2, <1>3, WindowStep DEF server_client_loop, IInv, TypeOK

-----------------------------------------------------------------------------
(* The steps together, and the theorems. *)

LEMMA Start == Init => IInv /\ PaneInit
<1> SUFFICES ASSUME Init PROVE IInv /\ PaneInit
  OBVIOUS
<1>1. NoClient(DefaultSize) \in Client
  BY ResizingAssumption DEF NoClient, Client
<1>2. client \in [Clients -> Client] /\ \A c \in Clients : client[c].session = None
  BY <1>1 DEF Init, NoClient
<1> DEFINE r == [sx |-> DefaultSize, new |-> NoSize, resize |-> FALSE, type |-> "latest",
                 aggressive |-> FALSE, manual |-> DefaultSize, latest |-> None]
<1>3. r \in Window
  BY ResizingAssumption DEF Window, Kinds
<1>4. win = [w \in Windows |-> r]
  BY DEF Init
<1> HIDE DEF r
<1>5. TypeOK
  BY <1>2, <1>3, <1>4 DEF Init, TypeOK
<1>6. \A c \in Clients : ~Attached(client, c)
  BY <1>2 DEF Attached
<1>7. Counted(client, attached)
  BY <1>6 DEF Counted, Init
<1>8. ASSUME NEW w \in Windows PROVE Fresh(client, curw, w, win[w])
  <2>1. \A c \in Clients : ignore_client_size(client, c)
    BY <1>6 DEF ignore_client_size
  <2>2. win[w].type = "latest"
    BY <1>4 DEF r
  <2>3. ASSUME NEW a, NEW l, NEW m
        PROVE  clients_calculate_size(client, curw, w, "latest", a, l, m) = NoSize
    <3> DEFINE with == {c \in Clients : ~ignore_client_size(client, c) /\ w \in WindowsOf[client[c].session]}
               some == {c \in with : a => curw[client[c].session] = w}
               used == IF Cardinality(with) > 1 THEN some \cap {l} ELSE some
               sizes == {SizeFor(client, c, w) : c \in used}
               limits == {client[c].cw[w] : c \in {d \in some : "WINDOWSIZECHANGED" \in client[d].flags}} \ {NoSize}
    <3>1. with = {}
      BY <2>1
    <3>2. some = {} /\ used = {}
      BY <3>1
    <3>3. sizes = {} /\ limits = {}
      BY <3>2
    <3>4. clients_calculate_size(client, curw, w, "latest", a, l, m)
            = IF sizes \cup limits = {} THEN NoSize ELSE Min(sizes \cup limits)
      BY DEF clients_calculate_size
    <3> QED
      BY <3>3, <3>4
  <2>4. Calculated(client, curw, w, win[w]) = NoSize
    BY <2>2, <2>3 DEF Calculated
  <2> QED
    BY <2>4 DEF Fresh
<1>9. SizesFresh
  BY <1>7, <1>8, FreshDef
<1> QED
  BY <1>5, <1>9, ResizingAssumption DEF IInv, Init, PaneInit

\* A step of a client.
LEMMA ClientStep ==
  ASSUME IInv, NEW c \in Clients,
         \/ \E s \in Sessions, size \in Sizes, flags \in Starting[c] : cmd_attach_session(c, s, size, flags)
         \/ \E s \in Sessions, readonly \in BOOLEAN : cmd_switch_client(c, s, readonly)
         \/ server_client_key_callback(c)
         \/ \E size \in Sizes : TerminalResizes(c, size)
         \/ server_client_dispatch_resize(c)
         \/ \E size \in Sizes : cmd_refresh_client_size(c, size)
         \/ \E w \in Windows, size \in Sizes \cup {NoSize} : cmd_refresh_client_window(c, w, size)
         \/ server_client_set_flags(c)
         \/ server_client_suspend(c)
         \/ server_lock_client(c)
         \/ server_client_dispatch_wakeup(c)
         \/ server_client_detach(c)
         \/ server_client_dispatch_exiting(c)
         \/ server_client_lost(c)
  PROVE  Good
BY ClientAttach, ClientSwitch, ClientKey, ClientTerminal, ClientResize, ClientControlSize,
   ClientControlWindow, ClientFlags, ClientSuspend, ClientWakeup, ClientDetach, ClientExiting, ClientLost

\* A step of a window that commands steer.
LEMMA SteeredStep ==
  ASSUME IInv, NEW w \in Steered,
         \/ \E s \in Sizes \cup {default_window_size(w, "largest"), default_window_size(w, "smallest")} :
                cmd_resize_window(w, s)
         \/ \E type \in Types, aggressive \in BOOLEAN : options_push_changes(w, type, aggressive)
  PROVE  Good
<1>1. w \in Windows
  BY ResizingAssumption
<1>2. Sizes \cup {default_window_size(w, "largest"), default_window_size(w, "smallest")} = Sizes
  BY <1>1, DefaultWindowSize DEF IInv
<1> QED
  BY <1>1, <1>2, WindowManual, WindowOptions

LEMMA Step == IInv /\ [Next]_vars => IInv' /\ [PaneNext]_pane
<1> SUFFICES ASSUME IInv, [Next]_vars PROVE Good
  BY DEF Good, IInv
<1>1. SameSizes(client, client)
  BY DEF SameSizes
<1>2. CASE UNCHANGED vars
  BY <1>1, <1>2, OtherStep DEF vars, IInv, TypeOK
<1>3. CASE server_client_loop
  BY <1>3, ServerLoop
<1>4. CASE Timer
  BY <1>1, <1>4, OtherStep DEF Timer, PaneNext, IInv, TypeOK
<1>5. CASE ProcessEnds \/ ProcessStarts
  <2>1. PaneNext /\ changes' \in Nat
    BY <1>5, ChangeCounts DEF ProcessEnds, ProcessStarts, PaneNext, IInv
  <2> QED
    BY <1>1, <1>5, <2>1, OtherStep DEF ProcessEnds, ProcessStarts, IInv, TypeOK
<1> QED
  BY <1>2, <1>3, <1>4, <1>5, ClientStep, SteeredStep, WindowSelect DEF Next

LEMMA Invariant == Spec => []IInv
<1>1. Init => IInv
  BY Start
<1>2. IInv /\ [Next]_vars => IInv'
  BY Step
<1> QED
  BY <1>1, <1>2, PTL DEF Spec

\* The state of clients, windows and sessions has its types; a window that has
\* been asked to take a size has one to take.
THEOREM ResizingTypeCorrect == Spec => []TypeOK
BY Invariant, PTL DEF IInv

\* However clients attach, leave, stop, change sizes and flags, and whatever
\* options and commands do: unless something is in missed, every window has the
\* size its clients call for, or has been asked to take it (recalculate_size).
THEOREM SizesFreshHolds == Spec => []SizesFresh
BY Invariant, PTL DEF IInv

\* Every step, of whatever client or window, is for the pane of a window one
\* that PaneSize allows: the refinement of PaneSize by Resizing.
THEOREM PaneDrivenHolds == Spec => PaneDriven
<1>1. Init => PaneInit
  BY Start
<1>2. IInv /\ [Next]_vars => [PaneNext]_pane
  BY Step
<1> QED
  BY <1>1, <1>2, Invariant, PTL DEF Spec, PaneDriven, PaneSpec

\* So the queue of sizes of a pane leads from the size of its terminal to its own
\* (window_pane_resize, server_client_check_pane_resize), whatever the clients do.
THEOREM QueueLeadsHolds == Spec => []QueueLeads
BY PaneDrivenHolds, PaneSizeCorrect, PTL DEF PaneDriven

\* And what the loop sends to a terminal always changes its size.
THEOREM RedrawsHolds == Spec => Redraws
BY PaneDrivenHolds, PaneRedraws, PTL DEF PaneDriven
=============================================================================
