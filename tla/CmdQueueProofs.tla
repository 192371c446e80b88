--------------------------- MODULE CmdQueueProofs ---------------------------
(***************************************************************************)
(* Proofs about CmdQueue, for any number of clients, lists and jobs.       *)
(***************************************************************************)
EXTENDS CmdQueue, QueueLemmas, FiniteSetTheorems

(* What has not been run, and what may be at the head of a queue.          *)
Unfired == {x \in Items : ~x.fired /\ ~x.waiting}
Heads == {x \in Items : x.waiting => x.fired}
Tidy(l) == l # <<>> => Head(l) \in Heads /\ Tail(l) \in Seq(Unfired)

(* An item by itself, when n lists have been queued.                       *)
ItemOK(x, n) ==
    /\ x.what # "command" => x.run = 0 /\ x.group = 0 /\ ~x.nohooks
    /\ x.what = "command" => /\ x.run \in 1 .. n
                             /\ x.group \in {x.run, HookGroup, KeyGroup, BraceGroup}
    /\ x.group = HookGroup => x.nohooks
    /\ x.group = BraceGroup => InBraces

(* An item and one behind it in the same queue.                            *)
Pair(x, y) ==
    /\ x.run = y.run /\ x.run # 0 => x.group = y.group /\ x.pos < y.pos
    /\ x.group = y.group /\ x.group \in {HookGroup, KeyGroup} => x.run = y.run
    /\ y.group = HookGroup => x.nohooks \/ x.fired
    /\ x.what = "key" => y.group # KeyGroup

(* Three items in the order of a queue.                                    *)
Space(x, y, z) == x.run = z.run /\ x.run # 0 => y.run >= x.run

Paired(l) == \A i, j \in 1 .. Len(l) : i < j => Pair(l[i], l[j])
Spaced(l) == \A i, j, k \in 1 .. Len(l) : i < j /\ j < k => Space(l[i], l[j], l[k])

(* What is behind the head of a queue, the head x and what follows it, and *)
(* a queue.                                                                *)
RestOK(t, n) ==
    t \in Seq(Unfired) /\ (\A x \in ToSet(t) : ItemOK(x, n)) /\ Paired(t) /\ Spaced(t)
Follows(x, t) ==
    /\ \A i \in 1 .. Len(t) : Pair(x, t[i])
    /\ \A i, j \in 1 .. Len(t) : i < j => Space(x, t[i], t[j])
QueueOK(l, n) ==
    /\ l \in Seq(Items)
    /\ l # <<>> => /\ Head(l) \in Heads /\ ItemOK(Head(l), n)
                   /\ RestOK(Tail(l), n) /\ Follows(Head(l), Tail(l))

(* All queues L, when n lists have been queued and those in F have failed: *)
(* a list of commands has no item in two queues, and none when it failed.  *)
AllOK(L, n, F) ==
    /\ \A q \in Queues : QueueOK(L[q], n)
    /\ \A p, q \in Queues : \A x \in ToSet(L[p]), y \in ToSet(L[q]) :
          x.run = y.run /\ x.run # 0 => p = q
    /\ F \subseteq 1 .. n
    /\ \A q \in Queues : \A x \in ToSet(L[q]) : x.run \notin F

(* Those who wait, the jobs J and on channels S, wait for the heads of     *)
(* different queues, which know it.  Behind a head that waits for a shell  *)
(* and may run hooks there is no hook.                                     *)
Wakers(L, J, S) ==
    /\ \A j, k \in J : j.queue = k.queue /\ j.queue # None => j = k
    /\ \A j \in J : j.queue # None =>
          /\ j.queue \notin S /\ L[j.queue] # <<>> /\ Head(L[j.queue]).waiting
          /\ j.what = "shell" /\ ~Head(L[j.queue]).nohooks
               => \A x \in ToSet(L[j.queue]) : x.group # HookGroup
    /\ \A q \in S : L[q] # <<>> /\ Head(L[q]).waiting

Types ==
    /\ clients \in Seq(Clients)
    /\ list \in [Queues -> Seq(Items)]
    /\ held \in [Queues -> BOOLEAN]
    /\ cur \in Queues \cup {None} /\ todo \in Seq(Clients) /\ ran \in BOOLEAN
    /\ jobs \subseteq Jobs /\ signals \subseteq Queues
    /\ freed \subseteq Clients /\ lists \in 0 .. MaxLists
    /\ failed \subseteq Nat /\ leaked \in [Clients -> Nat] /\ lost \in BOOLEAN

QInv == Types /\ AllOK(list, lists, failed) /\ Wakers(list, jobs, signals)

-----------------------------------------------------------------------------
(* Queues and their parts. *)

LEMMA UnfiredItems == Unfired \subseteq Items /\ Unfired \subseteq Heads
BY DEF Unfired, Heads

LEMMA RestItems ==
  ASSUME NEW t \in Seq(Unfired)
  PROVE  t \in Seq(Items)
BY SeqMonotonic, UnfiredItems

LEMMA InSet ==
  ASSUME NEW T, NEW s \in Seq(T)
  PROVE  /\ \A i \in 1 .. Len(s) : s[i] \in ToSet(s)
         /\ \A x \in ToSet(s) : x \in T /\ \E i \in 1 .. Len(s) : x = s[i]
         /\ Len(s) \in Nat
BY LenProperties, ElementOfSeq DEF ToSet

LEMMA ItemMonotonic ==
  ASSUME NEW x, NEW n \in Nat, NEW m \in Nat, n <= m, ItemOK(x, n)
  PROVE  ItemOK(x, m)
<1>1. 1 .. n \subseteq 1 .. m
  OBVIOUS
<1> QED
  BY <1>1, Zenon DEF ItemOK

LEMMA RestMonotonic ==
  ASSUME NEW t, NEW n \in Nat, NEW m \in Nat, n <= m, RestOK(t, n)
  PROVE  RestOK(t, m)
BY ItemMonotonic DEF RestOK

LEMMA QueueMonotonic ==
  ASSUME NEW l, NEW n \in Nat, NEW m \in Nat, n <= m, QueueOK(l, n)
  PROVE  QueueOK(l, m)
BY ItemMonotonic, RestMonotonic DEF QueueOK

LEMMA EmptyRest ==
  ASSUME NEW n
  PROVE  RestOK(<<>>, n) /\ \A x : Follows(x, <<>>)
<1>1. ToSet(<<>>) = {}
  BY EmptyQueue
<1>2. <<>> \in Seq(Unfired) /\ Len(<<>>) = 0
  OBVIOUS
<1> QED
  BY <1>1, <1>2 DEF RestOK, Follows, Paired, Spaced

(* The entries of s \o t.                                                  *)
LEMMA ConcatAt ==
  ASSUME NEW T, NEW s \in Seq(T), NEW t \in Seq(T), NEW i \in 1 .. Len(s \o t)
  PROVE  \/ i \in 1 .. Len(s) /\ (s \o t)[i] = s[i]
         \/ i > Len(s) /\ i - Len(s) \in 1 .. Len(t) /\ (s \o t)[i] = t[i - Len(s)]
<1>1. Len(s) \in Nat /\ Len(t) \in Nat
  BY LenProperties
<1>2. i \in 1 .. Len(s) + Len(t) /\ (s \o t)[i] = IF i <= Len(s) THEN s[i] ELSE t[i - Len(s)]
  BY ConcatProperties
<1> QED
  BY <1>1, <1>2

LEMMA ConcatRest ==
  ASSUME NEW n, NEW s, NEW t, RestOK(s, n), RestOK(t, n),
         \A x \in ToSet(s), y \in ToSet(t) : Pair(x, y) /\ (x.run = y.run => x.run = 0)
  PROVE  RestOK(s \o t, n)
<1>1. s \in Seq(Unfired) /\ t \in Seq(Unfired)
  BY DEF RestOK
<1>2. s \o t \in Seq(Unfired) /\ ToSet(s \o t) = ToSet(s) \cup ToSet(t)
  BY <1>1, ConcatSet
<1>3. \A x \in ToSet(s \o t) : ItemOK(x, n)
  BY <1>2 DEF RestOK
<1> DEFINE u == s \o t
<1>4. \A i \in 1 .. Len(u) :
         \/ i \in 1 .. Len(s) /\ u[i] = s[i]
         \/ i > Len(s) /\ i - Len(s) \in 1 .. Len(t) /\ u[i] = t[i - Len(s)]
  BY <1>1, ConcatAt
<1>5. Len(s) \in Nat /\ Len(t) \in Nat /\ Len(u) \in Nat
  BY <1>1, <1>2, LenProperties
<1>6. /\ \A i \in 1 .. Len(s) : s[i] \in ToSet(s)
      /\ \A i \in 1 .. Len(t) : t[i] \in ToSet(t)
  BY <1>1, InSet
<1> HIDE DEF u
<1>7. Paired(u)
  <2> SUFFICES ASSUME NEW i \in 1 .. Len(u), NEW j \in 1 .. Len(u), i < j PROVE Pair(u[i], u[j])
    BY DEF Paired
  <2>1. CASE i \in 1 .. Len(s) /\ u[i] = s[i] /\ j \in 1 .. Len(s) /\ u[j] = s[j]
    BY <2>1 DEF RestOK, Paired
  <2>2. CASE i \in 1 .. Len(s) /\ u[i] = s[i] /\ j > Len(s) /\ j - Len(s) \in 1 .. Len(t) /\ u[j] = t[j - Len(s)]
    BY <2>2, <1>6
  <2>3. CASE i > Len(s) /\ i - Len(s) \in 1 .. Len(t) /\ u[i] = t[i - Len(s)]
    <3>1. j > Len(s) /\ j - Len(s) \in 1 .. Len(t) /\ u[j] = t[j - Len(s)] /\ i - Len(s) < j - Len(s)
      BY <2>3, <1>4, <1>5
    <3> QED
      BY <2>3, <3>1 DEF RestOK, Paired
  <2> QED
    BY <2>1, <2>2, <2>3, <1>4
<1>8. Spaced(u)
  <2> SUFFICES ASSUME NEW i \in 1 .. Len(u), NEW j \in 1 .. Len(u), NEW k \in 1 .. Len(u), i < j, j < k
               PROVE  Space(u[i], u[j], u[k])
    BY DEF Spaced
  <2>1. CASE k \in 1 .. Len(s) /\ u[k] = s[k]
    <3>1. i \in 1 .. Len(s) /\ j \in 1 .. Len(s) /\ u[i] = s[i] /\ u[j] = s[j]
      BY <2>1, <1>4, <1>5
    <3> QED
      BY <2>1, <3>1 DEF RestOK, Spaced
  <2>2. CASE i \in 1 .. Len(s) /\ u[i] = s[i] /\ k > Len(s) /\ k - Len(s) \in 1 .. Len(t) /\ u[k] = t[k - Len(s)]
    BY <2>2, <1>6 DEF Space
  <2>3. CASE i > Len(s) /\ i - Len(s) \in 1 .. Len(t) /\ u[i] = t[i - Len(s)]
    <3>1. /\ j > Len(s) /\ j - Len(s) \in 1 .. Len(t) /\ u[j] = t[j - Len(s)] /\ i - Len(s) < j - Len(s)
          /\ k > Len(s) /\ k - Len(s) \in 1 .. Len(t) /\ u[k] = t[k - Len(s)] /\ j - Len(s) < k - Len(s)
      BY <2>3, <1>4, <1>5
    <3> QED
      BY <2>3, <3>1 DEF RestOK, Spaced
  <2> QED
    BY <2>1, <2>2, <2>3, <1>4
<1> QED
  BY <1>2, <1>3, <1>7, <1>8 DEF RestOK, u

LEMMA FollowsConcat ==
  ASSUME NEW x, NEW s \in Seq(Unfired), NEW t \in Seq(Unfired), Follows(x, s), Follows(x, t),
         \A y \in ToSet(s), z \in ToSet(t) : x.run = z.run /\ x.run # 0 => y.run >= x.run
  PROVE  Follows(x, s \o t)
<1> DEFINE u == s \o t
<1>1. \A i \in 1 .. Len(u) :
         \/ i \in 1 .. Len(s) /\ u[i] = s[i]
         \/ i > Len(s) /\ i - Len(s) \in 1 .. Len(t) /\ u[i] = t[i - Len(s)]
  BY ConcatAt
<1>2. u \in Seq(Unfired) /\ Len(s) \in Nat /\ Len(t) \in Nat /\ Len(u) \in Nat
  BY ConcatProperties, LenProperties
<1>3. /\ \A i \in 1 .. Len(s) : s[i] \in ToSet(s)
      /\ \A i \in 1 .. Len(t) : t[i] \in ToSet(t)
  BY InSet
<1> HIDE DEF u
<1>4. \A i \in 1 .. Len(u) : Pair(x, u[i])
  BY <1>1 DEF Follows
<1>5. ASSUME NEW i \in 1 .. Len(u), NEW j \in 1 .. Len(u), i < j PROVE Space(x, u[i], u[j])
  <2>1. CASE j \in 1 .. Len(s) /\ u[j] = s[j]
    <3>1. i \in 1 .. Len(s) /\ u[i] = s[i]
      BY <2>1, <1>1, <1>2, <1>5
    <3> QED
      BY <2>1, <3>1, <1>5 DEF Follows
  <2>2. CASE i \in 1 .. Len(s) /\ u[i] = s[i] /\ j - Len(s) \in 1 .. Len(t) /\ u[j] = t[j - Len(s)]
    BY <2>2, <1>3 DEF Space
  <2>3. CASE i > Len(s) /\ i - Len(s) \in 1 .. Len(t) /\ u[i] = t[i - Len(s)]
    <3>1. j - Len(s) \in 1 .. Len(t) /\ u[j] = t[j - Len(s)] /\ i - Len(s) < j - Len(s)
      <4>1. j \in Nat /\ i \in Nat /\ Len(s) \in Nat /\ ~(j <= Len(s)) /\ i < j BY ONLY <2>3, <1>2, <1>5
      <4>2. j > Len(s) /\ j - Len(s) \in 1 .. Len(t) /\ u[j] = t[j - Len(s)] BY <4>1, <1>1, <1>5
      <4> QED BY ONLY <4>1, <4>2
    <3> QED
      BY <2>3, <3>1 DEF Follows
  <2> QED
    BY <2>1, <2>2, <2>3, <1>1
<1> QED
  BY <1>4, <1>5 DEF Follows, u

(* A queue that is not empty is its head and what is behind it.            *)
LEMMA ConsList ==
  ASSUME NEW T, NEW x \in T, NEW t \in Seq(T)
  PROVE  /\ <<x>> \o t \in Seq(T) /\ <<x>> \o t # <<>>
         /\ Head(<<x>> \o t) = x /\ Tail(<<x>> \o t) = t
         /\ ToSet(<<x>> \o t) = {x} \cup ToSet(t)
<1> DEFINE u == <<x>> \o t
<1>1. <<x>> \in Seq(T) /\ Len(<<x>>) = 1 /\ <<x>>[1] = x
  OBVIOUS
<1>2. /\ u \in Seq(T) /\ Len(u) = 1 + Len(t) /\ Len(t) \in Nat
      /\ \A i \in 1 .. 1 + Len(t) : u[i] = IF i <= 1 THEN <<x>>[i] ELSE t[i - 1]
  <2> HIDE DEF u
  <2>1. \A s1, s2 \in Seq(T) : /\ s1 \o s2 \in Seq(T) /\ Len(s1 \o s2) = Len(s1) + Len(s2)
                               /\ \A i \in 1 .. Len(s1) + Len(s2) :
                                     (s1 \o s2)[i] = IF i <= Len(s1) THEN s1[i] ELSE s2[i - Len(s1)]
    BY ConcatProperties
  <2> QED
    BY <1>1, <2>1, LenProperties DEF u
<1>3. ToSet(<<x>>) = {x}
  BY <1>1 DEF ToSet
<1>4. ToSet(u) = {x} \cup ToSet(t)
  <2>1. \A s1, s2 \in Seq(T) : ToSet(s1 \o s2) = ToSet(s1) \cup ToSet(s2)
    BY ConcatSet
  <2> QED
    BY <1>1, <1>3, <2>1
<1> HIDE DEF u
<1>5. u # <<>> /\ Head(u) = x
  BY <1>1, <1>2
<1>6. Tail(u) \in Seq(T) /\ Len(Tail(u)) = Len(t) /\ \A i \in 1 .. Len(t) : Tail(u)[i] = u[i + 1]
  BY <1>2, <1>5, HeadTailProperties
<1>7. \A i \in 1 .. Len(t) : u[i + 1] = t[i]
  BY <1>2
<1>8. Tail(u) = t
  BY <1>6, <1>7, SeqEqual
<1> QED
  BY <1>2, <1>4, <1>5, <1>8 DEF u

LEMMA HeadAndTail ==
  ASSUME NEW T, NEW l \in Seq(T), l # <<>>
  PROVE  l = <<Head(l)>> \o Tail(l)
<1>1. /\ Head(l) \in T /\ Tail(l) \in Seq(T) /\ Len(Tail(l)) = Len(l) - 1
      /\ \A i \in 1 .. Len(Tail(l)) : Tail(l)[i] = l[i + 1]
      /\ Head(l) = l[1]
  BY HeadTailProperties
<1>2. Len(l) \in Nat \ {0}
  BY EmptySeq
<1> DEFINE s == <<Head(l)>>
           t == Tail(l)
           u == s \o t
<1>3. s \in Seq(T) /\ Len(s) = 1 /\ s[1] = l[1]
  BY <1>1
<1>4. u \in Seq(T) /\ Len(u) = Len(s) + Len(t)
      /\ \A i \in 1 .. Len(s) + Len(t) : u[i] = IF i <= Len(s) THEN s[i] ELSE t[i - Len(s)]
  <2>1. t \in Seq(T)
    BY <1>1
  <2> HIDE DEF s, t
  <2> QED
    BY <1>3, <2>1, ConcatProperties
<1> HIDE DEF s, u
<1>5. Len(u) = Len(l)
  BY <1>1, <1>2, <1>3, <1>4
<1>6. ASSUME NEW i \in 1 .. Len(l) PROVE u[i] = l[i]
  <2>1. CASE i = 1
    BY <2>1, <1>1, <1>2, <1>3, <1>4, <1>5
  <2>2. CASE i # 1
    <3>1. i - 1 \in 1 .. Len(t) /\ ~(i <= 1) /\ i \in 1 .. Len(s) + Len(t) /\ (i - 1) + 1 = i
      BY <2>2, <1>1, <1>2, <1>3
    <3>2. u[i] = t[i - 1]
      BY <3>1, <1>3, <1>4
    <3> QED
      BY <3>1, <3>2, <1>1
  <2> QED
    BY <2>1, <2>2
<1>7. u = l
  BY <1>4, <1>5, <1>6, SeqEqual
<1> QED
  BY <1>7 DEF u, s

LEMMA ConsQueue ==
  ASSUME NEW n, NEW x \in Heads, ItemOK(x, n), NEW t, RestOK(t, n), Follows(x, t)
  PROVE  QueueOK(<<x>> \o t, n)
<1>1. x \in Items /\ t \in Seq(Items)
  BY RestItems DEF Heads, RestOK
<1> QED
  BY <1>1, ConsList DEF QueueOK

LEMMA RestQueue ==
  ASSUME NEW n, NEW t, RestOK(t, n)
  PROVE  QueueOK(t, n)
<1> SUFFICES ASSUME t # <<>>
             PROVE  Head(t) \in Heads /\ ItemOK(Head(t), n) /\ RestOK(Tail(t), n) /\ Follows(Head(t), Tail(t))
  BY RestItems DEF QueueOK, RestOK
<1>1. t \in Seq(Unfired)
  BY DEF RestOK
<1>2. /\ Head(t) \in Unfired /\ Tail(t) \in Seq(Unfired) /\ Len(Tail(t)) = Len(t) - 1 /\ Head(t) = t[1]
      /\ \A i \in 1 .. Len(Tail(t)) : Tail(t)[i] = t[i + 1]
  BY <1>1, HeadTailProperties
<1>3. Len(t) \in Nat \ {0}
  BY <1>1, EmptySeq
<1>4. ToSet(t) = ToSet(Tail(t)) \cup {Head(t)}
  BY <1>1, TailSet
<1>5. \A i \in 1 .. Len(Tail(t)) : i + 1 \in 1 .. Len(t) /\ 1 < i + 1
  BY <1>2, <1>3
<1>6. 1 \in 1 .. Len(t)
  BY <1>3
<1>7. \A i, j \in 1 .. Len(Tail(t)) : i < j => i + 1 < j + 1
  BY <1>2
<1>8. Paired(Tail(t)) /\ Spaced(Tail(t))
  BY <1>2, <1>5, <1>7 DEF RestOK, Paired, Spaced
<1>9. Follows(Head(t), Tail(t))
  BY <1>2, <1>5, <1>6, <1>7 DEF RestOK, Paired, Spaced, Follows
<1> QED
  BY <1>2, <1>4, <1>8, <1>9, UnfiredItems DEF RestOK

(* What an error leaves of the rest of a queue.                            *)
LEMMA OnlyRest ==
  ASSUME NEW n, NEW t, RestOK(t, n), NEW S
  PROVE  RestOK(Only(t, S), n)
<1> DEFINE u == Only(t, S)
<1>1. t \in Seq(Unfired)
  BY DEF RestOK
<1>2. u \in Seq(Unfired) /\ ToSet(u) = ToSet(t) \cap S
  BY <1>1, OnlySet
<1>3. PICK g \in [1 .. Len(u) -> 1 .. Len(t)] :
         /\ \A i \in 1 .. Len(u) : u[i] = t[g[i]]
         /\ \A i, j \in 1 .. Len(u) : i < j => g[i] < g[j]
  BY <1>1, OnlyOrder
<1> HIDE DEF u
<1>4. Paired(u)
  BY <1>3 DEF RestOK, Paired
<1>5. Spaced(u)
  BY <1>3 DEF RestOK, Spaced
<1> QED
  BY <1>2, <1>4, <1>5 DEF RestOK, u

(* What comes to the end of a queue.                                       *)
LEMMA BackQueue ==
  ASSUME NEW n \in Nat, NEW m \in Nat, n <= m, NEW l, QueueOK(l, n), NEW new, RestOK(new, m),
         \A x \in ToSet(new) : (x.run = 0 \/ x.run > n) /\ x.group \notin {HookGroup, KeyGroup}
  PROVE  /\ QueueOK(l \o new, m) /\ ToSet(l \o new) = ToSet(l) \cup ToSet(new)
         /\ l # <<>> => l \o new # <<>> /\ Head(l \o new) = Head(l)
<1>1. l \in Seq(Items) /\ new \in Seq(Items) /\ new \in Seq(Unfired)
  BY RestItems DEF QueueOK, RestOK
<1>2. ToSet(l \o new) = ToSet(l) \cup ToSet(new)
  BY <1>1, ConcatSet
<1>3. CASE l = <<>>
  <2>1. l \o new = new
    BY <1>1, <1>3, ConcatEmptySeq
  <2> QED
    BY <1>2, <1>3, <2>1, RestQueue
<1>4. CASE l # <<>>
  <2> DEFINE h == Head(l)
             t == Tail(l)
  <2>1. /\ h \in Heads /\ ItemOK(h, n) /\ RestOK(t, n) /\ Follows(h, t) /\ t \in Seq(Unfired)
        /\ h \in Items /\ t \in Seq(Items)
    BY <1>4, RestItems DEF QueueOK, RestOK, Heads
  <2>2. l = <<h>> \o t
    BY <1>1, <1>4, HeadAndTail
  <2> HIDE DEF h, t
  <2>3. l \o new = <<h>> \o (t \o new)
    <3>1. <<h>> \in Seq(Items)
      BY <2>1
    <3>2. \A a, b, c \in Seq(Items) : (a \o b) \o c = a \o (b \o c)
      BY ConcatAssociative
    <3> QED
      BY <1>1, <2>1, <2>2, <3>1, <3>2
  <2>4. ASSUME NEW x, ItemOK(x, n), NEW y \in ToSet(new)
        PROVE  Pair(x, y) /\ (x.run = y.run => x.run = 0)
    <3>1. x.run \in 0 .. n
      BY <2>4 DEF ItemOK
    <3>2. y.run = 0 \/ y.run > n
      OBVIOUS
    <3>3. x.run = y.run => x.run = 0
      BY <3>1, <3>2
    <3> QED
      BY <3>3, Zenon DEF Pair
  <2>5. RestOK(t \o new, m)
    <3>1. RestOK(t, m)
      BY <2>1, RestMonotonic
    <3>2. \A x \in ToSet(t) : ItemOK(x, n)
      BY <2>1 DEF RestOK
    <3> QED
      BY <2>4, <3>1, <3>2, ConcatRest
  <2>6. Follows(h, t \o new)
    <3>1. Follows(h, new)
      <4>1. \A i \in 1 .. Len(new) : new[i] \in ToSet(new)
        BY <1>1, InSet
      <4> QED
        BY <4>1, <2>1, <2>4 DEF Follows, Space
    <3>2. \A y \in ToSet(t), z \in ToSet(new) : h.run = z.run /\ h.run # 0 => y.run >= h.run
      BY <2>1, <2>4
    <3> QED
      BY <1>1, <2>1, <3>1, <3>2, FollowsConcat
  <2>7. QueueOK(<<h>> \o (t \o new), m)
    BY <2>1, <2>5, <2>6, ItemMonotonic, ConsQueue
  <2>8. t \o new \in Seq(Items)
    BY <2>5, RestItems DEF RestOK
  <2>9. <<h>> \o (t \o new) # <<>> /\ Head(<<h>> \o (t \o new)) = h
    BY <2>1, <2>8, ConsList
  <2> QED
    BY <1>2, <2>3, <2>7, <2>9 DEF h
<1> QED
  BY <1>3, <1>4

(* What comes to the front, in place of the head or behind it.             *)
LEMMA FrontRest ==
  ASSUME NEW n \in Nat, NEW m \in Nat, n <= m, NEW t, RestOK(t, n), NEW new, RestOK(new, m),
         \A x \in ToSet(new), y \in ToSet(t) : Pair(x, y),
         \A x \in ToSet(new) : x.run > n
  PROVE  /\ RestOK(new \o t, m) /\ ToSet(new \o t) = ToSet(new) \cup ToSet(t)
<1>1. t \in Seq(Unfired) /\ new \in Seq(Unfired)
  BY DEF RestOK
<1>2. \A x \in ToSet(new), y \in ToSet(t) : x.run # y.run
  <2> TAKE x \in ToSet(new), y \in ToSet(t)
  <2>1. y.run \in 0 .. n
    BY DEF RestOK, ItemOK
  <2> QED
    BY <2>1
<1> QED
  BY <1>1, <1>2, RestMonotonic, ConcatRest, ConcatSet

LEMMA SecondQueue ==
  ASSUME NEW n \in Nat, NEW m \in Nat, n <= m, NEW x \in Heads, ItemOK(x, n), NEW t, RestOK(t, n), Follows(x, t),
         NEW new, RestOK(new, m), \A y \in ToSet(new), z \in ToSet(t) : Pair(y, z),
         \A y \in ToSet(new) : Pair(x, y) /\ y.run > n
  PROVE  /\ QueueOK(<<x>> \o (new \o t), m)
         /\ ToSet(<<x>> \o (new \o t)) = {x} \cup ToSet(new) \cup ToSet(t)
         /\ <<x>> \o (new \o t) # <<>> /\ Head(<<x>> \o (new \o t)) = x
<1>1. t \in Seq(Unfired) /\ new \in Seq(Unfired)
  BY DEF RestOK
<1>2. RestOK(new \o t, m) /\ ToSet(new \o t) = ToSet(new) \cup ToSet(t)
  BY FrontRest
<1>3. x.run \in 0 .. n
  BY DEF ItemOK
<1>4. Follows(x, new)
  <2>1. \A i \in 1 .. Len(new) : new[i] \in ToSet(new)
    BY <1>1, InSet
  <2>2. \A y \in ToSet(new) : x.run # y.run
    BY <1>3
  <2> QED
    BY <2>1, <2>2 DEF Follows, Space
<1>5. \A y \in ToSet(new), z \in ToSet(t) : x.run = z.run /\ x.run # 0 => y.run >= x.run
  <2> TAKE y \in ToSet(new), z \in ToSet(t)
  <2>1. y.run > n /\ y.run \in Nat
    <3>1. y \in Unfired
      BY <1>1, InSet
    <3> QED
      BY <3>1 DEF Unfired, Items
  <2> QED
    BY <1>3, <2>1
<1>6. Follows(x, new \o t)
  BY <1>1, <1>4, <1>5, FollowsConcat
<1>7. x \in Items /\ new \o t \in Seq(Items)
  BY <1>2, RestItems DEF Heads, RestOK
<1>8. QueueOK(<<x>> \o (new \o t), m)
  BY <1>2, <1>6, ItemMonotonic, ConsQueue
<1> DEFINE u == new \o t
<1> HIDE DEF u
<1>9. ToSet(<<x>> \o u) = {x} \cup ToSet(u) /\ <<x>> \o u # <<>> /\ Head(<<x>> \o u) = x
  <2>1. u \in Seq(Items)
    BY <1>7 DEF u
  <2> QED
    BY <1>7, <2>1, ConsList
<1> QED
  BY <1>2, <1>8, <1>9 DEF u

-----------------------------------------------------------------------------
(* New items. *)

(* The commands of the list r; its group is its own, or that of a hook, a  *)
(* key binding or braces.                                                  *)
GroupOK(r, g, h) ==
    /\ r \in 1 .. MaxLists
    /\ g \in {r, HookGroup, KeyGroup, BraceGroup}
    /\ g = HookGroup => h
    /\ g = BraceGroup => InBraces

LEMMA Groups ==
  ASSUME NEW r \in 0 .. MaxLists
  PROVE  /\ HookGroup \in Nat /\ KeyGroup \in Nat /\ BraceGroup \in Nat
         /\ r # HookGroup /\ r # KeyGroup /\ r # BraceGroup
         /\ HookGroup # 0 /\ KeyGroup # 0 /\ BraceGroup # 0
         /\ HookGroup # KeyGroup /\ HookGroup # BraceGroup /\ KeyGroup # BraceGroup
BY BoundsNat DEF HookGroup, KeyGroup, BraceGroup

LEMMA CommandItems ==
  ASSUME NEW r, NEW g, NEW h \in BOOLEAN, NEW c \in Clients \cup {None}, GroupOK(r, g, h)
  PROVE  LET new == cmdq_get_command(2, r, g, h, c)
         IN /\ RestOK(new, r) /\ new # <<>> /\ Len(new) = 2
            /\ \A x \in ToSet(new) : /\ x.what = "command" /\ x.run = r /\ x.group = g
                                     /\ x.nohooks = h /\ x.client = c /\ x.data = None
<1> DEFINE new == cmdq_get_command(2, r, g, h, c)
           item(i) == [what |-> "command", run |-> r, pos |-> i, group |-> g, client |-> c, nohooks |-> h,
                       fired |-> FALSE, waiting |-> FALSE, data |-> None]
<1>1. r \in Nat /\ g \in Nat /\ r # 0 /\ g # 0
  BY BoundsNat DEF GroupOK, HookGroup, KeyGroup, BraceGroup
<1>2. \A i \in 1 .. 2 : item(i) \in Unfired
  BY <1>1 DEF Unfired, Items
<1>3. /\ \A i \in 1 .. 2 : /\ item(i).what = "command" /\ item(i).run = r /\ item(i).group = g
                           /\ item(i).client = c /\ item(i).data = None /\ item(i).pos = i
  BY Zenon
<1>4. \A i \in 1 .. 2 : item(i).nohooks = h
  BY Zenon
<1>5. new = [i \in 1 .. 2 |-> item(i)]
  BY DEF cmdq_get_command
<1> HIDE DEF item
<1>6. new \in Seq(Unfired) /\ Len(new) = 2 /\ \A i \in 1 .. 2 : new[i] = item(i)
  <2> DEFINE two == 1 .. 2
  <2>1. new \in [1 .. 2 -> Unfired] /\ \A i \in 1 .. 2 : new[i] = item(i)
    <3> HIDE DEF two
    <3>1. new = [i \in two |-> item(i)] /\ \A i \in two : item(i) \in Unfired
      BY <1>2, <1>5 DEF two
    <3>2. new \in [two -> Unfired] /\ \A i \in two : new[i] = item(i)
      <4> HIDE DEF new
      <4> QED
        BY <3>1
    <3> QED
      BY <3>2 DEF two
  <2> HIDE DEF new
  <2>2. new \in Seq(Unfired)
    <3>1. [1 .. 2 -> Unfired] \in {[1 .. n -> Unfired] : n \in Nat}
      BY 2 \in Nat, Zenon
    <3> QED
      BY <2>1, <3>1, SeqDef, Zenon
  <2>3. Len(new) = 2
    BY <2>1, <2>2, LenProperties
  <2> QED
    BY <2>1, <2>2, <2>3
<1>7. ToSet(new) = {item(i) : i \in 1 .. 2}
  BY <1>5 DEF ToSet
<1> HIDE DEF new
<1>8. \A x \in ToSet(new) : ItemOK(x, r)
  <2> SUFFICES ASSUME NEW i \in 1 .. 2 PROVE ItemOK(item(i), r)
    BY <1>7
  <2>1. r \in 1 .. r
    BY <1>1
  <2> QED
    BY <1>3, <1>4, <2>1 DEF ItemOK, GroupOK
<1>9. Paired(new) /\ Spaced(new)
  <2>1. \A i, j \in 1 .. 2 : i < j => i = 1 /\ j = 2
    OBVIOUS
  <2>2. Pair(item(1), item(2))
    BY <1>3, <1>4 DEF Pair, GroupOK
  <2>3. \A i, j, k \in 1 .. 2 : ~(i < j /\ j < k)
    OBVIOUS
  <2> QED
    BY <1>6, <2>1, <2>2, <2>3 DEF Paired, Spaced
<1>10. new # <<>>
  BY <1>6
<1>11. RestOK(new, r)
  BY <1>6, <1>8, <1>9 DEF RestOK
<1> QED
  BY <1>3, <1>4, <1>6, <1>7, <1>10, <1>11 DEF new

(* The commands of one list.                                               *)
IsList(new, r, g, h) ==
    /\ RestOK(new, r) /\ new # <<>>
    /\ \A x \in ToSet(new) : x.what = "command" /\ x.run = r /\ x.group = g /\ x.nohooks = h

LEMMA ListItems ==
  ASSUME NEW r, NEW g
  PROVE  \A h \in BOOLEAN, c \in Clients \cup {None} :
            GroupOK(r, g, h) => IsList(cmdq_get_command(2, r, g, h, c), r, g, h)
BY CommandItems DEF IsList

LEMMA CallbackItem ==
  ASSUME NEW what \in {"notify", "key", "done"}, NEW c \in Clients \cup {None}, NEW d \in Clients \cup {None}
  PROVE  LET x == cmdq_get_callback(what, c, d)
         IN /\ x \in Unfired /\ x.what = what /\ x.run = 0 /\ x.group = 0 /\ ~x.nohooks
            /\ x.client = c /\ x.data = d
            /\ \A n : RestOK(<<x>>, n)
            /\ ToSet(<<x>>) = {x}
<1> DEFINE x == cmdq_get_callback(what, c, d)
<1>1. x \in Unfired
  BY DEF cmdq_get_callback, Unfired, Items
<1>2. x.what = what /\ x.run = 0 /\ x.group = 0 /\ ~x.nohooks /\ x.client = c /\ x.data = d
  BY Zenon DEF cmdq_get_callback
<1>3. \A n : ItemOK(x, n)
  BY <1>2, BoundsNat DEF ItemOK, HookGroup, BraceGroup
<1> HIDE DEF x
<1>4. <<x>> \in Seq(Unfired) /\ Len(<<x>>) = 1
  BY <1>1
<1>5. ToSet(<<x>>) = {x}
  BY <1>4 DEF ToSet
<1>6. Paired(<<x>>) /\ Spaced(<<x>>)
  BY <1>4 DEF Paired, Spaced
<1>7. \A n : RestOK(<<x>>, n)
  BY <1>3, <1>4, <1>5, <1>6 DEF RestOK
<1> QED
  BY <1>1, <1>2, <1>5, <1>7 DEF x

-----------------------------------------------------------------------------
(* All queues. *)

LEMMA QueuesFacts == None \notin Queues /\ Global \in Queues /\ Clients \subseteq Queues
BY Distinct DEF Queues

(* One queue changes: what is in it was there, is new or is no command.    *)
LEMMA OneQueue ==
  ASSUME NEW L \in [Queues -> Seq(Items)], NEW n \in Nat, NEW m \in Nat, n <= m, NEW F, AllOK(L, n, F),
         NEW q \in Queues, NEW l, QueueOK(l, m),
         \A x \in ToSet(l) : x.run = 0 \/ x.run > n \/ \E y \in ToSet(L[q]) : x.run = y.run
  PROVE  [L EXCEPT ![q] = l] \in [Queues -> Seq(Items)] /\ AllOK([L EXCEPT ![q] = l], m, F)
<1> DEFINE M == [L EXCEPT ![q] = l]
<1>1. l \in Seq(Items)
  BY DEF QueueOK
<1>2. M \in [Queues -> Seq(Items)] /\ M[q] = l /\ \A p \in Queues : p # q => M[p] = L[p]
  BY <1>1
<1> HIDE DEF M
<1>3. \A p \in Queues : \A x \in ToSet(L[p]) : ItemOK(x, n)
  <2> SUFFICES ASSUME NEW p \in Queues, NEW x \in ToSet(L[p]) PROVE ItemOK(x, n)
    OBVIOUS
  <2>1. L[p] \in Seq(Items) /\ QueueOK(L[p], n)
    BY DEF AllOK
  <2>2. L[p] # <<>>
    BY EmptyQueue
  <2>3. ToSet(L[p]) = ToSet(Tail(L[p])) \cup {Head(L[p])}
    BY <2>1, <2>2, TailSet
  <2> QED
    BY <2>1, <2>2, <2>3 DEF QueueOK, RestOK
<1>4. \A p \in Queues : \A x \in ToSet(L[p]) : x.run \in 0 .. n
  BY <1>3 DEF ItemOK
<1>5. \A p \in Queues : QueueOK(M[p], m)
  BY <1>2, QueueMonotonic DEF AllOK
<1>6. ASSUME NEW p \in Queues, p # q, NEW x \in ToSet(l), NEW y \in ToSet(L[p]), x.run = y.run
      PROVE  x.run = 0
  <2>1. y.run \in 0 .. n
    BY <1>4
  <2>2. ~(y.run > n)
    BY <2>1
  <2>3. CASE \E z \in ToSet(L[q]) : x.run = z.run
    BY <1>6, <2>3 DEF AllOK
  <2> QED
    BY <1>6, <2>2, <2>3
<1>7. \A p, r \in Queues : \A x \in ToSet(M[p]), y \in ToSet(M[r]) : x.run = y.run /\ x.run # 0 => p = r
  <2> SUFFICES ASSUME NEW p \in Queues, NEW r \in Queues, NEW x \in ToSet(M[p]), NEW y \in ToSet(M[r]),
                      x.run = y.run, x.run # 0, p # r
               PROVE  FALSE
    OBVIOUS
  <2>1. CASE p = q
    BY <1>2, <1>6, <2>1
  <2>2. CASE r = q
    BY <1>2, <1>6, <2>2
  <2>3. CASE p # q /\ r # q
    BY <1>2, <2>3 DEF AllOK
  <2> QED
    BY <2>1, <2>2, <2>3
<1>8. F \subseteq 1 .. m
  <2>1. 1 .. n \subseteq 1 .. m
    OBVIOUS
  <2> QED
    BY <2>1 DEF AllOK
<1>9. ASSUME NEW p \in Queues, NEW x \in ToSet(M[p]) PROVE x.run \notin F
  <2>1. CASE p # q
    BY <1>2, <2>1 DEF AllOK
  <2>2. CASE p = q
    <3>1. \A f \in F : f \in 1 .. n /\ f # 0 /\ ~(f > n)
      BY DEF AllOK
    <3>2. x \in ToSet(l)
      BY <1>2, <2>2
    <3>3. CASE \E y \in ToSet(L[q]) : x.run = y.run
      BY <3>3 DEF AllOK
    <3> QED
      BY <3>1, <3>2, <3>3
  <2> QED
    BY <2>1, <2>2
<1> QED
  BY <1>2, <1>5, <1>7, <1>8, <1>9 DEF AllOK, M

(* A queue that nobody waits for may change.                               *)
Awaited(q, J, S) == q \in S \/ \E j \in J : j.queue = q

LEMMA WakersOther ==
  ASSUME NEW L \in [Queues -> Seq(Items)], NEW J \in SUBSET Jobs, NEW S \in SUBSET Queues,
         Wakers(L, J, S), NEW q \in Queues, ~Awaited(q, J, S), NEW l
  PROVE  Wakers([L EXCEPT ![q] = l], J, S)
<1> DEFINE M == [L EXCEPT ![q] = l]
<1>1. \A p \in Queues : p # q => M[p] = L[p]
  OBVIOUS
<1>2. \A j \in J : j.queue # None => j.queue \in Queues /\ j.queue # q
  BY DEF Jobs, Awaited
<1>3. \A p \in S : p \in Queues /\ p # q
  BY DEF Awaited
<1> HIDE DEF M
<1> QED
  BY <1>1, <1>2, <1>3 DEF Wakers, M

(* Somebody stops waiting.                                                 *)
LEMMA WakersLess ==
  ASSUME NEW L, NEW J, NEW S, Wakers(L, J, S), NEW I \in SUBSET J, NEW R \in SUBSET S
  PROVE  Wakers(L, I, R)
BY DEF Wakers

LEMMA NotAwaited ==
  ASSUME NEW L, NEW J \in SUBSET Jobs, NEW S, Wakers(L, J, S), NEW j \in J, j.queue # None
  PROVE  ~Awaited(j.queue, J \ {j}, S)
BY DEF Wakers, Awaited

(* Items come to the end of a queue.                                       *)
LEMMA BackAll ==
  ASSUME NEW L \in [Queues -> Seq(Items)], NEW n \in Nat, NEW m \in Nat, n <= m, NEW F, AllOK(L, n, F),
         NEW J \in SUBSET Jobs, NEW S \in SUBSET Queues, Wakers(L, J, S),
         NEW q \in Queues, NEW new, RestOK(new, m),
         \A x \in ToSet(new) : (x.run = 0 \/ x.run > n) /\ x.group \notin {HookGroup, KeyGroup}
  PROVE  LET M == [L EXCEPT ![q] = L[q] \o new]
         IN M \in [Queues -> Seq(Items)] /\ AllOK(M, m, F) /\ Wakers(M, J, S)
<1> DEFINE l == L[q] \o new
           M == [L EXCEPT ![q] = l]
<1>1. /\ QueueOK(l, m) /\ ToSet(l) = ToSet(L[q]) \cup ToSet(new)
      /\ L[q] # <<>> => l # <<>> /\ Head(l) = Head(L[q])
  BY BackQueue DEF AllOK
<1> HIDE DEF l
<1>2. M \in [Queues -> Seq(Items)] /\ AllOK(M, m, F)
  BY <1>1, OneQueue
<1>3. M[q] = l /\ \A p \in Queues : p # q => M[p] = L[p]
  OBVIOUS
<1> HIDE DEF M
<1>4. \A p \in Queues : L[p] # <<>> => M[p] # <<>> /\ Head(M[p]) = Head(L[p])
  BY <1>1, <1>3
<1>5. \A p \in Queues : (\A x \in ToSet(L[p]) : x.group # HookGroup) => \A x \in ToSet(M[p]) : x.group # HookGroup
  BY <1>1, <1>3
<1>6. (\A j \in J : j.queue # None => j.queue \in Queues) /\ \A p \in S : p \in Queues
  BY DEF Jobs
<1>7. Wakers(M, J, S)
  BY <1>4, <1>5, <1>6 DEF Wakers
<1> QED
  BY <1>2, <1>7 DEF M, l

(* The items of a list of commands and one behind them.                    *)
LEMMA PairNew ==
  ASSUME NEW n \in Nat, NEW x, NEW y, x.what = "command", x.run > n, ItemOK(y, n),
         y.group = HookGroup => x.nohooks /\ x.group # HookGroup,
         x.group = KeyGroup => y.group # KeyGroup
  PROVE  Pair(x, y)
<1>1. y.run \in 0 .. n
  BY DEF ItemOK
<1>2. x.run # y.run
  BY <1>1
<1> QED
  BY <1>2, Zenon DEF Pair

(* Items take the place of the head of q, or of it and of some behind it.  *)
LEMMA FrontAll ==
  ASSUME NEW L \in [Queues -> Seq(Items)], NEW n \in Nat, NEW m \in Nat, n <= m, NEW F, AllOK(L, n, F),
         NEW J \in SUBSET Jobs, NEW S \in SUBSET Queues, Wakers(L, J, S),
         NEW q \in Queues, L[q] # <<>>, ~Awaited(q, J, S),
         NEW new, RestOK(new, m), NEW t, RestOK(t, n), ToSet(t) \subseteq ToSet(Tail(L[q])),
         \A x \in ToSet(new), y \in ToSet(t) : Pair(x, y),
         \A x \in ToSet(new) : x.run > n
  PROVE  LET M == [L EXCEPT ![q] = new \o t]
         IN /\ M \in [Queues -> Seq(Items)] /\ AllOK(M, m, F) /\ Wakers(M, J, S)
            /\ ToSet(new \o t) = ToSet(new) \cup ToSet(t)
<1> DEFINE l == new \o t
<1>1. RestOK(l, m) /\ ToSet(l) = ToSet(new) \cup ToSet(t)
  BY FrontRest
<1>2. QueueOK(l, m)
  BY <1>1, RestQueue
<1>3. ToSet(L[q]) = ToSet(Tail(L[q])) \cup {Head(L[q])}
  BY TailSet
<1> HIDE DEF l
<1>4. [L EXCEPT ![q] = l] \in [Queues -> Seq(Items)] /\ AllOK([L EXCEPT ![q] = l], m, F)
  BY <1>1, <1>2, <1>3, OneQueue
<1>5. Wakers([L EXCEPT ![q] = l], J, S)
  BY WakersOther
<1> QED
  BY <1>1, <1>4, <1>5 DEF l

(* Items come behind the head of q, which may have become x.               *)
LEMMA SecondAll ==
  ASSUME NEW L \in [Queues -> Seq(Items)], NEW n \in Nat, NEW m \in Nat, n <= m, NEW F, AllOK(L, n, F),
         NEW J \in SUBSET Jobs, NEW S \in SUBSET Queues, Wakers(L, J, S),
         NEW q \in Queues, L[q] # <<>>, ~Awaited(q, J, S),
         NEW x \in Heads, x.run = Head(L[q]).run, ItemOK(x, n), Follows(x, Tail(L[q])),
         NEW new, RestOK(new, m),
         \A y \in ToSet(new), z \in ToSet(Tail(L[q])) : Pair(y, z),
         \A y \in ToSet(new) : Pair(x, y) /\ y.run > n
  PROVE  LET M == [L EXCEPT ![q] = <<x>> \o (new \o Tail(L[q]))]
         IN /\ M \in [Queues -> Seq(Items)] /\ AllOK(M, m, F) /\ Wakers(M, J, S)
            /\ M[q] # <<>> /\ Head(M[q]) = x
            /\ ToSet(M[q]) = {x} \cup ToSet(new) \cup ToSet(Tail(L[q]))
<1> DEFINE t == Tail(L[q])
           l == <<x>> \o (new \o t)
<1>1. RestOK(t, n)
  BY DEF AllOK, QueueOK
<1>2. QueueOK(l, m) /\ ToSet(l) = {x} \cup ToSet(new) \cup ToSet(t) /\ l # <<>> /\ Head(l) = x
  <2> HIDE DEF t
  <2> QED
    BY <1>1, SecondQueue DEF t
<1>3. ToSet(L[q]) = ToSet(t) \cup {Head(L[q])}
  BY TailSet
<1> HIDE DEF l, t
<1>4. [L EXCEPT ![q] = l] \in [Queues -> Seq(Items)] /\ AllOK([L EXCEPT ![q] = l], m, F)
  BY <1>2, <1>3, OneQueue
<1>5. Wakers([L EXCEPT ![q] = l], J, S)
  BY WakersOther
<1> QED
  BY <1>2, <1>4, <1>5 DEF l, t

-----------------------------------------------------------------------------
(* Event callbacks. *)

(* What has to hold after a step.                                          *)
LEMMA QInvNext ==
  QInv' <=> Types' /\ AllOK(list', lists', failed') /\ Wakers(list', jobs', signals')
BY DEF QInv, AllOK, Wakers

LEMMA QInvTypes ==
  ASSUME QInv
  PROVE  /\ list \in [Queues -> Seq(Items)] /\ lists \in Nat /\ jobs \in SUBSET Jobs
         /\ signals \in SUBSET Queues /\ AllOK(list, lists, failed) /\ Wakers(list, jobs, signals)
BY BoundsNat DEF QInv, Types

LEMMA QueueingNext ==
  ASSUME QInv, NEW n \in Nat, Queueing(n)
  PROVE  lists' \in 0 .. MaxLists /\ lists' \in Nat /\ lists' = lists + n /\ lists <= lists'
BY BoundsNat DEF QInv, Types, Queueing

LEMMA Unchanged ==
  ASSUME QInv, Types', UNCHANGED <<list, lists, failed>>, jobs' \subseteq jobs, signals' \subseteq signals
  PROVE  QInv'
BY QInvTypes, QInvNext, WakersLess

LEMMA Create ==
  ASSUME QInv, NEW c \in Clients, server_client_create(c)
  PROVE  QInv'
<1>1. Types'
  BY DEF QInv, Types, server_client_create, loopvars
<1> QED
  BY <1>1, Unchanged DEF server_client_create

(* The next list: its number is in use by no item and by no other group.   *)
LEMMA NextList ==
  ASSUME QInv, NEW n \in 1 .. 2, NEW m \in 1 .. n, Queueing(n)
  PROVE  /\ lists + m \in 1 .. MaxLists /\ lists + m \in Nat /\ lists + m <= lists' /\ lists < lists + m
         /\ lists + m \notin {0, HookGroup, KeyGroup, BraceGroup}
         /\ 0 \notin {HookGroup, KeyGroup, BraceGroup}
         /\ HookGroup # KeyGroup /\ BraceGroup \notin {HookGroup, KeyGroup}
         /\ \A h : GroupOK(lists + m, lists + m, h) /\ GroupOK(lists + m, KeyGroup, h)
         /\ GroupOK(lists + m, HookGroup, TRUE)
         /\ InBraces => \A h : GroupOK(lists + m, BraceGroup, h)
<1>1. lists' \in 0 .. MaxLists /\ lists' = lists + n /\ lists \in Nat
  BY QueueingNext, QInvTypes
<1>2. /\ lists + m \in 1 .. MaxLists /\ lists + m \in Nat /\ lists + m <= lists' /\ lists < lists + m
      /\ lists + m \in 0 .. MaxLists /\ lists + m # 0
  BY <1>1, BoundsNat
<1>3. /\ lists + m \notin {0, HookGroup, KeyGroup, BraceGroup}
      /\ 0 \notin {HookGroup, KeyGroup, BraceGroup}
      /\ HookGroup # KeyGroup /\ BraceGroup \notin {HookGroup, KeyGroup}
  BY <1>2, Groups
<1> DEFINE r == lists + m
<1> HIDE DEF r
<1>4. /\ r \in 1 .. MaxLists /\ r \notin {0, HookGroup, KeyGroup, BraceGroup}
  BY <1>2, <1>3 DEF r
<1>5. /\ \A h : GroupOK(r, r, h) /\ GroupOK(r, KeyGroup, h)
      /\ GroupOK(r, HookGroup, TRUE)
      /\ InBraces => \A h : GroupOK(r, BraceGroup, h)
  BY <1>3, <1>4, Zenon DEF GroupOK
<1> QED
  BY <1>2, <1>3, <1>5 DEF r

LEMMA Dispatch ==
  ASSUME QInv, NEW c \in Clients, server_client_dispatch_command(c)
  PROVE  QInv'
<1> DEFINE r == lists + 1
           cmds == cmdq_get_command(2, r, r, FALSE, c)
           done == cmdq_get_callback("done", c, None)
           new == cmds \o <<done>>
<1>1. /\ lists' \in 0 .. MaxLists /\ lists' = r /\ lists < r /\ r \in Nat /\ lists <= r
      /\ r \notin {0, HookGroup, KeyGroup} /\ 0 \notin {HookGroup, KeyGroup} /\ GroupOK(r, r, FALSE)
  <2>1. Queueing(1) /\ 1 \in 1 .. 1 /\ 1 \in 1 .. 2 /\ 1 \in Nat
    BY DEF server_client_dispatch_command
  <2>2. lists \in Nat
    BY QInvTypes
  <2> QED
    BY <2>1, <2>2, QueueingNext, NextList
<1>2. /\ list' = [list EXCEPT ![c] = list[c] \o Append(cmds, done)] /\ c \in Queues
  BY QueuesFacts DEF server_client_dispatch_command
<1> HIDE DEF r
<1>3. /\ RestOK(cmds, r)
      /\ \A x \in ToSet(cmds) : x.what = "command" /\ x.run = r /\ x.group = r
  <2>1. c \in Clients \cup {None}
    OBVIOUS
  <2>2. \A h \in BOOLEAN : GroupOK(r, r, h) =>
           /\ RestOK(cmdq_get_command(2, r, r, h, c), r)
           /\ \A x \in ToSet(cmdq_get_command(2, r, r, h, c)) : x.what = "command" /\ x.run = r /\ x.group = r
    BY <2>1, CommandItems
  <2> QED
    BY <1>1, <2>2, FALSE \in BOOLEAN, Zenon
<1>4. /\ RestOK(<<done>>, r) /\ ToSet(<<done>>) = {done} /\ done \in Unfired
      /\ done.what = "done" /\ done.run = 0 /\ done.group = 0
  BY CallbackItem
<1> HIDE DEF cmds, done
<1>5. cmds \in Seq(Unfired) /\ <<done>> \in Seq(Unfired)
  BY <1>3, <1>4 DEF RestOK
<1>6. ToSet(new) = ToSet(cmds) \cup {done}
  <2>1. \A s, t \in Seq(Unfired) : ToSet(s \o t) = ToSet(s) \cup ToSet(t)
    BY ConcatSet
  <2> QED
    BY <1>4, <1>5, <2>1
<1>7. RestOK(new, r)
  <2>1. \A x \in ToSet(cmds), y \in ToSet(<<done>>) : Pair(x, y) /\ (x.run = y.run => x.run = 0)
    BY <1>1, <1>3, <1>4 DEF Pair
  <2> QED
    BY <1>3, <1>4, <2>1, ConcatRest
<1>8. \A x \in ToSet(new) : (x.run = 0 \/ x.run > lists) /\ x.group \notin {HookGroup, KeyGroup}
  BY <1>1, <1>3, <1>4, <1>6
<1>9. Append(cmds, done) = new
  BY <1>4, <1>5, AppendIsConcat
<1> HIDE DEF new
<1>10. list' \in [Queues -> Seq(Items)] /\ AllOK(list', lists', failed) /\ Wakers(list', jobs, signals)
  BY <1>1, <1>2, <1>7, <1>8, <1>9, QInvTypes, BackAll
<1>11. Types'
  BY <1>1, <1>10 DEF QInv, Types, server_client_dispatch_command, loopvars
<1> QED
  BY <1>10, <1>11, QInvNext DEF server_client_dispatch_command

(* A callback comes to the end of a queue. *)
LEMMA CallbackAll ==
  ASSUME NEW L \in [Queues -> Seq(Items)], NEW n \in Nat, NEW F, AllOK(L, n, F),
         NEW J \in SUBSET Jobs, NEW S \in SUBSET Queues, Wakers(L, J, S),
         NEW q \in Queues, NEW m \in Nat, n <= m,
         NEW w \in {"notify", "key", "done"}, NEW c \in Clients \cup {None}, NEW d \in Clients \cup {None}
  PROVE  LET M == [L EXCEPT ![q] = Append(L[q], cmdq_get_callback(w, c, d))]
         IN M \in [Queues -> Seq(Items)] /\ AllOK(M, m, F) /\ Wakers(M, J, S)
<1> DEFINE x == cmdq_get_callback(w, c, d)
           new == <<x>>
<1>1. x \in Unfired /\ RestOK(new, m) /\ ToSet(new) = {x} /\ x.run = 0 /\ x.group = 0
  <2>1. x.run = 0 /\ x.group = 0
    BY Zenon DEF cmdq_get_callback
  <2>2. x \in Unfired /\ \A k : RestOK(new, k)
    BY CallbackItem
  <2>3. ToSet(new) = {x}
    BY CallbackItem
  <2> QED
    BY <2>1, <2>2, <2>3
<1> HIDE DEF x
<1>2. L[q] \in Seq(Items) /\ x \in Items
  BY <1>1, UnfiredItems
<1>3. Append(L[q], x) = L[q] \o new
  BY <1>2, AppendIsConcat
<1>4. 0 # HookGroup /\ 0 # KeyGroup
  BY BoundsNat DEF HookGroup, KeyGroup
<1>5. \A y \in ToSet(new) : (y.run = 0 \/ y.run > n) /\ y.group \notin {HookGroup, KeyGroup}
  BY <1>1, <1>4
<1> HIDE DEF new
<1> QED
  BY <1>1, <1>3, <1>5, BackAll DEF x

LEMMA NotifyAll ==
  ASSUME NEW L \in [Queues -> Seq(Items)], NEW n \in Nat, NEW F, AllOK(L, n, F),
         NEW J \in SUBSET Jobs, NEW S \in SUBSET Queues, Wakers(L, J, S),
         NEW m \in Nat, n <= m, NEW c \in Clients \cup {None}, NEW dropped, notify_add(dropped, L, c)
  PROVE  list' \in [Queues -> Seq(Items)] /\ AllOK(list', m, F) /\ Wakers(list', J, S)
<1> DEFINE M == [L EXCEPT ![Global] = Append(L[Global], cmdq_get_callback("notify", None, c))]
<1>1. list' = L \/ list' = M
  BY DEF notify_add
<1>2. L \in [Queues -> Seq(Items)] /\ AllOK(L, m, F) /\ Wakers(L, J, S)
  <2>1. \A q \in Queues : QueueOK(L[q], m)
    BY QueueMonotonic DEF AllOK
  <2>2. 1 .. n \subseteq 1 .. m
    OBVIOUS
  <2> QED
    BY <2>1, <2>2 DEF AllOK
<1>3. M \in [Queues -> Seq(Items)] /\ AllOK(M, m, F) /\ Wakers(M, J, S)
  BY CallbackAll, QueuesFacts
<1> QED
  BY <1>1, <1>2, <1>3

LEMMA HandleKey ==
  ASSUME QInv, NEW c \in Clients, server_client_handle_key(c)
  PROVE  QInv'
<1>1. lists' \in 0 .. MaxLists /\ lists' \in Nat /\ lists <= lists' /\ lists \in Nat
  BY QueueingNext, QInvTypes, 1 \in Nat DEF server_client_handle_key
<1>2. list' = [list EXCEPT ![c] = Append(list[c], cmdq_get_callback("key", c, None))] /\ c \in Queues
  BY QueuesFacts DEF server_client_handle_key
<1>3. list' \in [Queues -> Seq(Items)] /\ AllOK(list', lists', failed) /\ Wakers(list', jobs, signals)
  BY <1>1, <1>2, QInvTypes, CallbackAll
<1>4. Types'
  BY <1>1, <1>3 DEF QInv, Types, server_client_handle_key, loopvars
<1> QED
  BY <1>3, <1>4, QInvNext DEF server_client_handle_key

LEMMA Notifies ==
  ASSUME QInv, EventNotifies
  PROVE  QInv'
<1>1. lists' \in 0 .. MaxLists /\ lists' \in Nat /\ lists <= lists' /\ lists \in Nat
  BY QueueingNext, QInvTypes, 1 \in Nat DEF EventNotifies
<1>2. list' \in [Queues -> Seq(Items)] /\ AllOK(list', lists', failed) /\ Wakers(list', jobs, signals)
  BY <1>1, QInvTypes, NotifyAll DEF EventNotifies
<1>3. lost' \in BOOLEAN
  BY DEF EventNotifies, RunsNoHooks, QInv, Types
<1>4. Types'
  BY <1>1, <1>2, <1>3 DEF QInv, Types, EventNotifies, loopvars, clientvars
<1> QED
  BY <1>2, <1>4, QInvNext DEF EventNotifies

LEMMA Lost ==
  ASSUME QInv, NEW c \in Clients, NEW a \in BOOLEAN, server_client_lost(c, a)
  PROVE  QInv'
<1>1. lists \in Nat /\ lists' = lists
  BY QInvTypes DEF server_client_lost
<1>2. list' \in [Queues -> Seq(Items)] /\ AllOK(list', lists', failed) /\ Wakers(list', jobs, signals)
  <2>1. CASE a
    <3>1. notify_add(RunsNoHooks(Global), list, c) /\ c \in Clients \cup {None}
      BY <2>1 DEF server_client_lost
    <3>2. lists <= lists' /\ lists' \in Nat
      BY <1>1
    <3> QED
      BY <1>1, <3>1, <3>2, QInvTypes, NotifyAll
  <2>2. CASE ~a
    BY <1>1, <2>2, QInvTypes DEF server_client_lost
  <2> QED
    BY <2>1, <2>2
<1>3. lost' \in BOOLEAN
  BY DEF server_client_lost, RunsNoHooks, QInv, Types
<1>4. clients' \in Seq(Clients)
  BY OnlySet DEF QInv, Types, server_client_lost
<1>5. Types'
  BY <1>1, <1>2, <1>3, <1>4 DEF QInv, Types, server_client_lost, loopvars
<1> QED
  BY <1>2, <1>5, QInvNext DEF server_client_lost

LEMMA Free ==
  ASSUME QInv, NEW c \in Clients, server_client_free(c)
  PROVE  QInv'
<1>1. Types'
  BY DEF QInv, Types, server_client_free, qvars, loopvars
<1> QED
  BY <1>1, Unchanged DEF server_client_free, qvars

(* The head of a queue starts or stops to wait. *)
LEMMA SameHead ==
  ASSUME NEW x, NEW y, NEW n, NEW t, ItemOK(x, n), Follows(x, t),
         y.what = x.what, y.run = x.run, y.pos = x.pos, y.group = x.group, y.nohooks = x.nohooks,
         x.fired => y.fired
  PROVE  ItemOK(y, n) /\ Follows(y, t)
<1>1. ItemOK(y, n)
  BY Zenon DEF ItemOK
<1>2. \A z : Pair(x, z) => Pair(y, z)
  BY Zenon DEF Pair
<1>3. \A z, u : Space(x, z, u) => Space(y, z, u)
  BY DEF Space
<1> QED
  BY <1>1, <1>2, <1>3 DEF Follows

LEMMA HeadFields ==
  ASSUME NEW x \in Items, NEW f \in BOOLEAN, NEW w \in BOOLEAN
  PROVE  LET y == [x EXCEPT !.fired = f, !.waiting = w]
         IN /\ y \in Items /\ y.what = x.what /\ y.run = x.run /\ y.pos = x.pos /\ y.group = x.group
            /\ y.nohooks = x.nohooks /\ y.fired = f /\ y.waiting = w
            /\ y.client = x.client /\ y.data = x.data
BY DEF Items

LEMMA WokenFields ==
  ASSUME NEW x \in Items
  PROVE  LET y == [x EXCEPT !.waiting = FALSE]
         IN /\ y \in Items /\ y.what = x.what /\ y.run = x.run /\ y.pos = x.pos /\ y.group = x.group
            /\ y.nohooks = x.nohooks /\ y.fired = x.fired /\ ~y.waiting
            /\ y.client = x.client /\ y.data = x.data
BY DEF Items

LEMMA HeadFacts ==
  ASSUME QInv, NEW q \in Queues, list[q] # <<>>
  PROVE  /\ Head(list[q]) \in Heads /\ Head(list[q]) \in Items /\ ItemOK(Head(list[q]), lists)
         /\ RestOK(Tail(list[q]), lists) /\ Follows(Head(list[q]), Tail(list[q]))
         /\ Tail(list[q]) \in Seq(Unfired) /\ Tail(list[q]) \in Seq(Items) /\ list[q] \in Seq(Items)
         /\ ToSet(list[q]) = ToSet(Tail(list[q])) \cup {Head(list[q])}
         /\ Head(list[q]).run \in 0 .. lists
         /\ \A y \in ToSet(Tail(list[q])) : ItemOK(y, lists) /\ Pair(Head(list[q]), y) /\ y \in Unfired
<1>1. QueueOK(list[q], lists) /\ lists \in Nat
  BY QInvTypes DEF AllOK
<1>2. /\ Head(list[q]) \in Heads /\ ItemOK(Head(list[q]), lists)
      /\ RestOK(Tail(list[q]), lists) /\ Follows(Head(list[q]), Tail(list[q])) /\ list[q] \in Seq(Items)
  BY <1>1 DEF QueueOK
<1>3. Head(list[q]) \in Items /\ Tail(list[q]) \in Seq(Unfired) /\ Tail(list[q]) \in Seq(Items)
  BY <1>2, RestItems DEF Heads, RestOK
<1>4. ToSet(list[q]) = ToSet(Tail(list[q])) \cup {Head(list[q])}
  BY <1>2, TailSet
<1>5. Head(list[q]).run \in 0 .. lists
  BY <1>1, <1>2 DEF ItemOK
<1>6. ASSUME NEW y \in ToSet(Tail(list[q])) PROVE ItemOK(y, lists) /\ Pair(Head(list[q]), y) /\ y \in Unfired
  <2> DEFINE t == Tail(list[q])
  <2>1. t \in Seq(Unfired) /\ y \in ToSet(t) /\ RestOK(t, lists) /\ Follows(Head(list[q]), t)
    BY <1>2, <1>3
  <2> HIDE DEF t
  <2>2. y \in Unfired /\ \E i \in 1 .. Len(t) : y = t[i]
    BY <2>1, InSet
  <2>3. Pair(Head(list[q]), y)
    BY <2>1, <2>2 DEF Follows
  <2> QED
    BY <2>1, <2>2, <2>3 DEF RestOK
<1> QED
  BY <1>2, <1>3, <1>4, <1>5, <1>6

(* cmdq_continue, for someone who no longer waits. *)
LEMMA ContinuedAll ==
  ASSUME QInv, NEW q \in Queues, list[q] # <<>>, NEW J \in SUBSET jobs, NEW S \in SUBSET signals,
         ~Awaited(q, J, S), NEW m \in Nat, lists <= m, NEW new, RestOK(new, m),
         \A y \in ToSet(new), z \in ToSet(Tail(list[q])) : Pair(y, z),
         \A y \in ToSet(new) : Pair(Head(list[q]), y) /\ y.run > lists
  PROVE  LET M == Continued(q, new)
         IN /\ M \in [Queues -> Seq(Items)] /\ AllOK(M, m, failed) /\ Wakers(M, J, S)
            /\ \A p \in Queues : p # q => M[p] = list[p]
<1> DEFINE h == Head(list[q])
           t == Tail(list[q])
           x == [h EXCEPT !.waiting = FALSE]
<1>1. /\ h \in Heads /\ h \in Items /\ ItemOK(h, lists) /\ Follows(h, t) /\ t \in Seq(Items)
      /\ RestOK(t, lists)
  BY HeadFacts
<1>2. /\ x \in Items /\ x.what = h.what /\ x.run = h.run /\ x.pos = h.pos /\ x.group = h.group
      /\ x.nohooks = h.nohooks /\ x.fired = h.fired /\ ~x.waiting
  BY <1>1, WokenFields
<1>3. Continued(q, new) = [list EXCEPT ![q] = (<<x>> \o new) \o t]
  BY QInvTypes DEF Continued
<1> HIDE DEF x
<1>4. x \in Heads
  BY <1>2 DEF Heads
<1>5. ItemOK(x, lists) /\ Follows(x, t)
  BY <1>1, <1>2, SameHead
<1>6. \A y : Pair(h, y) => Pair(x, y)
  BY <1>2, Zenon DEF Pair
<1>7. (<<x>> \o new) \o t = <<x>> \o (new \o t)
  <2>1. <<x>> \in Seq(Items) /\ new \in Seq(Items)
    BY <1>2, RestItems DEF RestOK
  <2>2. \A a, b, c \in Seq(Items) : (a \o b) \o c = a \o (b \o c)
    BY ConcatAssociative
  <2> QED
    BY <1>1, <2>1, <2>2
<1>8. Wakers(list, J, S) /\ J \in SUBSET Jobs /\ S \in SUBSET Queues
  BY QInvTypes, WakersLess
<1>9. \A y \in ToSet(new) : Pair(x, y) /\ y.run > lists
  BY <1>6
<1> DEFINE M == [list EXCEPT ![q] = <<x>> \o (new \o t)]
<1>10. M \in [Queues -> Seq(Items)] /\ AllOK(M, m, failed) /\ Wakers(M, J, S)
  BY <1>2, <1>4, <1>5, <1>8, <1>9, QInvTypes, SecondAll
<1>11. \A p \in Queues : p # q => M[p] = list[p]
  BY QInvTypes
<1> QED
  BY <1>3, <1>7, <1>10, <1>11

LEMMA JobFacts ==
  ASSUME QInv, NEW j \in jobs, j.queue # None
  PROVE  /\ j.queue \in Queues /\ list[j.queue] # <<>> /\ ~Awaited(j.queue, jobs \ {j}, signals)
         /\ j.what = "shell" /\ ~Head(list[j.queue]).nohooks
              => \A x \in ToSet(list[j.queue]) : x.group # HookGroup
<1>1. jobs \in SUBSET Jobs /\ Wakers(list, jobs, signals)
  BY QInvTypes
<1>2. j.queue \in Queues
  <2>1. j \in Jobs BY ZenonT(60), <1>1
  <2> QED BY ONLY <2>1, j.queue # None DEF Jobs
<1> QED
  BY <1>1, <1>2, NotAwaited DEF Wakers

LEMMA IfShell ==
  ASSUME QInv, NEW j \in jobs, cmd_if_shell_callback(j)
  PROVE  QInv'
<1> DEFINE r == lists + 1
           waits == j.queue # None
           head == Head(list[j.queue])
           owner == IF j.client = None THEN Global ELSE j.client
           g == IF InBraces /\ ~waits THEN BraceGroup ELSE r
           nh == waits /\ head.nohooks
           c == IF waits THEN head.client ELSE j.client
           new == cmdq_get_command(2, r, g, nh, c)
<1>1. /\ lists' \in 0 .. MaxLists /\ lists' = r /\ lists < r /\ r \in Nat /\ lists <= r
      /\ r \notin {0, HookGroup, KeyGroup, BraceGroup} /\ BraceGroup \notin {HookGroup, KeyGroup}
      /\ \A h : GroupOK(r, r, h) /\ (InBraces => GroupOK(r, BraceGroup, h))
  <2>1. Queueing(1) /\ 1 \in 1 .. 1 /\ 1 \in 1 .. 2 /\ 1 \in Nat
    BY DEF cmd_if_shell_callback
  <2>2. lists \in Nat
    BY QInvTypes
  <2> QED
    BY <2>1, <2>2, QueueingNext, NextList
<1>2. /\ list' = IF waits THEN Continued(j.queue, new) ELSE [list EXCEPT ![owner] = list[owner] \o new]
      /\ j.what = "shell" /\ jobs' = jobs \ {j}
  BY DEF cmd_if_shell_callback
<1>3. j \in Jobs /\ j.client \in Clients \cup {None} /\ owner \in Queues
  BY QInvTypes, QueuesFacts DEF Jobs
<1> HIDE DEF r
<1>4. IsList(new, r, g, nh)
  <2>1. nh \in BOOLEAN
    OBVIOUS
  <2>2. c \in Clients \cup {None}
    <3>1. CASE waits
      <4>1. head \in Items
        BY <3>1, JobFacts, HeadFacts
      <4> QED
        BY <3>1, <4>1 DEF Items
    <3> QED
      BY <1>3, <3>1
  <2>3. GroupOK(r, g, nh)
    BY <1>1
  <2> HIDE DEF g, nh, c
  <2> QED
    BY <2>1, <2>2, <2>3, ListItems, Zenon
<1> HIDE DEF new
<1>5. g \notin {HookGroup, KeyGroup}
  BY <1>1
<1>6. \A x \in ToSet(new) : /\ x.run > lists /\ x.group \notin {HookGroup, KeyGroup}
                            /\ x.what = "command" /\ x.run = r
  BY <1>1, <1>4, <1>5 DEF IsList
<1>7. list' \in [Queues -> Seq(Items)] /\ AllOK(list', r, failed) /\ Wakers(list', jobs', signals)
  <2>1. CASE waits
    <3> DEFINE q == j.queue
    <3>1. q \in Queues /\ list[q] # <<>> /\ ~Awaited(q, jobs \ {j}, signals)
      BY <2>1, JobFacts
    <3>2. ~head.nohooks => \A x \in ToSet(list[q]) : x.group # HookGroup
      BY <1>2, <2>1, JobFacts
    <3>3. head.run \in 0 .. lists /\ ItemOK(head, lists) /\ ToSet(list[q]) = ToSet(Tail(list[q])) \cup {head}
          /\ \A y \in ToSet(Tail(list[q])) : ItemOK(y, lists)
      BY <3>1, HeadFacts
    <3>4. \A y \in ToSet(new) : y.nohooks = head.nohooks
      <4>1. \A y \in ToSet(new) : y.nohooks = nh
        BY <1>4 DEF IsList
      <4>2. nh <=> head.nohooks
        BY <2>1
      <4>3. head.nohooks \in BOOLEAN
        BY <3>1, HeadFacts DEF Items
      <4> HIDE DEF nh, head, waits
      <4>4. nh \in BOOLEAN
        BY DEF nh, head, waits
      <4> QED
        BY <4>1, <4>2, <4>3, <4>4
    <3>5. ASSUME NEW y \in ToSet(new), NEW z \in ToSet(Tail(list[q])) PROVE Pair(y, z)
      <4>1. z.group = HookGroup => y.nohooks
        BY <3>2, <3>3, <3>4
      <4> QED
        BY <4>1, <1>6, <3>3, PairNew, QInvTypes
    <3>6. ASSUME NEW y \in ToSet(new) PROVE Pair(head, y) /\ y.run > lists
      <4>1. head.run # y.run
        BY <1>1, <1>6, <3>3, QInvTypes
      <4> QED
        BY <1>6, <4>1, Zenon DEF Pair
    <3>7. RestOK(new, r) /\ jobs \ {j} \in SUBSET jobs /\ signals \in SUBSET signals
      BY <1>4 DEF IsList
    <3>8. list' = Continued(q, new)
      BY <1>2, <2>1
    <3>9. \A y \in ToSet(new) : Pair(Head(list[q]), y) /\ y.run > lists
      BY <3>6
    <3>10. \A y \in ToSet(new), z \in ToSet(Tail(list[q])) : Pair(y, z)
      BY <3>5
    <3>11. r \in Nat /\ lists <= r
      BY <1>1
    <3> HIDE DEF q, waits
    <3> DEFINE J == jobs \ {j}
    <3> HIDE DEF J
    <3>12. J \in SUBSET jobs /\ ~Awaited(q, J, signals) /\ jobs' = J
      BY <1>2, <3>1 DEF J
    <3>13. /\ Continued(q, new) \in [Queues -> Seq(Items)] /\ AllOK(Continued(q, new), r, failed)
           /\ Wakers(Continued(q, new), J, signals)
      BY <3>1, <3>7, <3>9, <3>10, <3>11, <3>12, ContinuedAll
    <3> QED
      BY <3>8, <3>12, <3>13
  <2>2. CASE ~waits
    <3>1. RestOK(new, r)
      BY <1>4 DEF IsList
    <3>2. Wakers(list, jobs', signals) /\ jobs' \in SUBSET Jobs
      BY <1>2, QInvTypes, WakersLess
    <3>3. list' = [list EXCEPT ![owner] = list[owner] \o new]
      BY ZenonT(60), <1>2, <2>2
    <3> HIDE DEF owner
    <3> QED
      BY <1>1, <1>3, <1>6, <3>1, <3>2, <3>3, QInvTypes, BackAll
  <2> QED
    BY <2>1, <2>2
<1>8. Types'
  BY <1>1, <1>7 DEF QInv, Types, cmd_if_shell_callback, loopvars
<1> QED
  BY <1>1, <1>7, <1>8, QInvNext DEF cmd_if_shell_callback

LEMMA Done ==
  ASSUME QInv, NEW j \in jobs, JobDone(j)
  PROVE  QInv'
<1>1. list' \in [Queues -> Seq(Items)] /\ AllOK(list', lists, failed) /\ Wakers(list', jobs', signals)
  <2>1. CASE j.queue = None
    BY <2>1, QInvTypes, WakersLess DEF JobDone
  <2>2. CASE j.queue # None
    <3> DEFINE q == j.queue
    <3>1. q \in Queues /\ list[q] # <<>> /\ ~Awaited(q, jobs \ {j}, signals)
      BY <2>2, JobFacts
    <3>2. RestOK(<<>>, lists) /\ ToSet(<<>>) = {}
      BY EmptyRest, EmptyQueue
    <3>3. list' = Continued(q, <<>>) /\ jobs' = jobs \ {j}
      BY <2>2 DEF JobDone
    <3>4. lists \in Nat /\ lists <= lists
      BY QInvTypes
    <3>5. jobs \ {j} \in SUBSET jobs /\ signals \in SUBSET signals
      OBVIOUS
    <3> HIDE DEF q
    <3> QED
      BY <3>1, <3>2, <3>3, <3>4, <3>5, ContinuedAll
  <2> QED
    BY <2>1, <2>2
<1>2. Types'
  BY <1>1 DEF QInv, Types, JobDone, loopvars
<1> QED
  BY <1>1, <1>2, QInvNext DEF JobDone

LEMMA InputGone ==
  ASSUME QInv, NEW j \in jobs, window_pane_input_gone(j)
  PROVE  QInv'
<1>1. leaked' \in [Clients -> Nat]
  <2>1. leaked' = [leaked EXCEPT ![j.client] = leaked[j.client] + 1] /\ leaked \in [Clients -> Nat]
    BY DEF QInv, Types, window_pane_input_gone
  <2>2. \A c \in Clients : leaked[c] + 1 \in Nat
    BY <2>1
  <2> QED
    BY <2>1, <2>2
<1>2. Types'
  BY <1>1 DEF QInv, Types, window_pane_input_gone, loopvars, qvars
<1> QED
  BY <1>2, Unchanged DEF window_pane_input_gone, qvars

LEMMA TimerFails ==
  ASSUME QInv, NEW j \in jobs, cmd_run_shell_timer_fails(j)
  PROVE  QInv'
<1>1. Types'
  BY DEF QInv, Types, cmd_run_shell_timer_fails, loopvars, qvars
<1> QED
  BY <1>1, Unchanged DEF cmd_run_shell_timer_fails, qvars

-----------------------------------------------------------------------------
(* server_loop and the items it fires. *)

LEMMA Loop ==
  ASSUME QInv, server_loop
  PROVE  QInv'
<1>1. Types'
  BY QueuesFacts DEF QInv, Types, server_loop, qvars, clientvars
<1> QED
  BY <1>1, Unchanged DEF server_loop, qvars

LEMMA NextQueueKeeps ==
  ASSUME QInv, NextQueue
  PROVE  QInv'
<1>1. held' \in [Queues -> BOOLEAN]
  BY DEF QInv, Types, NextQueue
<1>2. cur' \in Queues \cup {None} /\ todo' \in Seq(Clients) /\ ran' \in BOOLEAN
  <2>1. CASE todo # <<>> /\ cur' = Head(todo) /\ todo' = Tail(todo) /\ UNCHANGED ran
    <3>1. Head(todo) \in Clients /\ Tail(todo) \in Seq(Clients)
      BY <2>1, HeadTailProperties DEF QInv, Types
    <3> QED
      BY <2>1, <3>1, QueuesFacts DEF QInv, Types
  <2>2. CASE cur' = Global /\ todo' = clients /\ ran' = FALSE
    BY <2>2, QueuesFacts DEF QInv, Types
  <2>3. CASE cur' = None /\ UNCHANGED <<todo, ran>>
    BY <2>3 DEF QInv, Types
  <2> QED
    BY <2>1, <2>2, <2>3 DEF NextQueue
<1>3. Types'
  BY <1>1, <1>2 DEF QInv, Types, NextQueue, clientvars
<1> QED
  BY <1>3, Unchanged DEF NextQueue

(* The running queue: nobody waits for its head. *)
LEMMA RunFacts ==
  ASSUME QInv, cur # None, Runnable(cur)
  PROVE  cur \in Queues /\ list[cur] # <<>> /\ ~Head(list[cur]).waiting /\ ~Awaited(cur, jobs, signals)
<1>1. cur \in Queues /\ list[cur] # <<>> /\ ~Head(list[cur]).waiting
  BY DEF QInv, Types, Runnable
<1>2. jobs \in SUBSET Jobs /\ Wakers(list, jobs, signals)
  BY QInvTypes
<1> QED
  BY <1>1, <1>2 DEF Wakers, Awaited

LEMMA GoesTypes ==
  ASSUME QInv, NEW L, NEW w \in BOOLEAN, Goes(L, w)
  PROVE  held' \in [Queues -> BOOLEAN] /\ ran' \in BOOLEAN /\ list' = L /\ UNCHANGED <<clients, cur, todo, freed>>
BY DEF QInv, Types, Goes

(* Items in place of the head that was fired. *)
LEMMA FrontStep ==
  ASSUME QInv, cur # None, Runnable(cur), NEW m \in Nat, lists <= m,
         NEW new, RestOK(new, m),
         \A x \in ToSet(new) : /\ x.what = "command" /\ x.run > lists /\ ~Head(list[cur]).fired
                               /\ Head(list[cur]).nohooks => x.nohooks /\ x.group # HookGroup
                               /\ x.group = KeyGroup => Head(list[cur]).what = "key",
         NEW t, RestOK(t, lists), ToSet(t) \subseteq ToSet(Tail(list[cur]))
  PROVE  LET M == [list EXCEPT ![cur] = new \o t]
         IN /\ M \in [Queues -> Seq(Items)] /\ AllOK(M, m, failed) /\ Wakers(M, jobs, signals)
            /\ ToSet(new \o t) = ToSet(new) \cup ToSet(t)
<1> DEFINE h == Head(list[cur])
<1>1. cur \in Queues /\ list[cur] # <<>> /\ ~Awaited(cur, jobs, signals)
  BY RunFacts
<1>2. \A y \in ToSet(Tail(list[cur])) : ItemOK(y, lists) /\ Pair(h, y)
  BY <1>1, HeadFacts
<1> HIDE DEF h
<1>3. ASSUME NEW x \in ToSet(new), NEW y \in ToSet(t) PROVE Pair(x, y)
  <2>1. ItemOK(y, lists) /\ Pair(h, y)
    BY <1>2
  <2>2. /\ x.what = "command" /\ x.run > lists /\ ~h.fired
        /\ h.nohooks => x.nohooks /\ x.group # HookGroup
        /\ x.group = KeyGroup => h.what = "key"
    BY DEF h
  <2>3. y.group = HookGroup => x.nohooks /\ x.group # HookGroup
    BY <2>1, <2>2, Zenon DEF Pair
  <2>4. x.group = KeyGroup => y.group # KeyGroup
    BY <2>1, <2>2, Zenon DEF Pair
  <2> QED
    BY <2>1, <2>2, <2>3, <2>4, QInvTypes, PairNew
<1>4. \A x \in ToSet(new) : x.run > lists
  OBVIOUS
<1>5. \A x \in ToSet(new), y \in ToSet(t) : Pair(x, y)
  BY <1>3
<1>6. /\ list \in [Queues -> Seq(Items)] /\ lists \in Nat /\ jobs \in SUBSET Jobs
      /\ signals \in SUBSET Queues /\ AllOK(list, lists, failed) /\ Wakers(list, jobs, signals)
  BY QInvTypes
<1>7. \A q \in Queues : list[q] # <<>> /\ ~Awaited(q, jobs, signals) /\ ToSet(t) \subseteq ToSet(Tail(list[q])) =>
         LET M == [list EXCEPT ![q] = new \o t]
         IN M \in [Queues -> Seq(Items)] /\ AllOK(M, m, failed) /\ Wakers(M, jobs, signals)
  BY <1>4, <1>5, <1>6, FrontAll
<1>8. ToSet(new \o t) = ToSet(new) \cup ToSet(t)
  BY <1>4, <1>5, <1>6, FrontRest
<1> QED
  BY <1>1, <1>7, <1>8

(* The head is removed. *)
LEMMA TailStep ==
  ASSUME QInv, cur # None, Runnable(cur)
  PROVE  LET M == [list EXCEPT ![cur] = Tail(list[cur])]
         IN M \in [Queues -> Seq(Items)] /\ AllOK(M, lists, failed) /\ Wakers(M, jobs, signals)
<1> DEFINE t == Tail(list[cur])
<1>1. cur \in Queues /\ list[cur] # <<>>
  BY RunFacts
<1>2. RestOK(t, lists) /\ t \in Seq(Items)
  BY <1>1, HeadFacts
<1>3. RestOK(<<>>, lists) /\ ToSet(<<>>) = {} /\ ToSet(t) \subseteq ToSet(Tail(list[cur]))
  BY EmptyRest, EmptyQueue
<1> HIDE DEF t
<1>4. <<>> \o t = t
  BY <1>2, ConcatEmptySeq
<1>5. lists \in Nat /\ lists <= lists
  BY QInvTypes
<1>6. LET M == [list EXCEPT ![cur] = <<>> \o t]
      IN M \in [Queues -> Seq(Items)] /\ AllOK(M, lists, failed) /\ Wakers(M, jobs, signals)
  BY <1>2, <1>3, <1>5, FrontStep
<1> QED
  BY <1>4, <1>6 DEF t

(* The commands of a hook, if it is inserted. *)
LEMMA HookItems ==
  ASSUME QInv, NEW item, NEW set \in BOOLEAN, NEW c \in Clients \cup {None}, NEW j \in 0 .. 1, NEW k, k = j + 1,
         Queueing(IF Hook(item, set, lists + k, c) = <<>> THEN j ELSE k)
  PROVE  LET hook == Hook(item, set, lists + k, c)
         IN /\ lists' \in 0 .. MaxLists /\ lists' \in Nat /\ lists <= lists'
            /\ RestOK(hook, lists')
            /\ \A x \in ToSet(hook) : /\ x.what = "command" /\ x.run > lists /\ x.nohooks
                                      /\ x.group = HookGroup /\ x.group # KeyGroup /\ ~item.nohooks
<1> DEFINE r == lists + k
           hook == Hook(item, set, r, c)
<1>1. lists' \in 0 .. MaxLists /\ lists' \in Nat /\ lists <= lists'
  <2>1. j \in Nat /\ k \in Nat
    OBVIOUS
  <2>2. CASE hook = <<>>
    BY <2>1, <2>2, QueueingNext
  <2>3. CASE hook # <<>>
    BY <2>1, <2>3, QueueingNext
  <2> QED
    BY <2>2, <2>3
<1>2. CASE hook = <<>>
  <2>1. RestOK(<<>>, lists') /\ ToSet(<<>>) = {}
    BY EmptyRest, EmptyQueue
  <2> QED
    BY <1>1, <1>2, <2>1
<1>3. CASE hook # <<>>
  <2>1. ~item.nohooks /\ hook = cmdq_get_command(2, r, HookGroup, TRUE, c)
    BY <1>3 DEF Hook
  <2>2. Queueing(k) /\ k \in 1 .. 2 /\ k \in 1 .. k /\ k \in Nat
    BY <1>3
  <2>3. /\ GroupOK(r, HookGroup, TRUE) /\ lists < r /\ r <= lists' /\ r \in Nat /\ HookGroup # KeyGroup
    BY <2>2, NextList
  <2> HIDE DEF r, hook
  <2>4. IsList(hook, r, HookGroup, TRUE)
    BY <2>1, <2>3, TRUE \in BOOLEAN, ListItems, Zenon
  <2>5. RestOK(hook, lists')
    BY <1>1, <2>3, <2>4, RestMonotonic DEF IsList
  <2>6. \A x \in ToSet(hook) : x.what = "command" /\ x.run > lists /\ x.nohooks /\ x.group = HookGroup
    BY <2>3, <2>4 DEF IsList
  <2> QED
    BY <1>1, <2>1, <2>3, <2>5, <2>6 DEF hook, r
<1> QED
  BY <1>2, <1>3

LEMMA LentClient ==
  ASSUME QInv, NEW item \in Items, NEW l \in Lent(item)
  PROVE  l \in Clients \cup {None}
<1>1. ToSet(clients) \subseteq Clients
  BY SetOfQueue DEF QInv, Types
<1> QED
  BY <1>1 DEF Lent, Items

LEMMA Normal ==
  ASSUME QInv, NEW l \in Clients \cup {None}, NEW set \in BOOLEAN, CommandNormal(l, set)
  PROVE  QInv'
<1> DEFINE item == Head(list[cur])
           hook == Hook(item, set, lists + 1, l)
           t == Tail(list[cur])
<1>1. cur # None /\ Runnable(cur) /\ ~item.fired /\ item.what = "command"
  BY DEF CommandNormal, Firing
<1>2. Queueing(IF hook = <<>> THEN 0 ELSE 1) /\ Goes([list EXCEPT ![cur] = hook \o t], FALSE)
  BY DEF CommandNormal
<1>3. /\ lists' \in 0 .. MaxLists /\ lists' \in Nat /\ lists <= lists' /\ RestOK(hook, lists')
      /\ \A x \in ToSet(hook) : /\ x.what = "command" /\ x.run > lists /\ x.nohooks
                                /\ x.group = HookGroup /\ x.group # KeyGroup /\ ~item.nohooks
  BY <1>2, HookItems, 0 \in 0 .. 1, 1 = 0 + 1
<1>4. RestOK(t, lists) /\ ToSet(t) \subseteq ToSet(Tail(list[cur]))
  BY <1>1, RunFacts, HeadFacts
<1> HIDE DEF hook, t
<1>5. LET M == [list EXCEPT ![cur] = hook \o t]
      IN M \in [Queues -> Seq(Items)] /\ AllOK(M, lists', failed) /\ Wakers(M, jobs, signals)
  BY <1>1, <1>3, <1>4, FrontStep
<1>6. /\ held' \in [Queues -> BOOLEAN] /\ ran' \in BOOLEAN /\ list' = [list EXCEPT ![cur] = hook \o t]
      /\ UNCHANGED <<clients, cur, todo, freed>>
  BY <1>2, GoesTypes
<1>7. list' \in [Queues -> Seq(Items)] /\ AllOK(list', lists', failed) /\ Wakers(list', jobs, signals)
  BY <1>5, <1>6
<1>8. Types'
  BY <1>3, <1>6, <1>7 DEF QInv, Types, CommandNormal
<1> QED
  BY <1>7, <1>8, QInvNext DEF CommandNormal

LEMMA Insert ==
  ASSUME QInv, NEW l \in Clients \cup {None}, CommandInsert(l)
  PROVE  QInv'
<1> DEFINE item == Head(list[cur])
           r == lists + 1
           new == cmdq_get_command(2, r, r, item.nohooks, l)
           t == Tail(list[cur])
<1>1. cur # None /\ Runnable(cur) /\ ~item.fired /\ item.what = "command"
  BY DEF CommandInsert, Firing
<1>2. Goes([list EXCEPT ![cur] = new \o t], FALSE)
  BY DEF CommandInsert
<1>3. /\ lists' \in 0 .. MaxLists /\ lists' = r /\ lists < r /\ r \in Nat /\ lists <= r
      /\ r \notin {HookGroup, KeyGroup} /\ \A h : GroupOK(r, r, h)
  <2>1. Queueing(1) /\ 1 \in 1 .. 1 /\ 1 \in 1 .. 2 /\ 1 \in Nat
    BY DEF CommandInsert
  <2>2. lists \in Nat
    BY QInvTypes
  <2> QED
    BY <2>1, <2>2, QueueingNext, NextList
<1>4. RestOK(t, lists) /\ ToSet(t) \subseteq ToSet(Tail(list[cur])) /\ item \in Items
  BY <1>1, RunFacts, HeadFacts
<1>5. IsList(new, r, r, item.nohooks)
  <2>1. item.nohooks \in BOOLEAN
    BY <1>4 DEF Items
  <2> HIDE DEF item, r
  <2> QED
    BY <1>3, <2>1, ListItems, Zenon
<1> HIDE DEF new, t, r
<1>6. /\ RestOK(new, r)
      /\ \A x \in ToSet(new) : x.what = "command" /\ x.run > lists /\ x.group \notin {HookGroup, KeyGroup}
  BY <1>3, <1>5 DEF IsList
<1>7. \A x \in ToSet(new) : item.nohooks => x.nohooks
  BY <1>5, Zenon DEF IsList
<1>8. LET M == [list EXCEPT ![cur] = new \o t]
      IN M \in [Queues -> Seq(Items)] /\ AllOK(M, r, failed) /\ Wakers(M, jobs, signals)
  BY <1>1, <1>3, <1>4, <1>6, <1>7, FrontStep
<1>9. /\ held' \in [Queues -> BOOLEAN] /\ ran' \in BOOLEAN /\ list' = [list EXCEPT ![cur] = new \o t]
      /\ UNCHANGED <<clients, cur, todo, freed>>
  BY <1>2, GoesTypes
<1>10. list' \in [Queues -> Seq(Items)] /\ AllOK(list', lists', failed) /\ Wakers(list', jobs, signals)
  BY <1>3, <1>8, <1>9
<1>11. Types'
  BY <1>3, <1>9, <1>10 DEF QInv, Types, CommandInsert
<1> QED
  BY <1>10, <1>11, QInvNext DEF CommandInsert

LEMMA NotifyCallback ==
  ASSUME QInv, NEW set \in BOOLEAN, notify_callback(set)
  PROVE  QInv'
<1> DEFINE item == Head(list[cur])
           c == item.client
           hook == Hook(item, set, lists + 1, c)
           t == Tail(list[cur])
<1>1. cur # None /\ Runnable(cur) /\ ~item.fired
  BY DEF notify_callback, Firing
<1>2. Queueing(IF hook = <<>> THEN 0 ELSE 1) /\ Goes([list EXCEPT ![cur] = hook \o t], FALSE)
  BY DEF notify_callback
<1>3. RestOK(t, lists) /\ ToSet(t) \subseteq ToSet(Tail(list[cur])) /\ c \in Clients \cup {None}
  BY <1>1, RunFacts, HeadFacts DEF Items
<1> HIDE DEF c
<1>4. /\ lists' \in 0 .. MaxLists /\ lists' \in Nat /\ lists <= lists' /\ RestOK(hook, lists')
      /\ \A x \in ToSet(hook) : /\ x.what = "command" /\ x.run > lists /\ x.nohooks
                                /\ x.group = HookGroup /\ x.group # KeyGroup /\ ~item.nohooks
  BY <1>2, <1>3, HookItems, 0 \in 0 .. 1, 1 = 0 + 1
<1> HIDE DEF hook, t
<1>5. LET M == [list EXCEPT ![cur] = hook \o t]
      IN M \in [Queues -> Seq(Items)] /\ AllOK(M, lists', failed) /\ Wakers(M, jobs, signals)
  BY <1>1, <1>3, <1>4, FrontStep
<1>6. /\ held' \in [Queues -> BOOLEAN] /\ ran' \in BOOLEAN /\ list' = [list EXCEPT ![cur] = hook \o t]
      /\ UNCHANGED <<clients, cur, todo, freed>>
  BY <1>2, GoesTypes
<1>7. list' \in [Queues -> Seq(Items)] /\ AllOK(list', lists', failed) /\ Wakers(list', jobs, signals)
  BY <1>5, <1>6
<1>8. Types'
  BY <1>4, <1>6, <1>7 DEF QInv, Types, notify_callback
<1> QED
  BY <1>7, <1>8, QInvNext DEF notify_callback

LEMMA KeyCallback ==
  ASSUME QInv, NEW bound \in BOOLEAN, server_client_key_callback(bound)
  PROVE  QInv'
<1> DEFINE item == Head(list[cur])
           c == item.client
           r == lists + 1
           new == IF bound THEN cmdq_get_command(2, r, KeyGroup, FALSE, c) ELSE <<>>
           t == Tail(list[cur])
<1>1. cur # None /\ Runnable(cur) /\ ~item.fired /\ item.what = "key"
  BY DEF server_client_key_callback, Firing
<1>2. Queueing(IF bound THEN 1 ELSE 0) /\ Goes([list EXCEPT ![cur] = new \o t], FALSE)
  BY DEF server_client_key_callback
<1>3. /\ RestOK(t, lists) /\ ToSet(t) \subseteq ToSet(Tail(list[cur])) /\ c \in Clients \cup {None}
      /\ ItemOK(item, lists)
  BY <1>1, RunFacts, HeadFacts DEF Items
<1>4. ~item.nohooks
  BY <1>1, <1>3 DEF ItemOK
<1> HIDE DEF c
<1>5. /\ lists' \in 0 .. MaxLists /\ lists' \in Nat /\ lists <= lists' /\ RestOK(new, lists')
      /\ \A x \in ToSet(new) : x.what = "command" /\ x.run > lists
  <2>1. CASE bound
    <3>1. Queueing(1) /\ 1 \in 1 .. 1 /\ 1 \in 1 .. 2 /\ 1 \in Nat /\ lists \in Nat
      BY <1>2, <2>1, QInvTypes
    <3>2. lists' \in 0 .. MaxLists /\ lists' = r /\ lists < r /\ r \in Nat /\ lists <= r /\ GroupOK(r, KeyGroup, FALSE)
      BY <3>1, QueueingNext, NextList
    <3>3. new = cmdq_get_command(2, r, KeyGroup, FALSE, c)
      BY <2>1
    <3> HIDE DEF r, new
    <3>4. IsList(new, r, KeyGroup, FALSE)
      BY <1>3, <3>2, <3>3, FALSE \in BOOLEAN, ListItems, Zenon
    <3> QED
      BY <3>2, <3>4 DEF IsList
  <2>2. CASE ~bound
    <3>1. Queueing(0) /\ 0 \in Nat /\ new = <<>>
      BY <1>2, <2>2
    <3>2. RestOK(<<>>, lists') /\ ToSet(<<>>) = {}
      BY EmptyRest, EmptyQueue
    <3> HIDE DEF new
    <3> QED
      BY <3>1, <3>2, QueueingNext
  <2> QED
    BY <2>1, <2>2
<1> HIDE DEF new, t, r
<1>6. LET M == [list EXCEPT ![cur] = new \o t]
      IN M \in [Queues -> Seq(Items)] /\ AllOK(M, lists', failed) /\ Wakers(M, jobs, signals)
  BY <1>1, <1>3, <1>4, <1>5, FrontStep
<1>7. /\ held' \in [Queues -> BOOLEAN] /\ ran' \in BOOLEAN /\ list' = [list EXCEPT ![cur] = new \o t]
      /\ UNCHANGED <<clients, cur, todo, freed>>
  BY <1>2, GoesTypes
<1>8. list' \in [Queues -> Seq(Items)] /\ AllOK(list', lists', failed) /\ Wakers(list', jobs, signals)
  BY <1>6, <1>7
<1>9. Types'
  BY <1>5, <1>7, <1>8 DEF QInv, Types, server_client_key_callback
<1> QED
  BY <1>8, <1>9, QInvNext DEF server_client_key_callback

LEMMA CommandDone ==
  ASSUME QInv, server_client_command_done
  PROVE  QInv'
<1>1. cur # None /\ Runnable(cur) /\ Goes([list EXCEPT ![cur] = Tail(list[cur])], FALSE)
  BY DEF server_client_command_done, Firing
<1>2. /\ held' \in [Queues -> BOOLEAN] /\ ran' \in BOOLEAN /\ list' = [list EXCEPT ![cur] = Tail(list[cur])]
      /\ UNCHANGED <<clients, cur, todo, freed>>
  BY <1>1, GoesTypes
<1>3. list' \in [Queues -> Seq(Items)] /\ AllOK(list', lists, failed) /\ Wakers(list', jobs, signals)
  BY <1>1, <1>2, TailStep
<1>4. Types'
  BY <1>2, <1>3 DEF QInv, Types, server_client_command_done
<1> QED
  BY <1>3, <1>4, QInvNext DEF server_client_command_done

LEMMA FiredRemoved ==
  ASSUME QInv, RemoveFired
  PROVE  QInv'
<1>1. list' \in [Queues -> Seq(Items)] /\ AllOK(list', lists, failed) /\ Wakers(list', jobs, signals)
  BY TailStep DEF RemoveFired
<1>2. Types'
  BY <1>1 DEF QInv, Types, RemoveFired, loopvars
<1> QED
  BY <1>1, <1>2, QInvNext DEF RemoveFired

LEMMA Background ==
  ASSUME QInv, NEW c \in Clients \cup {None}, CommandBackground(c)
  PROVE  QInv'
<1> DEFINE first == Job("shell", None, c)
           job == [first EXCEPT !.again = first \in jobs]
<1>1. cur # None /\ Runnable(cur) /\ Goes([list EXCEPT ![cur] = Tail(list[cur])], FALSE) /\ jobs' = jobs \cup {job}
  BY DEF CommandBackground, Firing
<1>2. /\ held' \in [Queues -> BOOLEAN] /\ ran' \in BOOLEAN /\ list' = [list EXCEPT ![cur] = Tail(list[cur])]
      /\ UNCHANGED <<clients, cur, todo, freed>>
  BY <1>1, GoesTypes
<1>3. list' \in [Queues -> Seq(Items)] /\ AllOK(list', lists, failed) /\ Wakers(list', jobs, signals)
  BY <1>1, <1>2, TailStep
<1>4. job \in Jobs /\ job.queue = None
  <2>1. first \in Jobs /\ first.queue = None
    BY DEF Job, Jobs
  <2>2. (first \in jobs) \in BOOLEAN
    OBVIOUS
  <2> HIDE DEF first
  <2> DEFINE b == first \in jobs
  <2> HIDE DEF b
  <2>3. [first EXCEPT !.again = b] \in Jobs /\ [first EXCEPT !.again = b].queue = None
    BY <2>1, <2>2 DEF Jobs, b
  <2> QED
    BY <2>3 DEF b
<1> HIDE DEF job
<1>5. Wakers(list', jobs', signals)
  BY <1>1, <1>3, <1>4 DEF Wakers
<1>6. jobs' \subseteq Jobs
  BY <1>1, <1>4, QInvTypes
<1>7. Types'
  BY <1>2, <1>3, <1>6 DEF QInv, Types, CommandBackground
<1> QED
  BY <1>3, <1>5, <1>7, QInvNext DEF CommandBackground

(* A command that fails: its list has left all the queues. *)
LEMMA Failed ==
  ASSUME QInv, NEW k \in Clients \cup {None}, NEW set \in BOOLEAN, CommandError(k, set)
  PROVE  QInv'
<1> DEFINE item == Head(list[cur])
           c == item.client
           hook == Hook(item, set, lists + 1, c)
           rest == Tail(list[cur])
           t == cmdq_remove_group(item, rest)
<1>1. cur # None /\ Runnable(cur) /\ ~item.fired /\ item.what = "command"
  BY DEF CommandError, Firing
<1>2. /\ Queueing(IF hook = <<>> THEN 0 ELSE 1) /\ Goes([list EXCEPT ![cur] = hook \o t], FALSE)
      /\ failed' = failed \cup {item.run}
  BY DEF CommandError
<1>3. /\ RestOK(rest, lists) /\ c \in Clients \cup {None} /\ ItemOK(item, lists) /\ rest \in Seq(Unfired)
      /\ cur \in Queues /\ item \in ToSet(list[cur]) /\ \A y \in ToSet(rest) : Pair(item, y)
  BY <1>1, RunFacts, HeadFacts DEF Items
<1>4. item.run \in 1 .. lists /\ item.run # 0 /\ item.group # 0 /\ item.run \in Nat
  <2>1. item.run \in 1 .. lists /\ item.group \in {item.run, HookGroup, KeyGroup, BraceGroup}
    BY <1>1, <1>3 DEF ItemOK
  <2>2. HookGroup # 0 /\ KeyGroup # 0 /\ BraceGroup # 0
    BY BoundsNat DEF HookGroup, KeyGroup, BraceGroup
  <2> QED
    BY <2>1, <2>2, QInvTypes
<1>5. /\ RestOK(t, lists) /\ ToSet(t) \subseteq ToSet(rest)
      /\ \A y \in ToSet(t) : y.group # item.group
  <2> DEFINE S == {i \in ToSet(rest) : i.group # item.group}
  <2>1. t = Only(rest, S)
    BY <1>4 DEF cmdq_remove_group
  <2> HIDE DEF t, rest
  <2>2. RestOK(Only(rest, S), lists)
    BY <1>3, OnlyRest
  <2>3. ToSet(Only(rest, S)) = ToSet(rest) \cap S
    BY <1>3, OnlySet
  <2> QED
    BY <2>1, <2>2, <2>3
<1> HIDE DEF c
<1>6. /\ lists' \in 0 .. MaxLists /\ lists' \in Nat /\ lists <= lists' /\ RestOK(hook, lists')
      /\ \A x \in ToSet(hook) : /\ x.what = "command" /\ x.run > lists /\ x.nohooks
                                /\ x.group = HookGroup /\ x.group # KeyGroup /\ ~item.nohooks
  BY <1>2, <1>3, HookItems, 0 \in 0 .. 1, 1 = 0 + 1
<1> HIDE DEF hook, t
<1> DEFINE M == [list EXCEPT ![cur] = hook \o t]
<1>7. /\ M \in [Queues -> Seq(Items)] /\ AllOK(M, lists', failed) /\ Wakers(M, jobs, signals)
      /\ ToSet(hook \o t) = ToSet(hook) \cup ToSet(t)
  BY <1>1, <1>5, <1>6, FrontStep
<1>8. M[cur] = hook \o t /\ \A p \in Queues : p # cur => M[p] = list[p]
  BY <1>3, QInvTypes
<1>9. ASSUME NEW p \in Queues, NEW x \in ToSet(M[p]) PROVE x.run # item.run
  <2>1. CASE p # cur
    <3>1. x \in ToSet(list[p])
      BY <1>8, <2>1
    <3> QED
      BY <1>3, <1>4, <2>1, <3>1, QInvTypes DEF AllOK
  <2>2. CASE p = cur /\ x \in ToSet(hook)
    BY <1>4, <1>6, <2>2, QInvTypes
  <2>3. CASE p = cur /\ x \in ToSet(t)
    <3>1. Pair(item, x) /\ x.group # item.group
      BY <1>3, <1>5, <2>3
    <3> QED
      BY <1>4, <3>1 DEF Pair
  <2> QED
    BY <1>7, <1>8, <2>1, <2>2, <2>3
<1> HIDE DEF M
<1>10. AllOK(M, lists', failed')
  <2>1. failed' \subseteq 1 .. lists'
    <3>1. failed \subseteq 1 .. lists'
      BY <1>7 DEF AllOK
    <3>2. item.run \in 1 .. lists'
      BY <1>4, <1>6, QInvTypes
    <3> QED
      BY <1>2, <3>1, <3>2
  <2>2. \A p \in Queues : \A x \in ToSet(M[p]) : x.run \notin failed'
    BY <1>2, <1>7, <1>9 DEF AllOK
  <2> QED
    BY <1>7, <2>1, <2>2 DEF AllOK
<1>11. /\ held' \in [Queues -> BOOLEAN] /\ ran' \in BOOLEAN /\ list' = M
       /\ UNCHANGED <<clients, cur, todo, freed>>
  BY <1>2, GoesTypes DEF M
<1>12. leaked' \in [Clients -> Nat]
  BY DEF CommandError, QInv, Types
<1>13. failed' \subseteq Nat
  BY <1>2, <1>4 DEF QInv, Types
<1>14. Types'
  BY <1>6, <1>7, <1>11, <1>12, <1>13 DEF QInv, Types, CommandError
<1> QED
  BY <1>7, <1>10, <1>11, <1>14, QInvNext DEF CommandError

(* The head that was fired starts to wait, with items behind it. *)
LEMMA WaitStep ==
  ASSUME QInv, Firing("command"), NEW m \in Nat, lists <= m, NEW new, RestOK(new, m),
         \A x \in ToSet(new) : /\ x.what = "command" /\ x.run > lists /\ x.nohooks
                               /\ x.group = HookGroup /\ x.group # KeyGroup /\ ~Head(list[cur]).nohooks
  PROVE  LET w == [Head(list[cur]) EXCEPT !.fired = TRUE, !.waiting = TRUE]
             M == [list EXCEPT ![cur] = (<<w>> \o new) \o Tail(list[cur])]
         IN /\ M \in [Queues -> Seq(Items)] /\ AllOK(M, m, failed) /\ Wakers(M, jobs, signals)
            /\ M[cur] # <<>> /\ Head(M[cur]) = w /\ w.waiting
            /\ ToSet(new) = {} /\ ~w.nohooks => \A x \in ToSet(M[cur]) : x.group # HookGroup
<1> DEFINE h == Head(list[cur])
           t == Tail(list[cur])
           w == [h EXCEPT !.fired = TRUE, !.waiting = TRUE]
           l == <<w>> \o (new \o t)
           M == [list EXCEPT ![cur] = l]
<1>1. cur # None /\ Runnable(cur) /\ ~h.fired /\ h.what = "command"
  BY DEF Firing
<1>2. cur \in Queues /\ list[cur] # <<>> /\ ~Awaited(cur, jobs, signals)
  BY <1>1, RunFacts
<1>3. /\ h \in Items /\ ItemOK(h, lists) /\ Follows(h, t) /\ RestOK(t, lists) /\ t \in Seq(Items)
      /\ h.run \in 0 .. lists /\ \A y \in ToSet(t) : ItemOK(y, lists) /\ Pair(h, y)
  BY <1>2, HeadFacts
<1>4. /\ w \in Items /\ w.what = h.what /\ w.run = h.run /\ w.pos = h.pos /\ w.group = h.group
      /\ w.nohooks = h.nohooks /\ w.fired /\ w.waiting
  BY <1>3, HeadFields, TRUE \in BOOLEAN
<1>5. (<<w>> \o new) \o t = l
  <2> HIDE DEF w, t
  <2>1. <<w>> \in Seq(Items) /\ new \in Seq(Items) /\ t \in Seq(Items)
    BY <1>3, <1>4, RestItems DEF RestOK
  <2>2. \A a, b, c \in Seq(Items) : (a \o b) \o c = a \o (b \o c)
    BY ConcatAssociative
  <2> QED
    BY <2>1, <2>2
<1> HIDE DEF w, h
<1>6. w \in Heads
  BY <1>4 DEF Heads
<1>7. ItemOK(w, lists) /\ Follows(w, t)
  BY <1>3, <1>4, SameHead
<1>8. ASSUME NEW x \in ToSet(new), NEW y \in ToSet(t) PROVE Pair(x, y)
  <2>1. ItemOK(y, lists) /\ Pair(h, y) /\ ~h.nohooks
    BY <1>3 DEF h
  <2>2. y.group # HookGroup
    BY <1>1, <2>1, Zenon DEF Pair
  <2> QED
    BY <2>1, <2>2, QInvTypes, PairNew
<1>9. ASSUME NEW x \in ToSet(new) PROVE Pair(w, x) /\ x.run > lists
  <2>1. ~h.nohooks /\ x.group = HookGroup /\ x.run > lists /\ x.group # KeyGroup
    BY DEF h
  <2>2. w.run # x.run
    BY <1>3, <1>4, <2>1, QInvTypes
  <2>3. w.group # HookGroup
    BY <1>3, <1>4, <2>1, Zenon DEF ItemOK
  <2> QED
    BY <1>4, <2>1, <2>2, <2>3, Zenon DEF Pair
<1>10. /\ \A x \in ToSet(new), y \in ToSet(t) : Pair(x, y)
       /\ \A x \in ToSet(new) : Pair(w, x) /\ x.run > lists
  BY <1>8, <1>9
<1>11. /\ list \in [Queues -> Seq(Items)] /\ lists \in Nat /\ jobs \in SUBSET Jobs
       /\ signals \in SUBSET Queues /\ AllOK(list, lists, failed) /\ Wakers(list, jobs, signals)
  BY QInvTypes
<1>12. w.run = Head(list[cur]).run
  BY <1>4 DEF h
<1>13. M \in [Queues -> Seq(Items)] /\ AllOK(M, m, failed) /\ Wakers(M, jobs, signals)
  BY <1>2, <1>6, <1>7, <1>10, <1>11, <1>12, SecondAll
<1>14. QueueOK(l, m) /\ ToSet(l) = {w} \cup ToSet(new) \cup ToSet(t) /\ l # <<>> /\ Head(l) = w
  <2> HIDE DEF t
  <2> QED
    BY <1>3, <1>6, <1>7, <1>10, <1>11, SecondQueue
<1>15. M[cur] = l
  BY <1>2, <1>11
<1>16. ToSet(new) = {} /\ ~w.nohooks => \A x \in ToSet(l) : x.group # HookGroup
  <2> SUFFICES ASSUME ToSet(new) = {}, ~w.nohooks, NEW x \in ToSet(l) PROVE x.group # HookGroup
    OBVIOUS
  <2>1. CASE x = w
    BY <1>7, <2>1, Zenon DEF ItemOK
  <2>2. CASE x \in ToSet(t)
    <3>1. Pair(h, x)
      BY <1>3, <2>2
    <3> QED
      BY <1>1, <1>4, <3>1, Zenon DEF Pair
  <2> QED
    BY <1>14, <2>1, <2>2
<1> HIDE DEF l
<1> QED
  BY <1>4, <1>5, <1>13, <1>14, <1>15, <1>16 DEF w, h

(* Somebody starts to wait. *)
LEMMA AddWaker ==
  ASSUME NEW L, NEW J \in SUBSET Jobs, NEW S \in SUBSET Queues, Wakers(L, J, S),
         NEW q \in Queues, ~Awaited(q, J, S), L[q] # <<>>, Head(L[q]).waiting
  PROVE  /\ Wakers(L, J, S \cup {q})
         /\ \A j : /\ j.queue = q
                   /\ j.what = "shell" /\ ~Head(L[q]).nohooks => \A x \in ToSet(L[q]) : x.group # HookGroup
                   => Wakers(L, J \cup {j}, S)
<1>1. \A j \in J : j.queue # q
  BY DEF Awaited
<1>2. q \notin S
  BY DEF Awaited
<1> QED
  BY <1>1, <1>2 DEF Wakers

LEMMA NewJob ==
  ASSUME NEW w \in {"shell", "input"}, NEW q \in Queues, NEW c \in Clients \cup {None}
  PROVE  Job(w, q, c) \in Jobs /\ Job(w, q, c).queue = q /\ Job(w, q, c).what = w
BY DEF Job, Jobs

LEMMA Wait ==
  ASSUME QInv, NEW channel \in BOOLEAN, NEW l \in Clients \cup {None}, CommandWait(channel, l)
  PROVE  QInv'
<1> DEFINE w == [Head(list[cur]) EXCEPT !.fired = TRUE, !.waiting = TRUE]
           t == Tail(list[cur])
           M == [list EXCEPT ![cur] = (<<w>> \o <<>>) \o t]
<1>1. Firing("command") /\ cur # None /\ Runnable(cur)
  BY DEF CommandWait, Firing
<1>2. cur \in Queues /\ list[cur] # <<>> /\ ~Awaited(cur, jobs, signals)
  BY <1>1, RunFacts
<1>3. RestOK(<<>>, lists) /\ ToSet(<<>>) = {} /\ lists \in Nat /\ lists <= lists
  BY EmptyRest, EmptyQueue, QInvTypes
<1>4. /\ M \in [Queues -> Seq(Items)] /\ AllOK(M, lists, failed) /\ Wakers(M, jobs, signals)
      /\ M[cur] # <<>> /\ Head(M[cur]) = w /\ w.waiting
      /\ ~w.nohooks => \A x \in ToSet(M[cur]) : x.group # HookGroup
  BY <1>1, <1>3, WaitStep
<1>5. <<w>> \o <<>> = <<w>>
  <2> HIDE DEF w
  <2>1. <<w>> \in Seq({w})
    OBVIOUS
  <2> QED
    BY <2>1, ConcatEmptySeq
<1>6. Goes(M, TRUE)
  BY <1>5 DEF CommandWait
<1> HIDE DEF M, w
<1>7. /\ held' \in [Queues -> BOOLEAN] /\ ran' \in BOOLEAN /\ list' = M
      /\ UNCHANGED <<clients, cur, todo, freed>>
  BY <1>6, GoesTypes
<1>8. /\ jobs \in SUBSET Jobs /\ signals \in SUBSET Queues
      /\ Head(M[cur]).waiting /\ ~Head(M[cur]).nohooks => \A x \in ToSet(M[cur]) : x.group # HookGroup
  BY <1>4, QInvTypes
<1>9. jobs' \subseteq Jobs /\ signals' \subseteq Queues /\ Wakers(M, jobs', signals')
  <2>1. CASE channel
    <3>1. jobs' = jobs /\ signals' = signals \cup {cur}
      BY <2>1 DEF CommandWait
    <3> QED
      BY <1>2, <1>4, <1>8, <3>1, AddWaker
  <2>2. CASE ~channel
    <3> DEFINE j == Job("shell", cur, l)
    <3>1. jobs' = jobs \cup {j} /\ signals' = signals
      BY <2>2 DEF CommandWait
    <3>2. j \in Jobs /\ j.queue = cur /\ j.what = "shell"
      BY <1>2, NewJob
    <3> HIDE DEF j
    <3> QED
      BY <1>2, <1>4, <1>8, <3>1, <3>2, AddWaker
  <2> QED
    BY <2>1, <2>2
<1>10. Types'
  BY <1>4, <1>7, <1>9 DEF QInv, Types, CommandWait
<1> QED
  BY <1>4, <1>7, <1>9, <1>10, QInvNext DEF CommandWait

LEMMA Input ==
  ASSUME QInv, NEW l \in Clients \cup {None}, NEW set \in BOOLEAN, CommandInput(l, set)
  PROVE  QInv'
<1> DEFINE item == Head(list[cur])
           w == [item EXCEPT !.fired = TRUE, !.waiting = TRUE]
           t == Tail(list[cur])
           hook == Hook(item, set, lists + 2, l)
           M == [list EXCEPT ![cur] = (<<w>> \o hook) \o t]
           dropped == IF cur = Global THEN item.nohooks ELSE RunsNoHooks(Global)
           j == Job("input", cur, l)
<1>1. Firing("command") /\ cur # None /\ Runnable(cur)
  BY DEF CommandInput, Firing
<1>2. cur \in Queues /\ list[cur] # <<>> /\ ~Awaited(cur, jobs, signals)
  BY <1>1, RunFacts
<1>3. /\ Queueing(IF hook = <<>> THEN 1 ELSE 2) /\ notify_add(dropped, M, None) /\ Goes(list', TRUE)
      /\ jobs' = jobs \cup {j} /\ signals' = signals /\ lost' = (lost \/ (dropped /\ cur # Global))
  BY DEF CommandInput
<1>4. /\ lists' \in 0 .. MaxLists /\ lists' \in Nat /\ lists <= lists' /\ RestOK(hook, lists')
      /\ \A x \in ToSet(hook) : /\ x.what = "command" /\ x.run > lists /\ x.nohooks
                                /\ x.group = HookGroup /\ x.group # KeyGroup /\ ~item.nohooks
  BY <1>3, HookItems, 1 \in 0 .. 1, 2 = 1 + 1
<1>5. lost' \in BOOLEAN
  BY <1>3 DEF QInv, Types
<1>6. j \in Jobs /\ j.queue = cur /\ j.what = "input"
  BY <1>2, NewJob
<1> HIDE DEF hook, dropped, j
<1>7. /\ M \in [Queues -> Seq(Items)] /\ AllOK(M, lists', failed) /\ Wakers(M, jobs, signals)
      /\ M[cur] # <<>> /\ Head(M[cur]) = w /\ w.waiting
  BY <1>1, <1>4, WaitStep
<1> HIDE DEF M, w
<1>8. jobs \in SUBSET Jobs /\ signals \in SUBSET Queues /\ jobs' \in SUBSET Jobs
  BY <1>3, <1>6, QInvTypes
<1>9. Wakers(M, jobs', signals)
  BY <1>2, <1>3, <1>6, <1>7, <1>8, AddWaker
<1>10. list' \in [Queues -> Seq(Items)] /\ AllOK(list', lists', failed) /\ Wakers(list', jobs', signals)
  <2>1. lists' <= lists' /\ None \in Clients \cup {None}
    BY <1>4
  <2> QED
    BY <1>3, <1>4, <1>7, <1>8, <1>9, <2>1, NotifyAll
<1>11. held' \in [Queues -> BOOLEAN] /\ ran' \in BOOLEAN /\ UNCHANGED <<clients, cur, todo, freed>>
  BY <1>3, GoesTypes
<1>12. Types'
  BY <1>4, <1>5, <1>8, <1>10, <1>11 DEF QInv, Types, CommandInput
<1> QED
  BY <1>3, <1>10, <1>12, QInvNext DEF CommandInput

LEMMA CommandNotifies ==
  ASSUME QInv, CommandNotify
  PROVE  QInv'
<1> DEFINE item == Head(list[cur])
           M == [list EXCEPT ![cur] = Tail(list[cur])]
           dropped == IF cur = Global THEN item.nohooks ELSE RunsNoHooks(Global)
<1>1. cur # None /\ Runnable(cur)
  BY DEF CommandNotify, Firing
<1>2. /\ Queueing(1) /\ notify_add(dropped, M, None) /\ Goes(list', FALSE)
      /\ lost' = (lost \/ (dropped /\ cur # Global))
  BY DEF CommandNotify
<1>3. lists' \in 0 .. MaxLists /\ lists' \in Nat /\ lists <= lists' /\ lists \in Nat
  BY <1>2, QueueingNext, QInvTypes, 1 \in Nat
<1>4. M \in [Queues -> Seq(Items)] /\ AllOK(M, lists, failed) /\ Wakers(M, jobs, signals)
  BY <1>1, TailStep
<1>5. lost' \in BOOLEAN
  BY <1>2 DEF QInv, Types
<1> HIDE DEF M, dropped
<1>6. list' \in [Queues -> Seq(Items)] /\ AllOK(list', lists', failed) /\ Wakers(list', jobs, signals)
  BY <1>2, <1>3, <1>4, QInvTypes, None \in Clients \cup {None}, NotifyAll
<1>7. held' \in [Queues -> BOOLEAN] /\ ran' \in BOOLEAN /\ UNCHANGED <<clients, cur, todo, freed>>
  BY <1>2, GoesTypes
<1>8. Types'
  BY <1>3, <1>5, <1>6, <1>7 DEF QInv, Types, CommandNotify
<1> QED
  BY <1>6, <1>8, QInvNext DEF CommandNotify

LEMMA Signal ==
  ASSUME QInv, NEW q \in signals, CommandSignal(q)
  PROVE  QInv'
<1> DEFINE L == Continued(q, <<>>)
           t == Tail(list[cur])
           M == [L EXCEPT ![cur] = t]
           S == signals \ {q}
<1>1. cur # None /\ Runnable(cur)
  BY DEF CommandSignal, Firing
<1>2. cur \in Queues /\ list[cur] # <<>> /\ ~Awaited(cur, jobs, signals)
  BY <1>1, RunFacts
<1>3. q # cur /\ q \in Queues /\ list[q] # <<>> /\ ~Awaited(q, jobs, S)
  <2>1. Wakers(list, jobs, signals) /\ signals \in SUBSET Queues /\ jobs \in SUBSET Jobs
    BY QInvTypes
  <2>2. q # cur /\ q \in Queues /\ list[q] # <<>> /\ q # None
    BY <1>2, <2>1, QueuesFacts DEF Awaited, Wakers
  <2>3. \A j \in jobs : j.queue # q
    BY <2>1, <2>2 DEF Wakers
  <2> QED
    BY <2>2, <2>3 DEF Awaited
<1>4. RestOK(<<>>, lists) /\ ToSet(<<>>) = {} /\ lists \in Nat /\ lists <= lists
  BY EmptyRest, EmptyQueue, QInvTypes
<1>5. S \in SUBSET signals /\ jobs \in SUBSET jobs /\ S \in SUBSET Queues /\ jobs \in SUBSET Jobs
  BY QInvTypes
<1>6. /\ L \in [Queues -> Seq(Items)] /\ AllOK(L, lists, failed) /\ Wakers(L, jobs, S)
      /\ L[cur] = list[cur]
  <2> HIDE DEF S
  <2> QED
    BY <1>2, <1>3, <1>4, <1>5, ContinuedAll
<1>7. Goes(M, FALSE) /\ signals' = S
  <2>1. [L EXCEPT ![cur] = Tail(L[cur])] = M
    BY <1>6
  <2> QED
    BY <2>1 DEF CommandSignal
<1>8. ~Awaited(cur, jobs, S)
  BY <1>2 DEF Awaited
<1>9. RestOK(t, lists) /\ t \in Seq(Items)
  BY <1>2, HeadFacts
<1> HIDE DEF L, S
<1>10. [L EXCEPT ![cur] = <<>> \o t] = M
  BY <1>9, ConcatEmptySeq
<1>11. M \in [Queues -> Seq(Items)] /\ AllOK(M, lists, failed) /\ Wakers(M, jobs, S)
  <2>1. L[cur] # <<>> /\ ToSet(t) \subseteq ToSet(Tail(L[cur]))
    BY <1>2, <1>6
  <2> HIDE DEF t, M
  <2> QED
    BY <1>2, <1>4, <1>5, <1>6, <1>8, <1>9, <1>10, <2>1, FrontAll
<1> HIDE DEF M
<1>12. /\ held' \in [Queues -> BOOLEAN] /\ ran' \in BOOLEAN /\ list' = M
       /\ UNCHANGED <<clients, cur, todo, freed>>
  BY <1>7, GoesTypes
<1>13. Types'
  BY <1>5, <1>7, <1>11, <1>12 DEF QInv, Types, CommandSignal
<1> QED
  BY <1>7, <1>11, <1>12, <1>13, QInvNext DEF CommandSignal

-----------------------------------------------------------------------------
(* The inductive invariant. *)

LEMMA Start == Init => QInv
<1> SUFFICES ASSUME Init PROVE QInv
  OBVIOUS
<1>1. list \in [Queues -> Seq(Items)] /\ \A q \in Queues : list[q] = <<>>
  BY DEF Init
<1>2. Types
  <2>1. <<>> \in Seq(Clients) /\ 0 \in 0 .. MaxLists /\ [c \in Clients |-> 0] \in [Clients -> Nat]
    BY BoundsNat
  <2>2. held \in [Queues -> BOOLEAN]
    BY DEF Init
  <2> QED
    BY <1>1, <2>1, <2>2 DEF Init, Types
<1>3. \A q \in Queues : QueueOK(list[q], lists) /\ ToSet(list[q]) = {}
  BY <1>1, EmptyQueue DEF QueueOK
<1>4. failed = {} /\ jobs = {} /\ signals = {}
  BY DEF Init
<1> QED
  BY <1>2, <1>3, <1>4 DEF QInv, AllOK, Wakers

LEMMA CallbackKeeps ==
  ASSUME QInv, CallbackStep
  PROVE  QInv'
<1>1. CASE \E c \in Clients : \/ server_client_create(c) \/ server_client_dispatch_command(c)
                              \/ server_client_handle_key(c)
                              \/ \E a \in BOOLEAN : server_client_lost(c, a)
                              \/ server_client_free(c)
  BY <1>1, Create, Dispatch, HandleKey, Lost, Free
<1>2. CASE EventNotifies
  BY <1>2, Notifies
<1>3. CASE \E j \in jobs : \/ cmd_if_shell_callback(j) \/ cmd_run_shell_callback(j)
                           \/ window_pane_input_callback(j) \/ window_pane_input_gone(j)
                           \/ cmd_run_shell_timer_fails(j)
  BY <1>3, IfShell, Done, InputGone, TimerFails DEF cmd_run_shell_callback, window_pane_input_callback
<1> QED
  BY <1>1, <1>2, <1>3 DEF CallbackStep

LEMMA FireKeeps ==
  ASSUME QInv, cur # None, Runnable(cur), FireStep
  PROVE  QInv'
<1>1. Head(list[cur]) \in Items
  BY RunFacts, HeadFacts
<1>2. \A l \in Lent(Head(list[cur])) : l \in Clients \cup {None}
  BY <1>1, LentClient
<1>3. \A c \in ToSet(clients) \cup {None} : c \in Clients \cup {None}
  BY SetOfQueue DEF QInv, Types
<1>4. ASSUME NEW l \in Lent(Head(list[cur])), NEW set \in BOOLEAN,
             \/ CommandNormal(l, set) \/ CommandInput(l, set)
             \/ CommandError(None, set) \/ CommandError(l, set)
             \/ CommandInsert(l)
             \/ \E channel \in BOOLEAN : CommandWait(channel, l)
      PROVE  QInv'
  BY <1>2, <1>4, Normal, Input, Failed, Insert, Wait
<1>5. CASE \E c \in ToSet(clients) \cup {None} : CommandBackground(c)
  BY <1>3, <1>5, Background
<1>6. CASE CommandNotify
  BY <1>6, CommandNotifies
<1>7. CASE \E q \in signals : CommandSignal(q)
  BY <1>7, Signal
<1>8. CASE \E set \in BOOLEAN : notify_callback(set) \/ server_client_key_callback(set)
  BY <1>8, NotifyCallback, KeyCallback
<1>9. CASE server_client_command_done
  BY <1>9, CommandDone
<1> QED
  BY <1>4, <1>5, <1>6, <1>7, <1>8, <1>9 DEF FireStep

LEMMA Step == QInv /\ [Next]_vars => QInv'
<1> SUFFICES ASSUME QInv, [Next]_vars PROVE QInv'
  OBVIOUS
<1>1. CASE CallbackStep
  BY <1>1, CallbackKeeps
<1>2. CASE server_loop
  BY <1>2, Loop
<1>3. CASE LoopStep
  BY <1>3, NextQueueKeeps, FiredRemoved, FireKeeps DEF LoopStep
<1>4. CASE UNCHANGED vars
  <2>1. Types'
    BY <1>4 DEF QInv, Types, vars
  <2> QED
    BY <1>4, <2>1, Unchanged DEF vars
<1> QED
  BY <1>1, <1>2, <1>3, <1>4 DEF Next

LEMMA Invariant == Spec => []QInv
BY Start, Step, PTL DEF Spec

-----------------------------------------------------------------------------
(* What it says about the places of a queue. *)

LEMMA Places ==
  ASSUME QInv, NEW q \in Queues
  PROVE  /\ list[q] \in Seq(Items) /\ DOMAIN list[q] = 1 .. Len(list[q]) /\ Len(list[q]) \in Nat
         /\ list[q] = <<>> => Len(list[q]) = 0
         /\ \A i \in 1 .. Len(list[q]) :
               \/ i = 1 /\ list[q] # <<>> /\ list[q][i] = Head(list[q])
               \/ i > 1 /\ list[q] # <<>> /\ i - 1 \in 1 .. Len(Tail(list[q])) /\ list[q][i] = Tail(list[q])[i - 1]
<1>1. list[q] \in Seq(Items)
  BY QInvTypes
<1>2. DOMAIN list[q] = 1 .. Len(list[q]) /\ Len(list[q]) \in Nat /\ (list[q] = <<>> => Len(list[q]) = 0)
  BY <1>1, LenProperties
<1>3. ASSUME NEW i \in 1 .. Len(list[q])
      PROVE  \/ i = 1 /\ list[q] # <<>> /\ list[q][i] = Head(list[q])
             \/ i > 1 /\ list[q] # <<>> /\ i - 1 \in 1 .. Len(Tail(list[q])) /\ list[q][i] = Tail(list[q])[i - 1]
  <2>1. list[q] # <<>>
    BY <1>2
  <2>2. /\ Head(list[q]) = list[q][1] /\ Len(Tail(list[q])) = Len(list[q]) - 1
        /\ \A k \in 1 .. Len(Tail(list[q])) : Tail(list[q])[k] = list[q][k + 1]
    BY <1>1, <2>1, HeadTailProperties
  <2>3. CASE i = 1
    BY <2>1, <2>2, <2>3
  <2>4. CASE i # 1
    <3>1. i > 1 /\ i - 1 \in 1 .. Len(Tail(list[q])) /\ (i - 1) + 1 = i
      BY <1>2, <2>2, <2>4
    <3> QED
      BY <2>1, <2>2, <3>1
  <2> QED
    BY <2>3, <2>4
<1> QED
  BY <1>1, <1>2, <1>3

LEMMA PlacesOK ==
  ASSUME QInv, NEW q \in Queues
  PROVE  LET l == list[q]
         IN /\ \A i \in 1 .. Len(l) : /\ ItemOK(l[i], lists) /\ l[i] \in Items /\ l[i] \in ToSet(l)
                                      /\ l[i].waiting => l[i].fired
                                      /\ l[i].fired => i = 1
            /\ \A i, j \in 1 .. Len(l) : i < j => Pair(l[i], l[j])
            /\ \A i, j, k \in 1 .. Len(l) : i < j /\ j < k => Space(l[i], l[j], l[k])
<1> DEFINE l == list[q]
           h == Head(l)
           t == Tail(l)
<1>1. /\ l \in Seq(Items) /\ Len(l) \in Nat
      /\ \A i \in 1 .. Len(l) : \/ i = 1 /\ l # <<>> /\ l[i] = h
                                \/ i > 1 /\ l # <<>> /\ i - 1 \in 1 .. Len(t) /\ l[i] = t[i - 1]
  BY Places
<1>2. l # <<>> => /\ h \in Heads /\ ItemOK(h, lists) /\ RestOK(t, lists) /\ Follows(h, t)
                  /\ h \in Items /\ t \in Seq(Unfired)
  BY HeadFacts
<1>3. l # <<>> => \A i \in 1 .. Len(t) : t[i] \in ToSet(t) /\ t[i] \in Unfired
  <2> HIDE DEF t
  <2> QED
    BY <1>2, InSet
<1> HIDE DEF l, h, t
<1>4. ASSUME NEW i \in 1 .. Len(l)
      PROVE  ItemOK(l[i], lists) /\ l[i] \in Items /\ (l[i].waiting => l[i].fired) /\ (l[i].fired => i = 1)
  <2>1. CASE i = 1 /\ l # <<>> /\ l[i] = h
    BY <1>2, <2>1 DEF Heads
  <2>2. CASE i > 1 /\ l # <<>> /\ i - 1 \in 1 .. Len(t) /\ l[i] = t[i - 1]
    BY <1>2, <1>3, <2>2 DEF RestOK, Unfired
  <2> QED
    BY <1>1, <2>1, <2>2
<1>5. ASSUME NEW i \in 1 .. Len(l), NEW j \in 1 .. Len(l), i < j
      PROVE  Pair(l[i], l[j])
  <2>1. j > 1 /\ l # <<>> /\ j - 1 \in 1 .. Len(t) /\ l[j] = t[j - 1]
    BY <1>1, <1>5
  <2>2. CASE i = 1 /\ l[i] = h
    BY <1>2, <2>1, <2>2 DEF Follows
  <2>3. CASE i > 1 /\ i - 1 \in 1 .. Len(t) /\ l[i] = t[i - 1]
    <3>1. i - 1 < j - 1
      BY <1>5
    <3> QED
      BY <1>2, <2>1, <2>3, <3>1 DEF RestOK, Paired
  <2> QED
    BY <1>1, <2>2, <2>3
<1>6. ASSUME NEW i \in 1 .. Len(l), NEW j \in 1 .. Len(l), NEW k \in 1 .. Len(l), i < j, j < k
      PROVE  Space(l[i], l[j], l[k])
  <2>1. /\ l # <<>> /\ j - 1 \in 1 .. Len(t) /\ l[j] = t[j - 1]
        /\ k - 1 \in 1 .. Len(t) /\ l[k] = t[k - 1] /\ j - 1 < k - 1
    BY <1>1, <1>6
  <2>2. CASE i = 1 /\ l[i] = h
    BY <1>2, <2>1, <2>2 DEF Follows
  <2>3. CASE i > 1 /\ i - 1 \in 1 .. Len(t) /\ l[i] = t[i - 1]
    <3>1. i - 1 < j - 1
      BY <1>6
    <3> QED
      BY <1>2, <2>1, <2>3, <3>1 DEF RestOK, Spaced
  <2> QED
    BY <1>1, <2>2, <2>3
<1>7. \A i \in 1 .. Len(l) : l[i] \in ToSet(l)
  BY <1>1, InSet
<1> QED
  BY <1>4, <1>5, <1>6, <1>7 DEF l

-----------------------------------------------------------------------------
(* The results. *)

(* Whoever will call cmdq_continue has the waiting head of a queue to      *)
(* itself, in every behaviour: cmdq_next never frees an item that a job, a *)
(* file or a wait channel still points at, and fires no item twice.        *)
THEOREM WakersAreValidHolds == Spec => []WakersAreValid
<1>1. ASSUME QInv PROVE WakersAreValid
  <2> SUFFICES ASSUME NEW q \in Queues
               PROVE  LET waits == {j \in jobs : j.queue = q}
                      IN /\ Cardinality(waits) + Cardinality({q} \cap signals) <= 1
                         /\ waits # {} \/ q \in signals => list[q] # <<>> /\ Head(list[q]).waiting
                         /\ \A i \in DOMAIN list[q] : /\ list[q][i].fired => i = 1
                                                      /\ list[q][i].waiting => list[q][i].fired
    BY DEF WakersAreValid
  <2> DEFINE waits == {j \in jobs : j.queue = q}
             sigs == {q} \cap signals
  <2>1. Wakers(list, jobs, signals) /\ q # None
    BY <1>1, QInvTypes, QueuesFacts
  <2>2. waits # {} \/ q \in signals => list[q] # <<>> /\ Head(list[q]).waiting
    BY <2>1 DEF Wakers
  <2>3. \A j, k \in waits : j = k
    BY <2>1 DEF Wakers
  <2>4. waits # {} => sigs = {}
    BY <2>1 DEF Wakers
  <2>5. \A S : (\A x, y \in S : x = y) => Cardinality(S) \in {0, 1} /\ (S = {} => Cardinality(S) = 0)
    <3> SUFFICES ASSUME NEW S, \A x, y \in S : x = y
                 PROVE  Cardinality(S) \in {0, 1} /\ (S = {} => Cardinality(S) = 0)
      OBVIOUS
    <3>1. CASE S = {}
      BY <3>1, FS_EmptySet
    <3>2. CASE S # {}
      <4>1. PICK x \in S : TRUE
        BY <3>2
      <4>2. S = {x}
        BY <4>1
      <4> QED
        BY <3>2, <4>2, FS_Singleton
    <3> QED
      BY <3>1, <3>2
  <2>6. \A x, y \in sigs : x = y
    OBVIOUS
  <2> HIDE DEF waits, sigs
  <2>7. Cardinality(waits) + Cardinality(sigs) <= 1
    <3>1. /\ Cardinality(waits) \in {0, 1} /\ Cardinality(sigs) \in {0, 1}
          /\ waits = {} => Cardinality(waits) = 0
          /\ sigs = {} => Cardinality(sigs) = 0
      BY <2>3, <2>5, <2>6
    <3> QED
      BY <2>4, <3>1
  <2>8. \A i \in DOMAIN list[q] : /\ list[q][i].fired => i = 1
                                  /\ list[q][i].waiting => list[q][i].fired
    BY <1>1, Places, PlacesOK
  <2> QED
    BY <2>2, <2>7, <2>8 DEF waits, sigs
<1> QED
  BY <1>1, Invariant, PTL

(* cmdq_insert_after and cmdq_append keep the commands of a list in their  *)
(* order, with nothing of an older list between them.                      *)
THEOREM ListsInOrderHolds == Spec => []ListsInOrder
<1>1. ASSUME QInv PROVE ListsInOrder
  <2> SUFFICES ASSUME NEW q \in Queues, NEW i \in DOMAIN list[q], NEW j \in DOMAIN list[q],
                      i < j, list[q][i].run = list[q][j].run, list[q][i].run # 0
               PROVE  /\ list[q][i].pos < list[q][j].pos
                      /\ \A k \in i .. j : list[q][k].run >= list[q][i].run
    BY DEF ListsInOrder
  <2> DEFINE l == list[q]
  <2>1. /\ DOMAIN l = 1 .. Len(l) /\ Len(l) \in Nat
        /\ \A k \in 1 .. Len(l) : l[k] \in Items
        /\ \A a, b \in 1 .. Len(l) : a < b => Pair(l[a], l[b])
        /\ \A a, b, c \in 1 .. Len(l) : a < b /\ b < c => Space(l[a], l[b], l[c])
    BY <1>1, Places, PlacesOK
  <2>2. i \in 1 .. Len(l) /\ j \in 1 .. Len(l)
    BY <2>1
  <2>3. Pair(l[i], l[j])
    BY <2>1, <2>2
  <2>4. l[i].pos < l[j].pos
    BY <2>3 DEF Pair
  <2>5. ASSUME NEW k \in i .. j PROVE l[k].run >= l[i].run
    <3>1. l[i].run \in Nat
      BY <2>1, <2>2 DEF Items
    <3>2. CASE k = i
      BY <3>1, <3>2
    <3>3. CASE k = j
      BY <3>1, <3>3
    <3>4. CASE k # i /\ k # j
      <4>1. k \in 1 .. Len(l) /\ i < k /\ k < j
        BY <2>1, <2>2, <3>4
      <4>2. Space(l[i], l[k], l[j])
        BY <2>1, <2>2, <4>1
      <4> QED
        BY <4>2 DEF Space
    <3> QED
      BY <3>2, <3>3, <3>4
  <2> QED
    BY <2>4, <2>5
<1> QED
  BY <1>1, Invariant, PTL

(* No queue has an item of a list of which a command failed, whatever was  *)
(* inserted between its commands and wherever the commands in braces came  *)
(* from: cmdq_remove_group removes all of the rest of the list.            *)
FailedListsGone ==
    \A q \in Queues : \A i \in DOMAIN list[q] : list[q][i].run \notin failed

THEOREM FailedListsGoneHolds == Spec => []FailedListsGone
<1>1. ASSUME QInv PROVE FailedListsGone
  <2> SUFFICES ASSUME NEW q \in Queues, NEW i \in DOMAIN list[q] PROVE list[q][i].run \notin failed
    BY DEF FailedListsGone
  <2>1. list[q][i] \in ToSet(list[q])
    BY <1>1, Places, PlacesOK
  <2> QED
    BY <1>1, <2>1, QInvTypes DEF AllOK
<1> QED
  BY <1>1, Invariant, PTL

(* When every list gets a group when it is queued, except hooks and key    *)
(* bindings, an error also cancels nothing of another list: the same group *)
(* is never in a queue twice for those two.  Commands in braces are the    *)
(* exception that the run with InBraces shows.                             *)
THEOREM ErrorsStopTheirListHolds ==
  ASSUME InBraces = FALSE
  PROVE  Spec => []ErrorsStopTheirList
<1>1. ASSUME QInv PROVE ErrorsStopTheirList
  <2> SUFFICES ASSUME NEW q \in Queues, NEW i \in DOMAIN list[q], NEW j \in DOMAIN list[q]
               PROVE  /\ list[q][i].run \notin failed
                      /\ list[q][i].group = list[q][j].group /\ list[q][i].group # 0
                            => list[q][i].run = list[q][j].run
    BY DEF ErrorsStopTheirList
  <2> DEFINE l == list[q]
  <2>1. /\ DOMAIN l = 1 .. Len(l) /\ Len(l) \in Nat
        /\ \A k \in 1 .. Len(l) : l[k] \in Items /\ ItemOK(l[k], lists) /\ l[k] \in ToSet(l)
        /\ \A a, b \in 1 .. Len(l) : a < b => Pair(l[a], l[b])
    BY <1>1, Places, PlacesOK
  <2>2. list[q][i].run \notin failed
    BY <1>1, <2>1, QInvTypes DEF AllOK
  <2>3. ASSUME l[i].group = l[j].group, l[i].group # 0
        PROVE  l[i].run = l[j].run
    <3>1. CASE l[i].group \in {HookGroup, KeyGroup}
      <4>1. i = j \/ i < j \/ j < i
        BY <2>1
      <4>2. i < j => l[i].run = l[j].run
        BY <2>1, <2>3, <3>1 DEF Pair
      <4>3. j < i => l[i].run = l[j].run
        BY <2>1, <2>3, <3>1 DEF Pair
      <4> QED
        BY <4>1, <4>2, <4>3
    <3>2. CASE l[i].group \notin {HookGroup, KeyGroup}
      <4>1. \A k \in 1 .. Len(l) : l[k].group # 0 /\ l[k].group \notin {HookGroup, KeyGroup} => l[k].group = l[k].run
        BY <2>1, Zenon DEF ItemOK
      <4> QED
        BY <2>1, <2>3, <3>2, <4>1
    <3> QED
      BY <3>1, <3>2
  <2> QED
    BY <2>2, <2>3
<1> QED
  BY <1>1, Invariant, PTL

-----------------------------------------------------------------------------
(***************************************************************************)
(* References.  The uses of a client are counted queue by queue, as sums   *)
(* over the entries of each; a step is described by the items that come    *)
(* into the queues and those that go, the jobs that start and end and what *)
(* leaks, and keeps the counts exact when the references it takes and      *)
(* gives up add up to these.                                               *)
(***************************************************************************)

(* What may be in queue q: only a notification has an entry with a client, *)
(* none of which ever waits, and an item in a client's queue is for that   *)
(* client.                                                                 *)
Kept(q) == {x \in Items : /\ x.what # "notify" => x.data = None
                          /\ x.fired => x.what # "notify"
                          /\ q \in Clients => x.client = q}
Homed(L) == \A q \in Queues : L[q] \in Seq(Kept(q))

(* The places of queues L that hold an item from X, and the uses of a      *)
(* client by the items, the list of clients and the jobs.                  *)
Spots(q, l, X) == {<<q, i>> : i \in Where(l, X)}
Held(L, X) == UNION {Spots(q, L[q], X) : q \in Queues}
Other(L, q, X) == UNION {Spots(p, L[p], X) : p \in Queues \ {q}}
OfClient(c) == {x \in Items : x.client = c}
OfData(c) == {x \in Items : x.data = c}
ItemUses(L, c) == Cardinality(Held(L, OfClient(c))) + Cardinality(Held(L, OfData(c)))
ListUses(C, c) == Cardinality({c} \cap ToSet(C))
JobUses(J, c) == Cardinality({j \in J : j.client = c})
AllUses(L, C, J, c) == ListUses(C, c) + ItemUses(L, c) + JobUses(J, c)

(* The uses of c in one queue.                                             *)
Weight(l, c) == Occurs(l, OfClient(c)) + Occurs(l, OfData(c))
One(x, c) == IF x = c THEN 1 ELSE 0

LEMMA HeldPlaces ==
  ASSUME NEW L \in [Queues -> Seq(Items)], NEW X
  PROVE  Held(L, X) = {p \in UNION {{<<q, i>> : i \in DOMAIN L[q]} : q \in Queues} : L[p[1]][p[2]] \in X}
<1> DEFINE P == UNION {{<<q, i>> : i \in DOMAIN L[q]} : q \in Queues}
<1>1. ASSUME NEW p \in Held(L, X) PROVE p \in P /\ L[p[1]][p[2]] \in X
  <2>1. PICK q \in Queues : p \in Spots(q, L[q], X) BY DEF Held
  <2>2. PICK i \in Where(L[q], X) : p = <<q, i>> BY <2>1 DEF Spots
  <2>3. i \in DOMAIN L[q] /\ L[q][i] \in X BY DEF Where
  <2> QED BY <2>2, <2>3
<1>2. ASSUME NEW p \in P, L[p[1]][p[2]] \in X PROVE p \in Held(L, X)
  <2>1. PICK q \in Queues : p \in {<<q, i>> : i \in DOMAIN L[q]} OBVIOUS
  <2>2. PICK i \in DOMAIN L[q] : p = <<q, i>> BY <2>1
  <2>3. i \in Where(L[q], X) BY <1>2, <2>2 DEF Where
  <2>4. p \in Spots(q, L[q], X) BY <2>2, <2>3 DEF Spots
  <2> QED BY <2>4 DEF Held
<1> HIDE DEF P
<1>3. Held(L, X) = {p \in P : L[p[1]][p[2]] \in X} BY <1>1, <1>2
<1> QED BY <1>3 DEF P

LEMMA SpotsCount ==
  ASSUME NEW q, NEW l \in Seq(Items), NEW X
  PROVE  IsFiniteSet(Spots(q, l, X)) /\ Cardinality(Spots(q, l, X)) = Occurs(l, X)
<1> DEFINE S == Where(l, X)
           T == {<<q, i>> : i \in S}
           f == [i \in S |-> <<q, i>>]
<1>1. f \in [S -> T] /\ \A t \in T : \E i \in S : f[i] = t OBVIOUS
<1>2. IsInjective(f) BY DEF IsInjective
<1>3. f \in Bijection(S, T) BY <1>1, <1>2 DEF Bijection, Injection, Surjection
<1>4. IsFiniteSet(S) BY OccursType
<1>5. Spots(q, l, X) = T /\ Occurs(l, X) = Cardinality(S) BY DEF Spots, Occurs
<1> HIDE DEF f, S, T
<1>6. ExistsBijection(S, T) BY <1>3 DEF ExistsBijection
<1> QED BY <1>4, <1>5, <1>6, FS_Bijection

LEMMA OtherFinite ==
  ASSUME NEW L \in [Queues -> Seq(Items)], NEW q, NEW X
  PROVE  IsFiniteSet(Other(L, q, X))
<1> DEFINE Q == Queues \ {q}
           S == {Spots(p, L[p], X) : p \in Q}
           f == [p \in Q |-> Spots(p, L[p], X)]
<1>1. IsFiniteSet(Q)
  <2>1. IsFiniteSet(Queues) BY ClientsFinite, FS_AddElement DEF Queues
  <2> QED BY <2>1, FS_Difference
<1>2. f \in Surjection(Q, S) BY DEF Surjection
<1>3. IsFiniteSet(S)
  <2> HIDE DEF Q, S, f
  <2> QED BY <1>1, <1>2, FS_Surjection
<1>4. \A T \in S : IsFiniteSet(T)
  <2> SUFFICES ASSUME NEW p \in Queues PROVE IsFiniteSet(Spots(p, L[p], X)) OBVIOUS
  <2> QED BY SpotsCount
<1>5. Other(L, q, X) = UNION S BY DEF Other
<1> HIDE DEF S
<1> QED BY <1>3, <1>4, <1>5, FS_UNION

LEMMA HeldSplit ==
  ASSUME NEW L \in [Queues -> Seq(Items)], NEW q \in Queues, NEW X
  PROVE  /\ IsFiniteSet(Held(L, X))
         /\ Cardinality(Held(L, X)) = Cardinality(Other(L, q, X)) + Occurs(L[q], X)
         /\ Cardinality(Other(L, q, X)) \in Nat
<1> DEFINE A == Other(L, q, X)
           B == Spots(q, L[q], X)
<1>1. Held(L, X) = A \cup B BY Zenon DEF Held, Other
<1>2. A \cap B = {}
  BY DEF Other, Spots
<1>3. IsFiniteSet(A) /\ IsFiniteSet(B) /\ Cardinality(B) = Occurs(L[q], X) BY OtherFinite, SpotsCount
<1> HIDE DEF A, B
<1>4. IsFiniteSet(A \cup B) /\ Cardinality(A \cup B) = Cardinality(A) + Cardinality(B)
  BY <1>2, <1>3, DisjointSum
<1> QED BY <1>1, <1>3, <1>4, FS_CardinalityType DEF A

(* When one queue changes, the uses change by those of the queue.          *)
LEMMA QueueChange ==
  ASSUME NEW L \in [Queues -> Seq(Items)], NEW q \in Queues, NEW l \in Seq(Items), NEW c
  PROVE  LET M == [L EXCEPT ![q] = l]
         IN /\ ItemUses(M, c) + Weight(L[q], c) = ItemUses(L, c) + Weight(l, c)
            /\ ItemUses(M, c) \in Nat /\ ItemUses(L, c) \in Nat
            /\ Weight(l, c) \in Nat /\ Weight(L[q], c) \in Nat
            /\ Weight(L[q], c) <= ItemUses(L, c)
<1> DEFINE M == [L EXCEPT ![q] = l]
<1>1. M \in [Queues -> Seq(Items)] /\ M[q] = l /\ \A p \in Queues \ {q} : M[p] = L[p] OBVIOUS
<1>2. \A X : Other(M, q, X) = Other(L, q, X) BY <1>1 DEF Other
<1>3. L[q] \in Seq(Items) OBVIOUS
<1> HIDE DEF M
<1>4. ASSUME NEW X
      PROVE  /\ Cardinality(Held(L, X)) = Cardinality(Other(L, q, X)) + Occurs(L[q], X)
             /\ Cardinality(Held(M, X)) = Cardinality(Other(L, q, X)) + Occurs(l, X)
             /\ Cardinality(Other(L, q, X)) \in Nat /\ Occurs(L[q], X) \in Nat /\ Occurs(l, X) \in Nat
  <2>1. Cardinality(Held(M, X)) = Cardinality(Other(M, q, X)) + Occurs(M[q], X) BY <1>1, HeldSplit
  <2>2. /\ Cardinality(Held(L, X)) = Cardinality(Other(L, q, X)) + Occurs(L[q], X)
        /\ Cardinality(Other(L, q, X)) \in Nat
    BY HeldSplit
  <2>3. Occurs(L[q], X) \in Nat /\ Occurs(l, X) \in Nat BY <1>3, OccursType
  <2> QED BY <1>1, <1>2, <2>1, <2>2, <2>3
<1>5. /\ ItemUses(L, c) = Cardinality(Held(L, OfClient(c))) + Cardinality(Held(L, OfData(c)))
      /\ ItemUses(M, c) = Cardinality(Held(M, OfClient(c))) + Cardinality(Held(M, OfData(c)))
      /\ Weight(l, c) = Occurs(l, OfClient(c)) + Occurs(l, OfData(c))
      /\ Weight(L[q], c) = Occurs(L[q], OfClient(c)) + Occurs(L[q], OfData(c))
  BY DEF ItemUses, Weight
<1>6. /\ ItemUses(M, c) + Weight(L[q], c) = ItemUses(L, c) + Weight(l, c)
      /\ ItemUses(M, c) \in Nat /\ ItemUses(L, c) \in Nat
      /\ Weight(l, c) \in Nat /\ Weight(L[q], c) \in Nat
      /\ Weight(L[q], c) <= ItemUses(L, c)
  <2>1. /\ Cardinality(Held(L, OfClient(c))) = Cardinality(Other(L, q, OfClient(c))) + Occurs(L[q], OfClient(c))
        /\ Cardinality(Held(M, OfClient(c))) = Cardinality(Other(L, q, OfClient(c))) + Occurs(l, OfClient(c))
        /\ Cardinality(Other(L, q, OfClient(c))) \in Nat
        /\ Occurs(L[q], OfClient(c)) \in Nat /\ Occurs(l, OfClient(c)) \in Nat
    BY <1>4
  <2>2. /\ Cardinality(Held(L, OfData(c))) = Cardinality(Other(L, q, OfData(c))) + Occurs(L[q], OfData(c))
        /\ Cardinality(Held(M, OfData(c))) = Cardinality(Other(L, q, OfData(c))) + Occurs(l, OfData(c))
        /\ Cardinality(Other(L, q, OfData(c))) \in Nat
        /\ Occurs(L[q], OfData(c)) \in Nat /\ Occurs(l, OfData(c)) \in Nat
    BY <1>4
  <2> DEFINE o1 == Cardinality(Other(L, q, OfClient(c)))
             o2 == Cardinality(Other(L, q, OfData(c)))
             a1 == Occurs(L[q], OfClient(c))
             a2 == Occurs(L[q], OfData(c))
             b1 == Occurs(l, OfClient(c))
             b2 == Occurs(l, OfData(c))
  <2>3. /\ ItemUses(L, c) = (o1 + a1) + (o2 + a2) /\ ItemUses(M, c) = (o1 + b1) + (o2 + b2)
        /\ Weight(l, c) = b1 + b2 /\ Weight(L[q], c) = a1 + a2
    BY <1>5, <2>1, <2>2
  <2>4. /\ o1 \in Nat /\ o2 \in Nat /\ a1 \in Nat /\ a2 \in Nat /\ b1 \in Nat /\ b2 \in Nat
    BY <2>1, <2>2
  <2> HIDE DEF o1, o2, a1, a2, b1, b2
  <2> QED BY <2>3, <2>4
<1> QED BY <1>6 DEF M

LEMMA WeightEmpty ==
  ASSUME NEW c
  PROVE  Weight(<<>>, c) = 0
BY OccursEmpty DEF Weight

LEMMA WeightConcat ==
  ASSUME NEW s \in Seq(Items), NEW t \in Seq(Items), NEW c
  PROVE  Weight(s \o t, c) = Weight(s, c) + Weight(t, c) /\ Weight(s, c) \in Nat /\ Weight(t, c) \in Nat
<1>1. \A X : /\ Occurs(s \o t, X) = Occurs(s, X) + Occurs(t, X)
             /\ Occurs(s, X) \in Nat /\ Occurs(t, X) \in Nat
  BY OccursConcat, OccursType
<1> QED BY <1>1 DEF Weight

LEMMA WeightOne ==
  ASSUME NEW x \in Items, NEW c
  PROVE  Weight(<<x>>, c) = One(x.client, c) + One(x.data, c)
BY OccursOne DEF Weight, OfClient, OfData, One

LEMMA WeightTail ==
  ASSUME NEW s \in Seq(Items), s # <<>>, NEW c
  PROVE  /\ Weight(s, c) = Weight(Tail(s), c) + One(Head(s).client, c) + One(Head(s).data, c)
         /\ Weight(Tail(s), c) \in Nat /\ Weight(s, c) \in Nat
<1>1. Head(s) \in Items /\ Tail(s) \in Seq(Items) BY HeadTailProperties
<1>2. \A X : /\ Occurs(s, X) = Occurs(Tail(s), X) + IF Head(s) \in X THEN 1 ELSE 0
             /\ Occurs(Tail(s), X) \in Nat
  BY <1>1, OccursTail, OccursType
<1>3. /\ (Head(s) \in OfClient(c)) <=> (Head(s).client = c)
      /\ (Head(s) \in OfData(c)) <=> (Head(s).data = c)
  BY <1>1 DEF OfClient, OfData
<1> QED BY <1>2, <1>3 DEF Weight, One

(* What TakeAndDrop counts.                                                *)
LEMMA CountOccurs ==
  ASSUME NEW s, NEW c
  PROVE  Count(s, c) = Occurs(s, {c})
<1>1. Where(s, {c}) = {i \in DOMAIN s : s[i] = c} BY DEF Where
<1> QED BY <1>1 DEF Count, Occurs

LEMMA CountEmpty ==
  ASSUME NEW c
  PROVE  Count(<<>>, c) = 0
BY CountOccurs, OccursEmpty

LEMMA CountOne ==
  ASSUME NEW a, NEW c
  PROVE  Count(<<a>>, c) = One(a, c)
<1>1. Count(<<a>>, c) = IF a \in {c} THEN 1 ELSE 0 BY CountOccurs, OccursOne
<1> QED BY <1>1 DEF One

LEMMA CountConcat ==
  ASSUME NEW T, NEW s \in Seq(T), NEW t \in Seq(T), NEW c
  PROVE  Count(s \o t, c) = Count(s, c) + Count(t, c)
<1>1. Occurs(s \o t, {c}) = Occurs(s, {c}) + Occurs(t, {c}) BY OccursConcat
<1> QED BY <1>1, CountOccurs

LEMMA CountAppend ==
  ASSUME NEW T, NEW s \in Seq(T), NEW a \in T, NEW c
  PROVE  Count(Append(s, a), c) = Count(s, c) + One(a, c)
<1>1. Occurs(Append(s, a), {c}) = Occurs(s, {c}) + IF a \in {c} THEN 1 ELSE 0 BY OccursAppend
<1> QED BY <1>1, CountOccurs DEF One

LEMMA CountType ==
  ASSUME NEW T, NEW s \in Seq(T), NEW c
  PROVE  Count(s, c) \in Nat
BY CountOccurs, OccursType

LEMMA ClientsOfType ==
  ASSUME NEW s \in Seq(Items)
  PROVE  ClientsOf(s) \in Seq(Clients \cup {None})
<1> DEFINE T == Clients \cup {None}
           m == Len(s)
<1>1. DOMAIN s = 1 .. m /\ m \in Nat /\ \A i \in 1 .. m : s[i] \in Items BY LenProperties, ElementOfSeq
<1>2. ClientsOf(s) \in [1 .. m -> T] BY <1>1 DEF ClientsOf, Items
<1> HIDE DEF T, m
<1>3. [1 .. m -> T] \in {[1 .. n -> T] : n \in Nat} BY <1>1, Zenon
<1>4. ClientsOf(s) \in Seq(T) BY <1>2, <1>3, SeqDef, Zenon
<1> QED BY <1>4 DEF T

(* The clients of items that are no notifications.                         *)
LEMMA ClientsCount ==
  ASSUME NEW s \in Seq(Items), NEW c \in Clients, \A x \in ToSet(s) : x.data = None
  PROVE  Count(ClientsOf(s), c) = Weight(s, c) /\ ClientsOf(s) \in Seq(Clients \cup {None})
<1>1. DOMAIN s = 1 .. Len(s) /\ Len(s) \in Nat /\ \A i \in 1 .. Len(s) : s[i] \in Items
  BY LenProperties, ElementOfSeq
<1>2. Where(s, OfClient(c)) = {i \in DOMAIN s : s[i].client = c} BY <1>1 DEF Where, OfClient
<1>3. {i \in DOMAIN ClientsOf(s) : ClientsOf(s)[i] = c} = {i \in DOMAIN s : s[i].client = c}
  BY DEF ClientsOf
<1>4. Count(ClientsOf(s), c) = Occurs(s, OfClient(c)) BY <1>2, <1>3 DEF Count, Occurs
<1>5. Occurs(s, OfData(c)) = 0
  <2>1. c # None BY Distinct
  <2>2. \A x \in ToSet(s) : x \notin OfData(c) BY <2>1 DEF OfData
  <2> QED BY <2>2, OccursNone
<1>6. Occurs(s, OfClient(c)) \in Nat BY OccursType
<1>7. ClientsOf(s) \in Seq(Clients \cup {None}) BY ClientsOfType
<1> QED BY <1>4, <1>5, <1>6, <1>7 DEF Weight

-----------------------------------------------------------------------------
(* Changing queues. *)

LEMMA KeptItems ==
  ASSUME NEW q
  PROVE  Kept(q) \subseteq Items /\ \A s \in Seq(Kept(q)) : s \in Seq(Items)
<1>1. Kept(q) \subseteq Items BY DEF Kept
<1> QED BY <1>1, SeqMonotonic

(* New items for queue q, all of them for client l.                        *)
NewItems(new, q, l) ==
    /\ new \in Seq(Kept(q)) /\ new \in Seq(Items)
    /\ ClientsOf(new) \in Seq(Clients \cup {None})
    /\ \A b \in Clients : /\ Count(ClientsOf(new), b) = Weight(new, b) /\ Weight(new, b) \in Nat
                          /\ Weight(new, b) > 0 => b = l

LEMMA NoNewItems ==
  ASSUME NEW q, NEW l
  PROVE  NewItems(<<>>, q, l)
<1>1. ClientsOf(<<>>) = <<>> BY DEF ClientsOf
<1>2. \A S : <<>> \in Seq(S) OBVIOUS
<1>3. ASSUME NEW b PROVE Count(ClientsOf(<<>>), b) = 0 /\ Weight(<<>>, b) = 0 /\ ~(0 > 0)
  BY <1>1, WeightEmpty, CountEmpty
<1>4. ClientsOf(<<>>) \in Seq(Clients \cup {None}) BY <1>1, <1>2
<1> QED BY <1>2, <1>3, <1>4 DEF NewItems

LEMMA ItemsAreNew ==
  ASSUME NEW q, NEW l, NEW new \in Seq(Kept(q)),
         \A x \in ToSet(new) : x.client = l /\ x.data = None
  PROVE  NewItems(new, q, l)
<1>1. new \in Seq(Items) BY KeptItems
<1>2. ASSUME NEW b \in Clients
      PROVE  /\ Count(ClientsOf(new), b) = Weight(new, b) /\ Weight(new, b) \in Nat
             /\ Weight(new, b) > 0 => b = l
  <2>1. Count(ClientsOf(new), b) = Weight(new, b) BY <1>1, ClientsCount
  <2>2. Occurs(new, OfClient(b)) \in Nat /\ Occurs(new, OfData(b)) \in Nat BY <1>1, OccursType
  <2>3. Occurs(new, OfData(b)) = 0
    <3>1. \A x \in ToSet(new) : x \notin OfData(b) BY Distinct DEF OfData
    <3> QED BY <1>1, <3>1, OccursNone
  <2>4. b # l => Occurs(new, OfClient(b)) = 0
    <3>1. b # l => \A x \in ToSet(new) : x \notin OfClient(b) BY DEF OfClient
    <3> QED BY <1>1, <3>1, OccursNone
  <2> QED BY <2>1, <2>2, <2>3, <2>4 DEF Weight
<1>3. ClientsOf(new) \in Seq(Clients \cup {None}) BY <1>1, ClientsOfType
<1> QED BY <1>1, <1>2, <1>3 DEF NewItems

ItemsFor(new, q, l) == new \in Seq(Kept(q)) /\ \A x \in ToSet(new) : x.client = l /\ x.data = None

LEMMA CommandsFor ==
  ASSUME NEW q, NEW r \in Nat, NEW g \in Nat, NEW h \in BOOLEAN, NEW l \in Clients \cup {None},
         q \in Clients => l = q
  PROVE  ItemsFor(cmdq_get_command(2, r, g, h, l), q, l)
<1> DEFINE new == cmdq_get_command(2, r, g, h, l)
           item(i) == [what |-> "command", run |-> r, pos |-> i, group |-> g, client |-> l, nohooks |-> h,
                       fired |-> FALSE, waiting |-> FALSE, data |-> None]
           two == 1 .. 2
           K == Kept(q)
<1>1. \A i \in two : item(i) \in K BY DEF Kept, Items
<1>2. \A i \in two : item(i).client = l /\ item(i).data = None BY Zenon
<1>3. new = [i \in two |-> item(i)] BY DEF cmdq_get_command
<1> HIDE DEF item, new
<1>4. new \in [two -> K] /\ ToSet(new) = {item(i) : i \in two}
  <2> HIDE DEF two, K
  <2> QED BY <1>1, <1>3 DEF ToSet
<1> HIDE DEF K
<1>5. new \in Seq(K)
  <2>1. [1 .. 2 -> K] \in {[1 .. n -> K] : n \in Nat} BY 2 \in Nat, Zenon
  <2> QED BY <1>4, <2>1, SeqDef, Zenon
<1>6. \A x \in ToSet(new) : x.client = l /\ x.data = None BY <1>2, <1>4
<1>7. ItemsFor(new, q, l) BY <1>5, <1>6 DEF ItemsFor, K
<1> QED BY <1>7 DEF new

LEMMA CommandsAreNew ==
  ASSUME NEW q, NEW r \in Nat, NEW g \in Nat, NEW h \in BOOLEAN, NEW l \in Clients \cup {None},
         q \in Clients => l = q
  PROVE  NewItems(cmdq_get_command(2, r, g, h, l), q, l)
<1> DEFINE new == cmdq_get_command(2, r, g, h, l)
<1>1. ItemsFor(new, q, l) BY CommandsFor
<1> HIDE DEF new
<1>2. NewItems(new, q, l) BY <1>1, ItemsAreNew DEF ItemsFor
<1> QED BY <1>2 DEF new

LEMMA HookIsNew ==
  ASSUME NEW q, NEW item, NEW set, NEW r \in Nat, NEW l \in Clients \cup {None}, q \in Clients => l = q
  PROVE  NewItems(Hook(item, set, r, l), q, l)
<1>1. HookGroup \in Nat BY BoundsNat DEF HookGroup
<1>2. NewItems(cmdq_get_command(2, r, HookGroup, TRUE, l), q, l) BY <1>1, CommandsAreNew
<1> QED BY <1>2, NoNewItems DEF Hook

LEMMA HomedChange ==
  ASSUME NEW L \in [Queues -> Seq(Items)], Homed(L), NEW q \in Queues, NEW l \in Seq(Kept(q))
  PROVE  LET M == [L EXCEPT ![q] = l] IN M \in [Queues -> Seq(Items)] /\ Homed(M)
<1>1. l \in Seq(Items) BY KeptItems
<1> QED BY <1>1 DEF Homed

(* Items at the end of a queue.                                            *)
LEMMA BackUses ==
  ASSUME NEW L \in [Queues -> Seq(Items)], Homed(L), NEW q \in Queues, NEW new, NEW l, NewItems(new, q, l)
  PROVE  LET M == [L EXCEPT ![q] = @ \o new]
         IN /\ M \in [Queues -> Seq(Items)] /\ Homed(M)
            /\ \A c : /\ ItemUses(M, c) = ItemUses(L, c) + Weight(new, c)
                      /\ ItemUses(L, c) \in Nat /\ Weight(new, c) \in Nat
<1> DEFINE m == L[q] \o new
           M == [L EXCEPT ![q] = m]
<1>1. L[q] \in Seq(Kept(q)) /\ new \in Seq(Kept(q)) /\ new \in Seq(Items) /\ L[q] \in Seq(Items)
  BY DEF Homed, NewItems
<1>2. m \in Seq(Kept(q)) /\ m \in Seq(Items) BY <1>1, ConcatProperties, KeptItems
<1>3. M \in [Queues -> Seq(Items)] /\ Homed(M) BY <1>2, HomedChange
<1>4. \A c : Weight(m, c) = Weight(L[q], c) + Weight(new, c) /\ Weight(L[q], c) \in Nat /\ Weight(new, c) \in Nat
  BY <1>1, WeightConcat
<1> HIDE DEF m
<1>5. \A c : /\ ItemUses(M, c) + Weight(L[q], c) = ItemUses(L, c) + Weight(m, c)
             /\ ItemUses(M, c) \in Nat /\ ItemUses(L, c) \in Nat
  BY <1>2, QueueChange
<1> HIDE DEF M
<1>6. \A c : ItemUses(M, c) = ItemUses(L, c) + Weight(new, c) /\ ItemUses(L, c) \in Nat /\ Weight(new, c) \in Nat
  <2> TAKE c
  <2> DEFINE w == Weight(L[q], c)
             u == Weight(new, c)
             k == ItemUses(L, c)
             n == ItemUses(M, c)
  <2>1. n + w = k + (w + u) /\ n \in Nat /\ k \in Nat /\ w \in Nat /\ u \in Nat
    BY <1>4, <1>5
  <2> HIDE DEF w, u, k, n
  <2>2. n = k + u BY <2>1
  <2> QED BY <2>1, <2>2 DEF u, k, n
<1> QED BY <1>3, <1>6 DEF M, m

LEMMA AppendUses ==
  ASSUME NEW L \in [Queues -> Seq(Items)], Homed(L), NEW q \in Queues, NEW x \in Kept(q)
  PROVE  LET M == [L EXCEPT ![q] = Append(@, x)]
         IN /\ M \in [Queues -> Seq(Items)] /\ Homed(M)
            /\ \A c : /\ ItemUses(M, c) = ItemUses(L, c) + One(x.client, c) + One(x.data, c)
                      /\ ItemUses(L, c) \in Nat
<1> DEFINE m == Append(L[q], x)
           M == [L EXCEPT ![q] = m]
<1>1. L[q] \in Seq(Kept(q)) /\ L[q] \in Seq(Items) /\ x \in Items /\ <<x>> \in Seq(Items)
  BY KeptItems DEF Homed
<1>2. m \in Seq(Kept(q)) /\ m \in Seq(Items) BY <1>1, KeptItems
<1>3. M \in [Queues -> Seq(Items)] /\ Homed(M) BY <1>2, HomedChange
<1>4. m = L[q] \o <<x>> BY <1>1, AppendIsConcat
<1>5. \A s, t \in Seq(Items) : \A c : Weight(s \o t, c) = Weight(s, c) + Weight(t, c) /\ Weight(s, c) \in Nat
  BY WeightConcat
<1>6. \A c : Weight(m, c) = Weight(L[q], c) + Weight(<<x>>, c) /\ Weight(L[q], c) \in Nat
  BY ZenonT(60), <1>1, <1>4, <1>5
<1>7. \A c : Weight(<<x>>, c) = One(x.client, c) + One(x.data, c) BY <1>1, WeightOne
<1>8. \A c : One(x.client, c) \in Nat /\ One(x.data, c) \in Nat BY DEF One
<1> HIDE DEF m
<1>9. \A c : /\ ItemUses(M, c) + Weight(L[q], c) = ItemUses(L, c) + Weight(m, c)
             /\ ItemUses(M, c) \in Nat /\ ItemUses(L, c) \in Nat
  BY <1>2, QueueChange
<1> HIDE DEF M
<1>10. \A c : ItemUses(M, c) = ItemUses(L, c) + One(x.client, c) + One(x.data, c) /\ ItemUses(L, c) \in Nat
  <2> TAKE c
  <2> DEFINE w == Weight(L[q], c)
             a == One(x.client, c)
             b == One(x.data, c)
             k == ItemUses(L, c)
             n == ItemUses(M, c)
  <2>1. n + w = k + (w + (a + b)) /\ n \in Nat /\ k \in Nat /\ w \in Nat /\ a \in Nat /\ b \in Nat
    BY <1>6, <1>7, <1>8, <1>9
  <2> HIDE DEF w, a, b, k, n
  <2>2. n = k + a + b BY <2>1
  <2> QED BY <2>1, <2>2 DEF a, b, k, n
<1> QED BY <1>3, <1>10 DEF M, m

(* Items in place of the head, and a rest in place of the rest: what this  *)
(* does to the uses.                                                       *)
Replaced(L, M, q, new, rest) ==
    LET h == Head(L[q])
        t == Tail(L[q])
    IN /\ M \in [Queues -> Seq(Items)] /\ Homed(M)
       /\ \A c : /\ ItemUses(M, c) + One(h.client, c) + One(h.data, c) + Weight(t, c)
                       = ItemUses(L, c) + Weight(new, c) + Weight(rest, c)
                 /\ ItemUses(M, c) \in Nat /\ ItemUses(L, c) \in Nat
                 /\ Weight(new, c) \in Nat /\ Weight(rest, c) \in Nat /\ Weight(t, c) \in Nat

LEMMA FrontUses ==
  ASSUME NEW L \in [Queues -> Seq(Items)], Homed(L), NEW q \in Queues, L[q] # <<>>,
         NEW new \in Seq(Kept(q)), NEW rest \in Seq(Kept(q))
  PROVE  Replaced(L, [L EXCEPT ![q] = new \o rest], q, new, rest)
<1> DEFINE m == new \o rest
           M == [L EXCEPT ![q] = m]
           h == Head(L[q])
           t == Tail(L[q])
<1>1. new \in Seq(Items) /\ rest \in Seq(Items) /\ L[q] \in Seq(Items) BY KeptItems DEF Homed
<1>2. m \in Seq(Kept(q)) /\ m \in Seq(Items) BY ConcatProperties, KeptItems
<1>3. M \in [Queues -> Seq(Items)] /\ Homed(M) BY <1>2, HomedChange
<1>4. \A c : /\ Weight(m, c) = Weight(new, c) + Weight(rest, c) /\ Weight(new, c) \in Nat
             /\ Weight(rest, c) \in Nat
  BY <1>1, WeightConcat
<1>5. \A c : /\ Weight(L[q], c) = Weight(t, c) + One(h.client, c) + One(h.data, c)
             /\ Weight(t, c) \in Nat
  BY <1>1, WeightTail
<1>6. \A c : One(h.client, c) \in Nat /\ One(h.data, c) \in Nat BY DEF One
<1> HIDE DEF m
<1>7. \A c : /\ ItemUses(M, c) + Weight(L[q], c) = ItemUses(L, c) + Weight(m, c)
             /\ ItemUses(M, c) \in Nat /\ ItemUses(L, c) \in Nat
  BY <1>2, QueueChange
<1> HIDE DEF M, h, t
<1>8. \A c : /\ ItemUses(M, c) + One(h.client, c) + One(h.data, c) + Weight(t, c)
                   = ItemUses(L, c) + Weight(new, c) + Weight(rest, c)
             /\ ItemUses(M, c) \in Nat /\ ItemUses(L, c) \in Nat
             /\ Weight(new, c) \in Nat /\ Weight(rest, c) \in Nat /\ Weight(t, c) \in Nat
  <2> TAKE c
  <2> DEFINE a == One(h.client, c)
             b == One(h.data, c)
             w == Weight(t, c)
             u == Weight(new, c)
             v == Weight(rest, c)
             k == ItemUses(L, c)
  <2>1. ItemUses(M, c) + (w + a + b) = k + (u + v) /\ ItemUses(M, c) \in Nat
    BY <1>4, <1>5, <1>7
  <2>2. a \in Nat /\ b \in Nat /\ w \in Nat /\ u \in Nat /\ v \in Nat /\ k \in Nat
    BY <1>4, <1>5, <1>6, <1>7
  <2> HIDE DEF a, b, w, u, v, k
  <2>3. ItemUses(M, c) + a + b + w = k + u + v BY <2>1, <2>2
  <2> QED BY <2>1, <2>2, <2>3 DEF a, b, w, u, v, k
<1> QED BY <1>3, <1>8 DEF M, h, t, m, Replaced

(* Items in place of the head.                                             *)
LEMMA HeadUses ==
  ASSUME NEW L \in [Queues -> Seq(Items)], Homed(L), NEW q \in Queues, L[q] # <<>>, NEW new \in Seq(Kept(q))
  PROVE  LET M == [L EXCEPT ![q] = new \o Tail(L[q])]
             h == Head(L[q])
         IN /\ M \in [Queues -> Seq(Items)] /\ Homed(M)
            /\ \A c : /\ ItemUses(M, c) + (One(h.client, c) + One(h.data, c)) = ItemUses(L, c) + Weight(new, c)
                      /\ ItemUses(M, c) \in Nat /\ ItemUses(L, c) \in Nat /\ Weight(new, c) \in Nat
<1> DEFINE t == Tail(L[q])
           M == [L EXCEPT ![q] = new \o t]
           h == Head(L[q])
<1>1. t \in Seq(Kept(q)) BY HeadTailProperties DEF Homed
<1>2. /\ M \in [Queues -> Seq(Items)] /\ Homed(M)
      /\ \A c : /\ ItemUses(M, c) + One(h.client, c) + One(h.data, c) + Weight(t, c)
                      = ItemUses(L, c) + Weight(new, c) + Weight(t, c)
                /\ ItemUses(M, c) \in Nat /\ ItemUses(L, c) \in Nat
                /\ Weight(new, c) \in Nat /\ Weight(t, c) \in Nat
  <2>1. Replaced(L, M, q, new, t) BY <1>1, FrontUses
  <2> QED BY <2>1, Zenon DEF Replaced
<1> HIDE DEF M, h, t
<1>3. ASSUME NEW c
      PROVE  ItemUses(M, c) + (One(h.client, c) + One(h.data, c)) = ItemUses(L, c) + Weight(new, c)
  <2> DEFINE i == ItemUses(L, c)
             i2 == ItemUses(M, c)
             x == One(h.client, c)
             y == One(h.data, c)
             w == Weight(t, c)
             n == Weight(new, c)
  <2>1. i2 + x + y + w = i + n + w /\ i2 \in Nat /\ i \in Nat /\ n \in Nat /\ w \in Nat BY <1>2
  <2>2. x \in Nat /\ y \in Nat BY DEF One
  <2> HIDE DEF i, i2, x, y, w, n
  <2>3. i2 + (x + y) = i + n BY <2>1, <2>2
  <2> QED BY <2>3 DEF i, i2, x, y, n
<1> QED BY <1>2, <1>3 DEF M, h, t

-----------------------------------------------------------------------------
(* The invariant. *)

RInv ==
    /\ Homed(list) /\ IsFiniteSet(jobs)
    /\ refs \in [Clients -> Nat] /\ freeing \in [Clients -> 0 .. 1]
    /\ \A c \in Clients : refs[c] = AllUses(list, clients, jobs, c) + leaked[c]
    /\ \A c \in Clients : freeing[c] = 1 \/ c \in freed => refs[c] = 0
    /\ \A c \in freed : freeing[c] = 0

LEMMA UsesIsAll ==
  /\ QInv => \A c \in Clients : Uses(c) = AllUses(list, clients, jobs, c)
  /\ QInv' => \A c \in Clients : Uses(c)' = AllUses(list', clients', jobs', c)
<1>1. ASSUME NEW L \in [Queues -> Seq(Items)], NEW c
      PROVE  LET places == UNION {{<<q, i>> : i \in DOMAIN L[q]} : q \in Queues}
             IN /\ Held(L, OfClient(c)) = {p \in places : L[p[1]][p[2]].client = c}
                /\ Held(L, OfData(c)) = {p \in places : L[p[1]][p[2]].data = c}
  <2> DEFINE places == UNION {{<<q, i>> : i \in DOMAIN L[q]} : q \in Queues}
  <2>1. ASSUME NEW p \in places PROVE L[p[1]][p[2]] \in Items
    <3>1. PICK q \in Queues : p \in {<<q, i>> : i \in DOMAIN L[q]} OBVIOUS
    <3>2. PICK i \in DOMAIN L[q] : p = <<q, i>> BY <3>1
    <3>3. L[q] \in Seq(Items) OBVIOUS
    <3>4. L[q][i] \in Items BY <3>3, LenProperties, ElementOfSeq
    <3> QED BY <3>2, <3>4
  <2>2. \A X : Held(L, X) = {p \in places : L[p[1]][p[2]] \in X} BY HeldPlaces
  <2> HIDE DEF places
  <2>3. /\ Held(L, OfClient(c)) = {p \in places : L[p[1]][p[2]].client = c}
        /\ Held(L, OfData(c)) = {p \in places : L[p[1]][p[2]].data = c}
    BY <2>1, <2>2 DEF OfClient, OfData
  <2> QED BY <2>3 DEF places
<1>2. ASSUME QInv, NEW c \in Clients PROVE Uses(c) = AllUses(list, clients, jobs, c)
  <2>1. list \in [Queues -> Seq(Items)] BY <1>2, QInvTypes
  <2>2. Cardinality({c} \cap ToSet(clients)) \in Nat
    <3>1. IsFiniteSet({c}) BY FS_Singleton
    <3> QED BY <3>1, FS_Intersection, FS_CardinalityType
  <2>3. Uses(c) = ListUses(clients, c) + Cardinality(Held(list, OfClient(c)))
                    + Cardinality(Held(list, OfData(c))) + JobUses(jobs, c)
    BY <1>1, <2>1, Zenon DEF Uses, ListUses, JobUses
  <2>4. Cardinality(Held(list, OfClient(c))) \in Nat /\ Cardinality(Held(list, OfData(c))) \in Nat
    BY <2>1, HeldSplit, QueuesFacts, FS_CardinalityType
  <2> QED BY <2>2, <2>3, <2>4 DEF AllUses, ItemUses, ListUses
<1>3. ASSUME QInv', NEW c \in Clients PROVE Uses(c)' = AllUses(list', clients', jobs', c)
  <2>1. list' \in [Queues -> Seq(Items)] BY <1>3 DEF QInv, Types
  <2>2. Cardinality({c} \cap ToSet(clients')) \in Nat
    <3>1. IsFiniteSet({c}) BY FS_Singleton
    <3> QED BY <3>1, FS_Intersection, FS_CardinalityType
  <2>3. Uses(c)' = ListUses(clients', c) + Cardinality(Held(list', OfClient(c)))
                    + Cardinality(Held(list', OfData(c))) + JobUses(jobs', c)
    BY <1>1, <2>1, Zenon DEF Uses, ListUses, JobUses
  <2>4. Cardinality(Held(list', OfClient(c))) \in Nat /\ Cardinality(Held(list', OfData(c))) \in Nat
    BY <2>1, HeldSplit, QueuesFacts, FS_CardinalityType
  <2> QED BY <2>2, <2>3, <2>4 DEF AllUses, ItemUses, ListUses
<1> QED BY <1>2, <1>3

LEMMA ListUsesType ==
  ASSUME NEW C, NEW c
  PROVE  ListUses(C, c) = IF c \in ToSet(C) THEN 1 ELSE 0
<1>1. CASE c \in ToSet(C)
  <2>1. {c} \cap ToSet(C) = {c} BY <1>1
  <2> QED BY <1>1, <2>1, FS_Singleton DEF ListUses
<1>2. CASE c \notin ToSet(C)
  <2>1. {c} \cap ToSet(C) = {} BY <1>2
  <2> QED BY <1>2, <2>1, FS_EmptySet DEF ListUses
<1> QED BY <1>1, <1>2

LEMMA JobUsesType ==
  ASSUME NEW J, IsFiniteSet(J), NEW c
  PROVE  JobUses(J, c) \in Nat
<1>1. IsFiniteSet({j \in J : j.client = c}) BY FS_Subset
<1> QED BY <1>1, FS_CardinalityType DEF JobUses

LEMMA AddJob ==
  ASSUME NEW J, IsFiniteSet(J), NEW j, j \notin J
  PROVE  /\ IsFiniteSet(J \cup {j})
         /\ \A c : JobUses(J \cup {j}, c) = JobUses(J, c) + One(j.client, c) /\ JobUses(J, c) \in Nat
<1>1. IsFiniteSet(J \cup {j}) BY FS_AddElement
<1>2. ASSUME NEW c PROVE JobUses(J \cup {j}, c) = JobUses(J, c) + One(j.client, c) /\ JobUses(J, c) \in Nat
  <2> DEFINE A == {k \in J : k.client = c}
             B == {k \in J \cup {j} : k.client = c}
  <2>1. IsFiniteSet(A) /\ j \notin A BY FS_Subset
  <2>2. B = IF j.client = c THEN A \cup {j} ELSE A OBVIOUS
  <2> HIDE DEF A, B
  <2>3. Cardinality(A) \in Nat BY <2>1, FS_CardinalityType
  <2>4. Cardinality(A \cup {j}) = Cardinality(A) + 1 BY <2>1, FS_AddElement
  <2>5. Cardinality(B) = Cardinality(A) + One(j.client, c) BY <2>2, <2>3, <2>4 DEF One
  <2> QED BY <2>3, <2>5 DEF JobUses, A, B
<1> QED BY <1>1, <1>2

LEMMA EndJob ==
  ASSUME NEW J, IsFiniteSet(J), NEW j \in J
  PROVE  /\ IsFiniteSet(J \ {j})
         /\ \A c : /\ JobUses(J, c) = JobUses(J \ {j}, c) + One(j.client, c)
                   /\ JobUses(J, c) \in Nat /\ JobUses(J \ {j}, c) \in Nat
<1> DEFINE K == J \ {j}
<1>1. IsFiniteSet(K) /\ j \notin K /\ K \cup {j} = J BY FS_Difference
<1> HIDE DEF K
<1>2. \A c : JobUses(K \cup {j}, c) = JobUses(K, c) + One(j.client, c) /\ JobUses(K, c) \in Nat
  BY <1>1, AddJob
<1> QED BY <1>1, <1>2, JobUsesType DEF K

LEMMA UsesTypes ==
  ASSUME NEW L \in [Queues -> Seq(Items)], NEW C, NEW J, IsFiniteSet(J), NEW c
  PROVE  /\ ListUses(C, c) \in Nat /\ ItemUses(L, c) \in Nat /\ JobUses(J, c) \in Nat
         /\ AllUses(L, C, J, c) \in Nat
<1>1. ListUses(C, c) \in Nat BY ListUsesType
<1>2. Cardinality(Held(L, OfClient(c))) \in Nat /\ Cardinality(Held(L, OfData(c))) \in Nat
  BY HeldSplit, QueuesFacts, FS_CardinalityType
<1>3. ItemUses(L, c) \in Nat BY <1>2 DEF ItemUses
<1> QED BY <1>1, <1>3, JobUsesType DEF AllUses

(* What is used has a use.                                                 *)
LEMMA Used ==
  ASSUME QInv, RInv, NEW c \in Clients,
         \/ c \in ToSet(clients)
         \/ \E q \in Queues : \E x \in ToSet(list[q]) : x.client = c
         \/ \E j \in jobs : j.client = c
  PROVE  AllUses(list, clients, jobs, c) > 0
<1>1. list \in [Queues -> Seq(Items)] /\ IsFiniteSet(jobs) BY QInvTypes DEF RInv
<1>2. ListUses(clients, c) \in Nat /\ ItemUses(list, c) \in Nat /\ JobUses(jobs, c) \in Nat
  BY <1>1, UsesTypes
<1>3. CASE c \in ToSet(clients)
  <2>1. ListUses(clients, c) = 1 BY <1>3, ListUsesType
  <2> QED BY <1>2, <2>1 DEF AllUses
<1>4. ASSUME NEW q \in Queues, NEW x \in ToSet(list[q]), x.client = c
      PROVE  AllUses(list, clients, jobs, c) > 0
  <2>1. list[q] \in Seq(Items) BY <1>1
  <2>2. x \in OfClient(c) BY <1>4, <2>1, SetOfQueue DEF OfClient
  <2>3. Occurs(list[q], OfClient(c)) \in Nat /\ Occurs(list[q], OfClient(c)) # 0
    BY <1>4, <2>1, <2>2, OccursNone, OccursType
  <2>4. Occurs(list[q], OfData(c)) \in Nat BY <2>1, OccursType
  <2>5. Weight(list[q], c) > 0 BY <2>3, <2>4 DEF Weight
  <2>6. Weight(list[q], c) <= ItemUses(list, c) /\ Weight(list[q], c) \in Nat BY <1>1, <2>1, QueueChange
  <2> QED BY <1>2, <2>5, <2>6 DEF AllUses
<1>5. ASSUME NEW j \in jobs, j.client = c PROVE AllUses(list, clients, jobs, c) > 0
  <2>1. JobUses(jobs, c) = JobUses(jobs \ {j}, c) + One(j.client, c) /\ JobUses(jobs \ {j}, c) \in Nat
    BY <1>1, EndJob
  <2>2. One(j.client, c) = 1 BY <1>5 DEF One
  <2> QED BY <1>2, <2>1, <2>2 DEF AllUses
<1> QED BY <1>3, <1>4, <1>5

(* A step keeps the invariant if what it takes and gives up accounts for   *)
(* the uses that come and go, and it takes references only to clients      *)
(* that are in use.                                                        *)
LEMMA Balance ==
  ASSUME QInv, QInv', RInv, Homed(list'), IsFiniteSet(jobs'), freed' = freed,
         NEW t \in Seq(Clients \cup {None}), NEW d \in Seq(Clients \cup {None}), TakeAndDrop(t, d),
         \A c \in Clients :
            /\ AllUses(list', clients', jobs', c) + leaked'[c] + Count(d, c)
                 = AllUses(list, clients, jobs, c) + leaked[c] + Count(t, c)
            /\ Count(t, c) > 0 => AllUses(list, clients, jobs, c) > 0
  PROVE  RInv'
<1>1. /\ list \in [Queues -> Seq(Items)] /\ list' \in [Queues -> Seq(Items)]
      /\ leaked \in [Clients -> Nat] /\ leaked' \in [Clients -> Nat] /\ freed \subseteq Clients
  BY DEF QInv, Types
<1>2. ASSUME NEW c \in Clients
      PROVE  /\ refs'[c] = AllUses(list', clients', jobs', c) + leaked'[c] /\ refs'[c] \in Nat
             /\ freeing'[c] \in 0 .. 1
             /\ freeing'[c] = 1 \/ c \in freed => refs'[c] = 0
             /\ c \in freed => freeing'[c] = 0
  <2> DEFINE u == AllUses(list, clients, jobs, c)
             v == AllUses(list', clients', jobs', c)
             a == leaked[c]
             b == leaked'[c]
             m == Count(t, c)
             n == Count(d, c)
             r == refs[c]
             f == freeing[c]
  <2>1. u \in Nat /\ v \in Nat BY <1>1, UsesTypes DEF RInv
  <2>2. a \in Nat /\ b \in Nat BY <1>1
  <2>3. m \in Nat /\ n \in Nat BY CountType
  <2>4. v + b + n = u + a + m /\ (m > 0 => u > 0) OBVIOUS
  <2>5. /\ r = u + a /\ f \in 0 .. 1 /\ (f = 1 \/ c \in freed => r = 0) /\ (c \in freed => f = 0)
    BY DEF RInv
  <2>6. refs'[c] = r + m - n BY DEF TakeAndDrop
  <2>7. freeing'[c] = IF n > 0 /\ refs'[c] = 0 THEN f + 1 ELSE f BY DEF TakeAndDrop
  <2> HIDE DEF u, v, a, b, m, n, r, f
  <2>8. refs'[c] = v + b BY <2>1, <2>2, <2>3, <2>4, <2>5, <2>6
  <2>9. refs'[c] \in Nat BY <2>1, <2>2, <2>8
  <2>10. CASE n > 0
    <3>1. r # 0 BY <2>1, <2>2, <2>3, <2>4, <2>5, <2>10
    <3>2. f = 0 /\ c \notin freed BY <2>5, <3>1
    <3>3. freeing'[c] = IF refs'[c] = 0 THEN 1 ELSE 0 BY <2>7, <2>10, <3>2
    <3> QED BY <2>8, <2>9, <3>2, <3>3 DEF v, b
  <2>11. CASE n = 0
    <3>1. freeing'[c] = f BY <2>7, <2>11
    <3>2. r = 0 => refs'[c] = 0 BY <2>1, <2>2, <2>3, <2>4, <2>5, <2>6, <2>11
    <3> QED BY <2>5, <2>8, <2>9, <3>1, <3>2 DEF v, b
  <2> QED BY <2>3, <2>10, <2>11
<1>3. DOMAIN refs' = Clients /\ DOMAIN freeing' = Clients BY DEF TakeAndDrop
<1>4. refs' \in [Clients -> Nat] /\ freeing' \in [Clients -> 0 .. 1]
  <2>1. refs' = [c \in Clients |-> refs'[c]] /\ freeing' = [c \in Clients |-> freeing'[c]]
    BY DEF TakeAndDrop
  <2> QED BY <1>2, <2>1
<1> QED BY <1>1, <1>2, <1>4 DEF RInv, Homed

LEMMA BalanceParts ==
  ASSUME QInv, QInv', RInv, Homed(list'), IsFiniteSet(jobs'), freed' = freed, clients' = clients,
         NEW t \in Seq(Clients \cup {None}), NEW d \in Seq(Clients \cup {None}), TakeAndDrop(t, d),
         \A c \in Clients :
            /\ ItemUses(list', c) + JobUses(jobs', c) + leaked'[c] + Count(d, c)
                 = ItemUses(list, c) + JobUses(jobs, c) + leaked[c] + Count(t, c)
            /\ Count(t, c) > 0 => AllUses(list, clients, jobs, c) > 0
  PROVE  RInv'
<1>1. /\ list \in [Queues -> Seq(Items)] /\ list' \in [Queues -> Seq(Items)]
      /\ leaked \in [Clients -> Nat] /\ leaked' \in [Clients -> Nat]
  BY DEF QInv, Types
<1>2. ASSUME NEW c \in Clients
      PROVE  AllUses(list', clients', jobs', c) + leaked'[c] + Count(d, c)
                 = AllUses(list, clients, jobs, c) + leaked[c] + Count(t, c)
  <2> DEFINE i == ItemUses(list, c)
             i2 == ItemUses(list', c)
             j == JobUses(jobs, c)
             j2 == JobUses(jobs', c)
             a == leaked[c]
             a2 == leaked'[c]
             k == ListUses(clients, c)
             m == Count(t, c)
             n == Count(d, c)
  <2>1. i \in Nat /\ i2 \in Nat /\ j \in Nat /\ j2 \in Nat /\ k \in Nat BY <1>1, UsesTypes DEF RInv
  <2>2. a \in Nat /\ a2 \in Nat BY <1>1
  <2>3. m \in Nat /\ n \in Nat BY CountType
  <2>4. i2 + j2 + a2 + n = i + j + a + m OBVIOUS
  <2>5. AllUses(list', clients', jobs', c) = k + i2 + j2 /\ AllUses(list, clients, jobs, c) = k + i + j
    BY DEF AllUses
  <2> HIDE DEF i, i2, j, j2, a, a2, k, m, n
  <2>6. (k + i2 + j2) + a2 + n = (k + i + j) + a + m BY <2>1, <2>2, <2>3, <2>4
  <2> QED BY <2>5, <2>6 DEF a, a2, m, n
<1> QED BY <1>2, Balance

LEMMA NoneOne ==
  ASSUME NEW c \in Clients, NEW x
  PROVE  One(None, c) = 0 /\ One(x, c) \in Nat /\ (One(x, c) > 0 <=> x = c)
BY Distinct DEF One

(* The head of the queue that runs, and the client it may have.            *)
LEMMA HeadHome ==
  ASSUME QInv, RInv, NEW q \in Queues, list[q] # <<>>
  PROVE  /\ Head(list[q]) \in Kept(q) /\ Head(list[q]) \in Items /\ Head(list[q]) \in ToSet(list[q])
         /\ Tail(list[q]) \in Seq(Kept(q)) /\ Head(list[q]).client \in Clients \cup {None}
<1>1. list[q] \in Seq(Kept(q)) BY DEF RInv, Homed
<1>2. Head(list[q]) \in Kept(q) /\ Tail(list[q]) \in Seq(Kept(q)) BY <1>1, HeadTailProperties
<1>3. Head(list[q]) \in ToSet(list[q]) BY <1>1, TailSet
<1>4. Head(list[q]) \in Items BY <1>2, KeptItems
<1> QED BY <1>2, <1>3, <1>4 DEF Items

LEMMA LentHome ==
  ASSUME QInv, RInv, NEW q \in Queues, list[q] # <<>>,
         NEW l \in Lent(Head(list[q])) \cup {Head(list[q]).client}
  PROVE  /\ l \in Clients \cup {None} /\ (q \in Clients => l = q)
         /\ \A c \in Clients : c = l => AllUses(list, clients, jobs, c) > 0
<1> DEFINE h == Head(list[q])
<1>1. h \in Kept(q) /\ h \in Items /\ h \in ToSet(list[q]) BY HeadHome
<1> HIDE DEF h
<1>2. l = h.client \/ (h.client = None /\ l \in ToSet(clients) \cup {None}) BY DEF Lent, h
<1>3. ToSet(clients) \subseteq Clients BY SetOfQueue DEF QInv, Types
<1>4. l \in Clients \cup {None} BY <1>1, <1>2, <1>3 DEF Items
<1>5. q \in Clients => l = q BY <1>1, <1>2, Distinct DEF Kept
<1>6. ASSUME NEW c \in Clients, c = l PROVE AllUses(list, clients, jobs, c) > 0
  <2>1. c \in ToSet(clients) \/ \E x \in ToSet(list[q]) : x.client = c BY <1>1, <1>2, <1>6, Distinct
  <2> QED BY <2>1, Used
<1> QED BY <1>4, <1>5, <1>6

-----------------------------------------------------------------------------
(* Steps by what comes into the queues and what goes from them. *)

Changes(L, M, come, go) ==
    /\ M \in [Queues -> Seq(Items)] /\ Homed(M) /\ come \in Seq(Items) /\ go \in Seq(Items)
    /\ \A c \in Clients : /\ ItemUses(M, c) + Weight(go, c) = ItemUses(L, c) + Weight(come, c)
                          /\ ItemUses(M, c) \in Nat /\ ItemUses(L, c) \in Nat
                          /\ Weight(go, c) \in Nat /\ Weight(come, c) \in Nat

LEMMA WeightType ==
  ASSUME NEW s \in Seq(Items), NEW c
  PROVE  Weight(s, c) \in Nat
<1>1. Occurs(s, OfClient(c)) \in Nat /\ Occurs(s, OfData(c)) \in Nat BY OccursType
<1> QED BY <1>1 DEF Weight

LEMMA NoChange ==
  ASSUME NEW L \in [Queues -> Seq(Items)], Homed(L)
  PROVE  Changes(L, L, <<>>, <<>>)
<1>1. <<>> \in Seq(Items) OBVIOUS
<1>2. \A c : ItemUses(L, c) \in Nat
  <2> TAKE c
  <2>1. IsFiniteSet({}) BY FS_EmptySet
  <2> QED BY <2>1, UsesTypes
<1>3. \A c : Weight(<<>>, c) = 0 BY WeightEmpty
<1> QED BY <1>1, <1>2, <1>3 DEF Changes

LEMMA BackChange ==
  ASSUME NEW L \in [Queues -> Seq(Items)], Homed(L), NEW q \in Queues, NEW new, NEW l, NewItems(new, q, l)
  PROVE  Changes(L, [L EXCEPT ![q] = @ \o new], new, <<>>)
<1> DEFINE M == [L EXCEPT ![q] = @ \o new]
<1>1. /\ M \in [Queues -> Seq(Items)] /\ Homed(M)
      /\ \A c : /\ ItemUses(M, c) = ItemUses(L, c) + Weight(new, c)
                /\ ItemUses(L, c) \in Nat /\ Weight(new, c) \in Nat
  BY BackUses
<1>2. new \in Seq(Items) /\ <<>> \in Seq(Items) BY DEF NewItems
<1>3. \A c : Weight(<<>>, c) = 0 BY WeightEmpty
<1> HIDE DEF M
<1>4. Changes(L, M, new, <<>>) BY <1>1, <1>2, <1>3 DEF Changes
<1> QED BY <1>4 DEF M

LEMMA AppendChange ==
  ASSUME NEW L \in [Queues -> Seq(Items)], Homed(L), NEW q \in Queues, NEW x \in Kept(q)
  PROVE  Changes(L, [L EXCEPT ![q] = Append(@, x)], <<x>>, <<>>)
<1> DEFINE M == [L EXCEPT ![q] = Append(@, x)]
<1>1. /\ M \in [Queues -> Seq(Items)] /\ Homed(M)
      /\ \A c : /\ ItemUses(M, c) = ItemUses(L, c) + One(x.client, c) + One(x.data, c)
                /\ ItemUses(L, c) \in Nat
  BY AppendUses
<1>2. x \in Items /\ <<x>> \in Seq(Items) /\ <<>> \in Seq(Items) BY KeptItems
<1>3. \A c : Weight(<<>>, c) = 0 /\ Weight(<<x>>, c) = One(x.client, c) + One(x.data, c)
  BY <1>2, WeightEmpty, WeightOne
<1>4. \A c : One(x.client, c) \in Nat /\ One(x.data, c) \in Nat BY DEF One
<1> HIDE DEF M
<1>5. Changes(L, M, <<x>>, <<>>) BY <1>1, <1>2, <1>3, <1>4 DEF Changes
<1> QED BY <1>5 DEF M

LEMMA HeadChange ==
  ASSUME NEW L \in [Queues -> Seq(Items)], Homed(L), NEW q \in Queues, L[q] # <<>>, NEW new \in Seq(Kept(q))
  PROVE  Changes(L, [L EXCEPT ![q] = new \o Tail(@)], new, <<Head(L[q])>>)
<1> DEFINE M == [L EXCEPT ![q] = new \o Tail(L[q])]
           h == Head(L[q])
<1>1. /\ M \in [Queues -> Seq(Items)] /\ Homed(M)
      /\ \A c : /\ ItemUses(M, c) + (One(h.client, c) + One(h.data, c)) = ItemUses(L, c) + Weight(new, c)
                /\ ItemUses(M, c) \in Nat /\ ItemUses(L, c) \in Nat /\ Weight(new, c) \in Nat
  BY HeadUses
<1>2. new \in Seq(Items) /\ L[q] \in Seq(Items) BY KeptItems
<1>3. h \in Items /\ <<h>> \in Seq(Items) BY <1>2, HeadTailProperties
<1> HIDE DEF M, h
<1>4. \A c : Weight(<<h>>, c) = One(h.client, c) + One(h.data, c) BY <1>3, WeightOne
<1>5. \A c : One(h.client, c) \in Nat /\ One(h.data, c) \in Nat BY DEF One
<1>6. Changes(L, M, new, <<h>>) BY <1>1, <1>2, <1>3, <1>4, <1>5 DEF Changes
<1> QED BY <1>6 DEF M, h

LEMMA TailChange ==
  ASSUME NEW L \in [Queues -> Seq(Items)], Homed(L), NEW q \in Queues, L[q] # <<>>
  PROVE  Changes(L, [L EXCEPT ![q] = Tail(@)], <<>>, <<Head(L[q])>>)
<1> DEFINE none == <<>>
<1>1. none \in Seq(Kept(q)) OBVIOUS
<1>2. Tail(L[q]) \in Seq(Items) BY HeadTailProperties
<1>3. none \o Tail(L[q]) = Tail(L[q]) BY <1>2, ConcatEmptySeq
<1> HIDE DEF none
<1>4. Changes(L, [L EXCEPT ![q] = none \o Tail(@)], none, <<Head(L[q])>>) BY <1>1, HeadChange
<1> QED BY <1>3, <1>4 DEF none

LEMMA ChangeTwice ==
  ASSUME NEW L, NEW M, NEW N, NEW come, NEW go, NEW come2, NEW go2,
         Changes(L, M, come, go), Changes(M, N, come2, go2)
  PROVE  Changes(L, N, come \o come2, go \o go2)
<1>1. /\ come \in Seq(Items) /\ go \in Seq(Items) /\ come2 \in Seq(Items) /\ go2 \in Seq(Items)
      /\ N \in [Queues -> Seq(Items)] /\ Homed(N)
  BY DEF Changes
<1>2. come \o come2 \in Seq(Items) /\ go \o go2 \in Seq(Items) BY <1>1, ConcatProperties
<1>3. ASSUME NEW c \in Clients
      PROVE  /\ ItemUses(N, c) + Weight(go \o go2, c) = ItemUses(L, c) + Weight(come \o come2, c)
             /\ ItemUses(N, c) \in Nat /\ ItemUses(L, c) \in Nat
             /\ Weight(go \o go2, c) \in Nat /\ Weight(come \o come2, c) \in Nat
  <2> DEFINE i == ItemUses(L, c)
             m == ItemUses(M, c)
             n == ItemUses(N, c)
             a == Weight(come, c)
             b == Weight(come2, c)
             x == Weight(go, c)
             y == Weight(go2, c)
  <2>1. Weight(go \o go2, c) = x + y BY <1>1, WeightConcat
  <2>2. Weight(come \o come2, c) = a + b BY <1>1, WeightConcat
  <2>3. /\ m + x = i + a /\ n + y = m + b
        /\ i \in Nat /\ m \in Nat /\ n \in Nat /\ a \in Nat /\ b \in Nat /\ x \in Nat /\ y \in Nat
    BY DEF Changes
  <2> HIDE DEF i, m, n, a, b, x, y
  <2>4. n + (x + y) = i + (a + b) /\ x + y \in Nat /\ a + b \in Nat BY <2>3
  <2> QED BY <2>1, <2>2, <2>3, <2>4 DEF i, n
<1> QED BY <1>1, <1>2, <1>3 DEF Changes

(* The jobs that end and start, what leaks, and the references taken (t)   *)
(* and given up (d) account for what comes and goes.                       *)
Accounted(t, d, come, go) ==
    \A c \in Clients : \E g, k, e \in Nat :
        /\ JobUses(jobs', c) + g = JobUses(jobs, c) + k
        /\ leaked'[c] = leaked[c] + e
        /\ Count(t, c) + Weight(go, c) + g = Weight(come, c) + k + e + Count(d, c)
        /\ Count(t, c) > 0 => AllUses(list, clients, jobs, c) > 0

LEMMA Accounts ==
  ASSUME QInv, QInv', RInv, NEW come, NEW go, Changes(list, list', come, go), IsFiniteSet(jobs'),
         freed' = freed, clients' = clients,
         NEW t \in Seq(Clients \cup {None}), NEW d \in Seq(Clients \cup {None}), TakeAndDrop(t, d),
         Accounted(t, d, come, go)
  PROVE  RInv'
<1>1. /\ Homed(list') /\ leaked \in [Clients -> Nat] /\ leaked' \in [Clients -> Nat] /\ IsFiniteSet(jobs)
  BY DEF QInv, Types, RInv, Changes
<1>2. ASSUME NEW c \in Clients
      PROVE  ItemUses(list', c) + JobUses(jobs', c) + leaked'[c] + Count(d, c)
                 = ItemUses(list, c) + JobUses(jobs, c) + leaked[c] + Count(t, c)
  <2> DEFINE i == ItemUses(list, c)
             i2 == ItemUses(list', c)
             x == Weight(go, c)
             n == Weight(come, c)
             j == JobUses(jobs, c)
             j2 == JobUses(jobs', c)
             a == leaked[c]
             a2 == leaked'[c]
             y == Count(d, c)
             m == Count(t, c)
  <2>1. i2 + x = i + n /\ i2 \in Nat /\ i \in Nat /\ x \in Nat /\ n \in Nat BY DEF Changes
  <2>2. j \in Nat /\ j2 \in Nat BY <1>1, JobUsesType
  <2>3. a \in Nat /\ a2 \in Nat BY <1>1
  <2>4. y \in Nat /\ m \in Nat BY CountType
  <2>5. PICK g, k, e \in Nat : j2 + g = j + k /\ a2 = a + e /\ m + x + g = n + k + e + y
    BY DEF Accounted
  <2> HIDE DEF i, i2, x, n, j, j2, a, a2, y, m
  <2>6. i2 + j2 + a2 + y = i + j + a + m BY <2>1, <2>2, <2>3, <2>4, <2>5
  <2> QED BY <2>6 DEF i, i2, j, j2, a, a2, y, m
<1>3. \A c \in Clients : Count(t, c) > 0 => AllUses(list, clients, jobs, c) > 0 BY DEF Accounted
<1> QED BY <1>1, <1>2, <1>3, BalanceParts

-----------------------------------------------------------------------------
(* Steps that leak nothing, by what they do to the jobs. *)

Even(t, d, come, go) ==
    \A c \in Clients : /\ Count(t, c) + Weight(go, c) = Weight(come, c) + Count(d, c)
                       /\ Count(t, c) > 0 => AllUses(list, clients, jobs, c) > 0
EvenAndNew(t, d, come, go, owner) ==
    \A c \in Clients : /\ Count(t, c) + Weight(go, c) = Weight(come, c) + One(owner, c) + Count(d, c)
                       /\ Count(t, c) > 0 => AllUses(list, clients, jobs, c) > 0
EvenAndOver(t, d, come, go, owner) ==
    \A c \in Clients : /\ Count(t, c) + Weight(go, c) + One(owner, c) = Weight(come, c) + Count(d, c)
                       /\ Count(t, c) > 0 => AllUses(list, clients, jobs, c) > 0

LEMMA JobsStay ==
  ASSUME QInv, QInv', RInv, NEW come, NEW go, Changes(list, list', come, go),
         UNCHANGED <<clients, freed, leaked, jobs>>,
         NEW t \in Seq(Clients \cup {None}), NEW d \in Seq(Clients \cup {None}), TakeAndDrop(t, d),
         Even(t, d, come, go)
  PROVE  RInv'
<1>1. leaked \in [Clients -> Nat] /\ IsFiniteSet(jobs) BY DEF QInv, Types, RInv
<1>2. ASSUME NEW c \in Clients
      PROVE  \E g, k, e \in Nat :
                /\ JobUses(jobs', c) + g = JobUses(jobs, c) + k
                /\ leaked'[c] = leaked[c] + e
                /\ Count(t, c) + Weight(go, c) + g = Weight(come, c) + k + e + Count(d, c)
                /\ Count(t, c) > 0 => AllUses(list, clients, jobs, c) > 0
  <2> DEFINE m == Count(t, c)
             y == Count(d, c)
             n == Weight(come, c)
             x == Weight(go, c)
  <2>1. m + x = n + y /\ (m > 0 => AllUses(list, clients, jobs, c) > 0) BY DEF Even
  <2>2. m \in Nat /\ y \in Nat BY CountType
  <2>3. n \in Nat /\ x \in Nat BY DEF Changes
  <2>4. leaked'[c] = leaked[c] + 0 BY <1>1
  <2>5. JobUses(jobs', c) + 0 = JobUses(jobs, c) + 0 OBVIOUS
  <2> HIDE DEF m, y, n, x
  <2>6. m + x + 0 = n + 0 + 0 + y BY <2>1, <2>2, <2>3
  <2> WITNESS 0 \in Nat, 0 \in Nat, 0 \in Nat
  <2> QED BY <2>1, <2>4, <2>5, <2>6 DEF m, y, n, x
<1>3. Accounted(t, d, come, go) BY <1>2, Zenon DEF Accounted
<1>4. IsFiniteSet(jobs') BY <1>1
<1> QED BY <1>3, <1>4, Accounts

LEMMA JobStarts ==
  ASSUME QInv, QInv', RInv, NEW come, NEW go, Changes(list, list', come, go),
         UNCHANGED <<clients, freed, leaked>>, NEW j, j \notin jobs, jobs' = jobs \cup {j},
         NEW t \in Seq(Clients \cup {None}), NEW d \in Seq(Clients \cup {None}), TakeAndDrop(t, d),
         EvenAndNew(t, d, come, go, j.client)
  PROVE  RInv'
<1>1. leaked \in [Clients -> Nat] /\ IsFiniteSet(jobs) BY DEF QInv, Types, RInv
<1>2. /\ IsFiniteSet(jobs \cup {j})
      /\ \A c : JobUses(jobs \cup {j}, c) = JobUses(jobs, c) + One(j.client, c) /\ JobUses(jobs, c) \in Nat
  BY <1>1, AddJob
<1>3. ASSUME NEW c \in Clients
      PROVE  \E g, k, e \in Nat :
                /\ JobUses(jobs', c) + g = JobUses(jobs, c) + k
                /\ leaked'[c] = leaked[c] + e
                /\ Count(t, c) + Weight(go, c) + g = Weight(come, c) + k + e + Count(d, c)
                /\ Count(t, c) > 0 => AllUses(list, clients, jobs, c) > 0
  <2> DEFINE m == Count(t, c)
             y == Count(d, c)
             n == Weight(come, c)
             x == Weight(go, c)
             o == One(j.client, c)
             u == JobUses(jobs, c)
  <2>1. m + x = n + o + y /\ (m > 0 => AllUses(list, clients, jobs, c) > 0) BY DEF EvenAndNew
  <2>2. m \in Nat /\ y \in Nat BY CountType
  <2>3. n \in Nat /\ x \in Nat BY DEF Changes
  <2>4. leaked'[c] = leaked[c] + 0 BY <1>1
  <2> o \in Nat BY NoneOne
  <2>5. JobUses(jobs', c) = u + o /\ u \in Nat BY <1>2
  <2> HIDE DEF m, y, n, x, o, u
  <2>6. m + x + 0 = n + o + 0 + y BY <2>1, <2>2, <2>3
  <2>7. JobUses(jobs', c) + 0 = u + o BY <2>5
  <2> WITNESS 0 \in Nat, o \in Nat, 0 \in Nat
  <2> QED BY <2>1, <2>4, <2>6, <2>7 DEF m, y, n, x, u
<1>4. Accounted(t, d, come, go) BY <1>3, Zenon DEF Accounted
<1>5. IsFiniteSet(jobs') BY <1>2
<1> QED BY <1>4, <1>5, Accounts

LEMMA JobEnds ==
  ASSUME QInv, QInv', RInv, NEW come, NEW go, Changes(list, list', come, go),
         UNCHANGED <<clients, freed, leaked>>, NEW j \in jobs, jobs' = jobs \ {j},
         NEW t \in Seq(Clients \cup {None}), NEW d \in Seq(Clients \cup {None}), TakeAndDrop(t, d),
         EvenAndOver(t, d, come, go, j.client)
  PROVE  RInv'
<1>1. leaked \in [Clients -> Nat] /\ IsFiniteSet(jobs) BY DEF QInv, Types, RInv
<1>2. /\ IsFiniteSet(jobs \ {j})
      /\ \A c : JobUses(jobs, c) = JobUses(jobs \ {j}, c) + One(j.client, c) /\ JobUses(jobs \ {j}, c) \in Nat
  BY <1>1, EndJob
<1>3. ASSUME NEW c \in Clients
      PROVE  \E g, k, e \in Nat :
                /\ JobUses(jobs', c) + g = JobUses(jobs, c) + k
                /\ leaked'[c] = leaked[c] + e
                /\ Count(t, c) + Weight(go, c) + g = Weight(come, c) + k + e + Count(d, c)
                /\ Count(t, c) > 0 => AllUses(list, clients, jobs, c) > 0
  <2> DEFINE m == Count(t, c)
             y == Count(d, c)
             n == Weight(come, c)
             x == Weight(go, c)
             o == One(j.client, c)
             u == JobUses(jobs', c)
  <2>1. m + x + o = n + y /\ (m > 0 => AllUses(list, clients, jobs, c) > 0) BY DEF EvenAndOver
  <2>2. m \in Nat /\ y \in Nat BY CountType
  <2>3. n \in Nat /\ x \in Nat BY DEF Changes
  <2>4. leaked'[c] = leaked[c] + 0 BY <1>1
  <2> o \in Nat BY NoneOne
  <2>5. JobUses(jobs, c) = u + o /\ u \in Nat BY <1>2
  <2> HIDE DEF m, y, n, x, o, u
  <2>6. m + x + o = n + 0 + 0 + y BY <2>1, <2>2, <2>3
  <2>7. u + o = JobUses(jobs, c) + 0 BY <2>5
  <2> WITNESS o \in Nat, 0 \in Nat, 0 \in Nat
  <2> QED BY <2>1, <2>4, <2>6, <2>7 DEF m, y, n, x, u
<1>4. Accounted(t, d, come, go) BY <1>3, Zenon DEF Accounted
<1>5. IsFiniteSet(jobs') BY <1>2
<1> QED BY <1>4, <1>5, Accounts

LEMMA NoTake ==
  ASSUME RInv, UNCHANGED <<refs, freeing>>
  PROVE  TakeAndDrop(<<>>, <<>>) /\ <<>> \in Seq(Clients \cup {None})
<1>1. \A c : Count(<<>>, c) = 0 BY CountEmpty
<1>2. refs \in [Clients -> Nat] /\ freeing \in [Clients -> 0 .. 1] BY DEF RInv
<1>3. refs = [c \in Clients |-> refs[c] + Count(<<>>, c) - Count(<<>>, c)] BY <1>1, <1>2
<1>4. freeing = [c \in Clients |-> IF Count(<<>>, c) > 0 /\ refs'[c] = 0 THEN freeing[c] + 1 ELSE freeing[c]]
  BY <1>1, <1>2
<1> QED BY <1>3, <1>4 DEF TakeAndDrop

(* The head is replaced by items for a client in use.                      *)
LEMMA FrontKeeps ==
  ASSUME QInv, QInv', RInv, NEW q \in Queues, list[q] # <<>>, NEW new, NEW l, NewItems(new, q, l),
         \A c \in Clients : c = l => AllUses(list, clients, jobs, c) > 0,
         list' = [list EXCEPT ![q] = new \o Tail(list[q])],
         UNCHANGED <<clients, jobs, leaked, freed>>,
         NEW d \in Seq(Clients \cup {None}), TakeAndDrop(ClientsOf(new), d),
         \A c \in Clients : Count(d, c) = One(Head(list[q]).client, c) + One(Head(list[q]).data, c)
  PROVE  RInv'
<1> DEFINE h == Head(list[q])
<1>1. list \in [Queues -> Seq(Items)] /\ Homed(list) BY DEF QInv, Types, RInv
<1>2. /\ new \in Seq(Kept(q)) /\ ClientsOf(new) \in Seq(Clients \cup {None})
      /\ \A c \in Clients : /\ Count(ClientsOf(new), c) = Weight(new, c) /\ Weight(new, c) \in Nat
                            /\ Weight(new, c) > 0 => c = l
  BY DEF NewItems
<1>3. Changes(list, list', new, <<h>>) BY <1>1, <1>2, HeadChange
<1>4. h \in Items BY HeadHome
<1> HIDE DEF h
<1>5. \A c \in Clients : Weight(<<h>>, c) = Count(d, c) /\ Count(d, c) \in Nat
  BY <1>4, WeightOne, CountType DEF h
<1>6. Even(ClientsOf(new), d, new, <<h>>) BY <1>2, <1>5 DEF Even
<1> QED BY <1>2, <1>3, <1>6, JobsStay

(* What a command gives up: its client.                                    *)
LEMMA HeadDrops ==
  ASSUME QInv, RInv, NEW q \in Queues, list[q] # <<>>
  PROVE  LET h == Head(list[q])
         IN /\ <<h.client>> \in Seq(Clients \cup {None}) /\ <<h.data, h.client>> \in Seq(Clients \cup {None})
            /\ \A c \in Clients : /\ Count(<<h.data, h.client>>, c) = One(h.client, c) + One(h.data, c)
                                  /\ Count(<<h.client>>, c) = One(h.client, c)
                                  /\ h.what # "notify" =>
                                        Count(<<h.client>>, c) = One(h.client, c) + One(h.data, c)
<1> DEFINE h == Head(list[q])
           T == Clients \cup {None}
<1>1. h \in Kept(q) /\ h \in Items BY HeadHome
<1>2. h.client \in T /\ h.data \in T BY <1>1 DEF Items
<1>3. h.what # "notify" => h.data = None BY <1>1 DEF Kept
<1> HIDE DEF h
<1>4. <<h.client>> \in Seq(T) /\ <<h.data>> \in Seq(T) /\ <<h.data, h.client>> \in Seq(T) BY <1>2
<1>5. <<h.data, h.client>> = <<h.data>> \o <<h.client>> BY <1>4
<1> HIDE DEF T
<1>6. ASSUME NEW c \in Clients
      PROVE /\ Count(<<h.data, h.client>>, c) = One(h.client, c) + One(h.data, c)
            /\ Count(<<h.client>>, c) = One(h.client, c)
            /\ h.what # "notify" => Count(<<h.client>>, c) = One(h.client, c) + One(h.data, c)
  <2>1. ASSUME NEW s \in Seq(T), NEW t \in Seq(T) PROVE Count(s \o t, c) = Count(s, c) + Count(t, c)
    BY CountConcat
  <2>2. Count(<<h.data>> \o <<h.client>>, c) = Count(<<h.data>>, c) + Count(<<h.client>>, c) BY <1>4, <2>1
  <2>3. Count(<<h.data>>, c) = One(h.data, c) /\ Count(<<h.client>>, c) = One(h.client, c) BY CountOne
  <2>4. One(h.data, c) \in Nat /\ One(h.client, c) \in Nat BY NoneOne
  <2>5. Count(<<h.data, h.client>>, c) = One(h.data, c) + One(h.client, c) BY <1>5, <2>2, <2>3, Zenon
  <2>7. One(h.data, c) + One(h.client, c) = One(h.client, c) + One(h.data, c) BY <2>4
  <2>6. h.what # "notify" => One(h.client, c) = One(h.client, c) + One(h.data, c) BY <1>3, <2>4, NoneOne
  <2> QED BY <2>3, <2>5, <2>6, <2>7
<1> QED BY <1>4, <1>6 DEF h, T

-----------------------------------------------------------------------------
(* Commands and other items that run. *)

LEMMA RefsNormal ==
  ASSUME QInv, QInv', RInv, cur # None, Runnable(cur), NEW l \in Lent(Head(list[cur])), NEW set \in BOOLEAN,
         CommandNormal(l, set)
  PROVE  RInv'
<1> DEFINE item == Head(list[cur])
           hook == Hook(item, set, lists + 1, l)
<1>1. cur \in Queues /\ list[cur] # <<>> BY RunFacts
<1>2. /\ l \in Clients \cup {None} /\ (cur \in Clients => l = cur)
      /\ \A c \in Clients : c = l => AllUses(list, clients, jobs, c) > 0
  BY <1>1, LentHome
<1>3. item.what = "command" BY DEF CommandNormal, Firing
<1>4. /\ <<item.client>> \in Seq(Clients \cup {None})
      /\ \A c \in Clients : Count(<<item.client>>, c) = One(item.client, c) + One(item.data, c)
  BY <1>1, <1>3, HeadDrops
<1>5. lists + 1 \in Nat BY QInvTypes
<1>6. NewItems(hook, cur, l) BY <1>2, <1>5, HookIsNew
<1>7. /\ list' = [list EXCEPT ![cur] = hook \o Tail(list[cur])]
      /\ TakeAndDrop(ClientsOf(hook), <<item.client>>)
      /\ UNCHANGED <<clients, jobs, leaked, freed>>
  BY DEF CommandNormal, Goes
<1> HIDE DEF hook
<1> QED BY <1>1, <1>2, <1>4, <1>6, <1>7, FrontKeeps

LEMMA RefsInsert ==
  ASSUME QInv, QInv', RInv, cur # None, Runnable(cur), NEW l \in Lent(Head(list[cur])), CommandInsert(l)
  PROVE  RInv'
<1> DEFINE item == Head(list[cur])
           new == cmdq_get_command(2, lists + 1, lists + 1, item.nohooks, l)
<1>1. cur \in Queues /\ list[cur] # <<>> BY RunFacts
<1>2. /\ l \in Clients \cup {None} /\ (cur \in Clients => l = cur)
      /\ \A c \in Clients : c = l => AllUses(list, clients, jobs, c) > 0
  BY <1>1, LentHome
<1>3. item.what = "command" BY DEF CommandInsert, Firing
<1>4. /\ <<item.client>> \in Seq(Clients \cup {None})
      /\ \A c \in Clients : Count(<<item.client>>, c) = One(item.client, c) + One(item.data, c)
  BY <1>1, <1>3, HeadDrops
<1>5. lists + 1 \in Nat BY QInvTypes
<1>6. item.nohooks \in BOOLEAN BY <1>1, HeadHome DEF Items
<1>7. NewItems(new, cur, l) BY <1>2, <1>5, <1>6, CommandsAreNew
<1>8. /\ list' = [list EXCEPT ![cur] = new \o Tail(list[cur])]
      /\ TakeAndDrop(ClientsOf(new), <<item.client>>)
      /\ UNCHANGED <<clients, jobs, leaked, freed>>
  BY DEF CommandInsert, Goes
<1> HIDE DEF new
<1> QED BY <1>1, <1>2, <1>4, <1>7, <1>8, FrontKeeps

LEMMA RefsNotifyCallback ==
  ASSUME QInv, QInv', RInv, cur # None, Runnable(cur), NEW set \in BOOLEAN, notify_callback(set)
  PROVE  RInv'
<1> DEFINE item == Head(list[cur])
           l == item.client
           hook == Hook(item, set, lists + 1, l)
<1>1. cur \in Queues /\ list[cur] # <<>> BY RunFacts
<1>2. /\ l \in Clients \cup {None} /\ (cur \in Clients => l = cur)
      /\ \A c \in Clients : c = l => AllUses(list, clients, jobs, c) > 0
  BY <1>1, LentHome
<1>3. /\ <<item.data, item.client>> \in Seq(Clients \cup {None})
      /\ \A c \in Clients : Count(<<item.data, item.client>>, c) = One(item.client, c) + One(item.data, c)
  BY <1>1, HeadDrops
<1>4. lists + 1 \in Nat BY QInvTypes
<1>5. NewItems(hook, cur, l) BY <1>2, <1>4, HookIsNew
<1>6. /\ list' = [list EXCEPT ![cur] = hook \o Tail(list[cur])]
      /\ TakeAndDrop(ClientsOf(hook), <<item.data, item.client>>)
      /\ UNCHANGED <<clients, jobs, leaked, freed>>
  BY DEF notify_callback, Goes
<1> HIDE DEF hook
<1> QED BY <1>1, <1>2, <1>3, <1>5, <1>6, FrontKeeps

LEMMA RefsKeyCallback ==
  ASSUME QInv, QInv', RInv, cur # None, Runnable(cur), NEW bound \in BOOLEAN, server_client_key_callback(bound)
  PROVE  RInv'
<1> DEFINE item == Head(list[cur])
           l == item.client
           new == IF bound THEN cmdq_get_command(2, lists + 1, KeyGroup, FALSE, l) ELSE <<>>
<1>1. cur \in Queues /\ list[cur] # <<>> BY RunFacts
<1>2. /\ l \in Clients \cup {None} /\ (cur \in Clients => l = cur)
      /\ \A c \in Clients : c = l => AllUses(list, clients, jobs, c) > 0
  BY <1>1, LentHome
<1>3. item.what = "key" BY DEF server_client_key_callback, Firing
<1>4. /\ <<item.client>> \in Seq(Clients \cup {None})
      /\ \A c \in Clients : Count(<<item.client>>, c) = One(item.client, c) + One(item.data, c)
  BY <1>1, <1>3, HeadDrops
<1>5. lists + 1 \in Nat /\ KeyGroup \in Nat BY QInvTypes, BoundsNat DEF KeyGroup
<1>6. NewItems(cmdq_get_command(2, lists + 1, KeyGroup, FALSE, l), cur, l) BY <1>2, <1>5, CommandsAreNew
<1>7. NewItems(new, cur, l) BY <1>6, NoNewItems
<1>8. /\ list' = [list EXCEPT ![cur] = new \o Tail(list[cur])]
      /\ TakeAndDrop(ClientsOf(new), <<item.client>>)
      /\ UNCHANGED <<clients, jobs, leaked, freed>>
  BY DEF server_client_key_callback, Goes
<1> HIDE DEF new
<1> QED BY <1>1, <1>2, <1>4, <1>7, <1>8, FrontKeeps

(* The head goes and nothing comes.                                        *)
LEMMA TailKeeps ==
  ASSUME QInv, QInv', RInv, NEW q \in Queues, list[q] # <<>>, Head(list[q]).what # "notify",
         list' = [list EXCEPT ![q] = Tail(list[q])], UNCHANGED <<clients, jobs, leaked, freed>>,
         TakeAndDrop(<<>>, <<Head(list[q]).client>>)
  PROVE  RInv'
<1> DEFINE item == Head(list[q])
<1>1. /\ <<item.client>> \in Seq(Clients \cup {None})
      /\ \A c \in Clients : Count(<<item.client>>, c) = One(item.client, c) + One(item.data, c)
  BY HeadDrops
<1>2. NewItems(<<>>, q, None) /\ \A c \in Clients : c # None BY NoNewItems, Distinct
<1>3. Tail(list[q]) \in Seq(Items) BY HeadHome, KeptItems
<1>4. <<>> \o Tail(list[q]) = Tail(list[q]) BY <1>3, ConcatEmptySeq
<1>5. ClientsOf(<<>>) = <<>> BY DEF ClientsOf
<1>6. list' = [list EXCEPT ![q] = <<>> \o Tail(list[q])] /\ TakeAndDrop(ClientsOf(<<>>), <<item.client>>)
  BY <1>4, <1>5
<1> QED BY <1>1, <1>2, <1>6, FrontKeeps

LEMMA RefsDone ==
  ASSUME QInv, QInv', RInv, cur # None, Runnable(cur), server_client_command_done
  PROVE  RInv'
<1>1. cur \in Queues /\ list[cur] # <<>> BY RunFacts
<1>2. Head(list[cur]).what = "done" BY DEF server_client_command_done, Firing
<1> QED BY <1>1, <1>2, TailKeeps DEF server_client_command_done, Goes

LEMMA RefsFired ==
  ASSUME QInv, QInv', RInv, RemoveFired
  PROVE  RInv'
<1>1. cur # None /\ Runnable(cur) /\ Head(list[cur]).fired BY DEF RemoveFired
<1>2. cur \in Queues /\ list[cur] # <<>> BY <1>1, RunFacts
<1>3. Head(list[cur]).what # "notify" BY <1>1, <1>2, HeadHome DEF Kept
<1> QED BY <1>2, <1>3, TailKeeps DEF RemoveFired

(* What a command that is done gives up: its own use of its client.        *)
LEMMA GoneHead ==
  ASSUME QInv, RInv, NEW q \in Queues, list[q] # <<>>
  PROVE  /\ list \in [Queues -> Seq(Items)] /\ Homed(list) /\ IsFiniteSet(jobs)
         /\ <<Head(list[q]).client>> \in Seq(Clients \cup {None})
         /\ \A c \in Clients : /\ Count(<<Head(list[q]).client>>, c) = One(Head(list[q]).client, c)
                               /\ Head(list[q]).what # "notify" =>
                                     Weight(<<Head(list[q])>>, c) = One(Head(list[q]).client, c)
<1> DEFINE h == Head(list[q])
<1>1. h \in Items /\ h \in Kept(q) BY HeadHome
<1>2. \A c \in Clients : Weight(<<h>>, c) = One(h.client, c) + One(h.data, c) BY <1>1, WeightOne
<1>3. \A c \in Clients : One(None, c) = 0 /\ One(h.client, c) \in Nat BY NoneOne
<1>4. h.what # "notify" => h.data = None BY <1>1 DEF Kept
<1>5. \A c \in Clients : h.what # "notify" => Weight(<<h>>, c) = One(h.client, c) BY <1>2, <1>3, <1>4
<1>6. \A c \in Clients : Count(<<h.client>>, c) = One(h.client, c) BY CountOne
<1>7. <<h.client>> \in Seq(Clients \cup {None}) BY HeadHome
<1> QED BY <1>5, <1>6, <1>7 DEF QInv, Types, RInv

LEMMA RefsBackground ==
  ASSUME QInv, QInv', RInv, cur # None, Runnable(cur), NEW tc \in ToSet(clients) \cup {None},
         CommandBackground(tc)
  PROVE  RInv'
<1> DEFINE item == Head(list[cur])
           first == Job("shell", None, tc)
           job == [first EXCEPT !.again = first \in jobs]
<1>1. cur \in Queues /\ list[cur] # <<>> BY RunFacts
<1>2. item.what = "command" BY DEF CommandBackground, Firing
<1>3. /\ list \in [Queues -> Seq(Items)] /\ Homed(list) /\ IsFiniteSet(jobs)
      /\ <<item.client>> \in Seq(Clients \cup {None})
      /\ \A c \in Clients : /\ Count(<<item.client>>, c) = One(item.client, c)
                            /\ Weight(<<item>>, c) = One(item.client, c)
  BY <1>1, <1>2, GoneHead
<1>4. /\ list' = [list EXCEPT ![cur] = Tail(@)] /\ jobs' = jobs \cup {job} /\ job \notin jobs
      /\ TakeAndDrop(<<tc>>, <<item.client>>) /\ UNCHANGED <<clients, leaked, freed>>
  BY DEF CommandBackground, Goes
<1>5. Changes(list, list', <<>>, <<item>>) BY <1>1, <1>3, <1>4, TailChange
<1>6. job.client = tc BY DEF Job
<1> HIDE DEF job, item
<1>7. <<tc>> \in Seq(Clients \cup {None})
  <2>1. ToSet(clients) \subseteq Clients BY SetOfQueue DEF QInv, Types
  <2> QED BY <2>1
<1>8. EvenAndNew(<<tc>>, <<item.client>>, <<>>, <<item>>, tc)
  <2>1. ASSUME NEW c \in Clients
        PROVE  /\ Count(<<tc>>, c) + Weight(<<item>>, c) = Weight(<<>>, c) + One(tc, c) + Count(<<item.client>>, c)
               /\ Count(<<tc>>, c) > 0 => AllUses(list, clients, jobs, c) > 0
    <3>1. Weight(<<>>, c) = 0 /\ Count(<<tc>>, c) = One(tc, c) BY WeightEmpty, CountOne
    <3>2. One(tc, c) \in Nat /\ (One(tc, c) > 0 => tc = c) /\ One(item.client, c) \in Nat BY NoneOne
    <3>3. tc = c => AllUses(list, clients, jobs, c) > 0 BY Used, Distinct
    <3> QED BY <1>3, <3>1, <3>2, <3>3
  <2> QED BY <2>1, Zenon DEF EvenAndNew
<1> QED BY <1>3, <1>4, <1>5, <1>6, <1>7, <1>8, JobStarts

(* cmdq_remove_group takes out commands of the group and nothing else.     *)
LEMMA GroupSplit ==
  ASSUME NEW T \in SUBSET Items, NEW s \in Seq(T), NEW item
  PROVE  /\ cmdq_remove_group(item, s) \in Seq(T) /\ Removed(item, s) \in Seq(Items)
         /\ \A x \in ToSet(Removed(item, s)) : x \in ToSet(s) /\ x \in T /\ x.group # 0
         /\ \A c : Weight(s, c) = Weight(cmdq_remove_group(item, s), c) + Weight(Removed(item, s), c)
<1> DEFINE S == {i \in ToSet(s) : i.group # item.group}
           R == {i \in ToSet(s) : item.group # 0 /\ i.group = item.group}
           gone == Removed(item, s)
           stay == cmdq_remove_group(item, s)
<1>1. ToSet(s) \subseteq T BY SetOfQueue
<1>2. s \in Seq(Items) BY SeqMonotonic
<1>3. Only(s, R) \in Seq(T) /\ ToSet(Only(s, R)) = ToSet(s) \cap R /\ Only(s, S) \in Seq(T) BY OnlySet
<1>4. gone = Only(s, R) /\ stay = IF item.group = 0 THEN s ELSE Only(s, S) BY DEF Removed, cmdq_remove_group
<1>5. stay \in Seq(T) /\ gone \in Seq(T) BY <1>3, <1>4
<1>6. stay \in Seq(Items) /\ gone \in Seq(Items) BY <1>5, SeqMonotonic
<1>7. \A x \in ToSet(gone) : x \in ToSet(s) /\ x \in T /\ x.group # 0 BY <1>1, <1>3, <1>4
<1>8. ASSUME NEW X PROVE Occurs(s, X) = Occurs(stay, X) + Occurs(gone, X)
  <2>1. CASE item.group = 0
    <3>1. Occurs(gone, X) = 0
      <4>1. \A x \in ToSet(gone) : x \notin X BY <1>3, <1>4, <2>1
      <4> QED BY <1>6, <4>1, OccursNone
    <3>2. Occurs(s, X) \in Nat BY OccursType
    <3> QED BY <1>4, <2>1, <3>1, <3>2
  <2>2. CASE item.group # 0
    <3>1. \A x \in ToSet(s) : (x \in S) # (x \in R) BY <2>2
    <3> HIDE DEF S, R
    <3>2. Occurs(s, X) = Occurs(Only(s, S), X) + Occurs(Only(s, R), X) BY <3>1, OccursSplit
    <3> QED BY <1>4, <2>2, <3>2
  <2> QED BY <2>1, <2>2
<1> HIDE DEF gone, stay
<1>9. ASSUME NEW c PROVE Weight(s, c) = Weight(stay, c) + Weight(gone, c)
  <2>1. /\ Occurs(s, OfClient(c)) = Occurs(stay, OfClient(c)) + Occurs(gone, OfClient(c))
        /\ Occurs(s, OfData(c)) = Occurs(stay, OfData(c)) + Occurs(gone, OfData(c))
    BY <1>8
  <2>2. /\ Occurs(stay, OfClient(c)) \in Nat /\ Occurs(gone, OfClient(c)) \in Nat
        /\ Occurs(stay, OfData(c)) \in Nat /\ Occurs(gone, OfData(c)) \in Nat
    BY <1>6, OccursType
  <2> QED BY <2>1, <2>2 DEF Weight
<1> QED BY <1>5, <1>6, <1>7, <1>9 DEF gone, stay

LEMMA FailChange ==
  ASSUME NEW L \in [Queues -> Seq(Items)], Homed(L), NEW q \in Queues, L[q] # <<>>, NEW new \in Seq(Kept(q)),
         NEW item
  PROVE  Changes(L, [L EXCEPT ![q] = new \o cmdq_remove_group(item, Tail(@))],
                 new, <<Head(L[q])>> \o Removed(item, Tail(L[q])))
<1> DEFINE h == Head(L[q])
           t == Tail(L[q])
           stay == cmdq_remove_group(item, t)
           gone == Removed(item, t)
           M == [L EXCEPT ![q] = new \o stay]
<1>1. t \in Seq(Kept(q)) /\ h \in Kept(q) BY HeadTailProperties DEF Homed
<1>2. Kept(q) \in SUBSET Items /\ new \in Seq(Items) BY KeptItems
<1>3. /\ stay \in Seq(Kept(q)) /\ gone \in Seq(Items)
      /\ \A c : Weight(t, c) = Weight(stay, c) + Weight(gone, c)
  <2> DEFINE K == Kept(q)
  <2>1. K \in SUBSET Items /\ t \in Seq(K) BY <1>1, <1>2
  <2> HIDE DEF K, t
  <2>2. /\ cmdq_remove_group(item, t) \in Seq(K) /\ Removed(item, t) \in Seq(Items)
        /\ \A c : Weight(t, c) = Weight(cmdq_remove_group(item, t), c) + Weight(Removed(item, t), c)
    BY <2>1, GroupSplit
  <2> QED BY <2>2 DEF K
<1>4. Replaced(L, M, q, new, stay) BY <1>3, FrontUses
<1>5. h \in Items /\ <<h>> \in Seq(Items) BY <1>1, <1>2
<1>6. /\ M \in [Queues -> Seq(Items)] /\ Homed(M)
      /\ \A c : /\ ItemUses(M, c) + One(h.client, c) + One(h.data, c) + Weight(t, c)
                       = ItemUses(L, c) + Weight(new, c) + Weight(stay, c)
                /\ ItemUses(M, c) \in Nat /\ ItemUses(L, c) \in Nat
                /\ Weight(new, c) \in Nat /\ Weight(stay, c) \in Nat
  BY <1>4, Zenon DEF Replaced
<1> HIDE DEF h, t, stay, gone, M
<1>7. <<h>> \o gone \in Seq(Items) BY <1>3, <1>5, ConcatProperties
<1>8. ASSUME NEW c
      PROVE  /\ ItemUses(M, c) + Weight(<<h>> \o gone, c) = ItemUses(L, c) + Weight(new, c)
             /\ Weight(<<h>> \o gone, c) \in Nat
  <2> DEFINE i == ItemUses(L, c)
             m == ItemUses(M, c)
             a == One(h.client, c)
             b == One(h.data, c)
             s == Weight(stay, c)
             g == Weight(gone, c)
             n == Weight(new, c)
  <2>1. m + a + b + (s + g) = i + n + s /\ m \in Nat /\ i \in Nat /\ n \in Nat /\ s \in Nat
    BY <1>3, <1>6
  <2>2. a \in Nat /\ b \in Nat BY DEF One
  <2>3. g \in Nat BY <1>3, WeightType
  <2>4. Weight(<<h>> \o gone, c) = Weight(<<h>>, c) + g BY <1>3, <1>5, WeightConcat
  <2>5. Weight(<<h>>, c) = a + b BY <1>5, WeightOne
  <2> HIDE DEF i, m, a, b, s, g, n
  <2>6. m + ((a + b) + g) = i + n /\ (a + b) + g \in Nat BY <2>1, <2>2, <2>3
  <2> QED BY <2>4, <2>5, <2>6 DEF i, m, n
<1>9. Changes(L, M, new, <<h>> \o gone) BY <1>2, <1>6, <1>7, <1>8 DEF Changes
<1> QED BY <1>9 DEF M, h, gone, stay, t

LEMMA RefsFailed ==
  ASSUME QInv, QInv', RInv, cur # None, Runnable(cur),
         NEW leak \in Lent(Head(list[cur])) \cup {None}, NEW set \in BOOLEAN, CommandError(leak, set)
  PROVE  RInv'
<1> DEFINE item == Head(list[cur])
           rest == Tail(list[cur])
           l == item.client
           hook == Hook(item, set, lists + 1, l)
           gone == Removed(item, rest)
           t == Append(ClientsOf(hook), leak)
           d == <<item.client>> \o ClientsOf(gone)
           T == Clients \cup {None}
<1>1. cur \in Queues /\ list[cur] # <<>> BY RunFacts
<1>2. /\ l \in T /\ (cur \in Clients => l = cur)
      /\ \A c \in Clients : c = l => AllUses(list, clients, jobs, c) > 0
  BY <1>1, LentHome
<1>3. /\ leak \in T /\ \A c \in Clients : c = leak => AllUses(list, clients, jobs, c) > 0
  <2>1. CASE leak = None BY <2>1, Distinct
  <2>2. CASE leak # None BY <1>1, <2>2, LentHome
  <2> QED BY <2>1, <2>2
<1>4. item.what = "command" BY DEF CommandError, Firing
<1>5. /\ list \in [Queues -> Seq(Items)] /\ Homed(list) /\ IsFiniteSet(jobs) /\ <<item.client>> \in Seq(T)
      /\ \A c \in Clients : /\ Count(<<item.client>>, c) = One(item.client, c)
                            /\ Weight(<<item>>, c) = One(item.client, c)
  BY <1>1, <1>4, GoneHead
<1>6. lists + 1 \in Nat BY QInvTypes
<1>7. NewItems(hook, cur, l) BY <1>2, <1>6, HookIsNew
<1>8. /\ hook \in Seq(Kept(cur)) /\ hook \in Seq(Items) /\ ClientsOf(hook) \in Seq(T)
      /\ \A b \in Clients : /\ Count(ClientsOf(hook), b) = Weight(hook, b) /\ Weight(hook, b) \in Nat
                            /\ Weight(hook, b) > 0 => b = l
  BY <1>7 DEF NewItems
<1>9. /\ list' = [list EXCEPT ![cur] = hook \o cmdq_remove_group(item, Tail(@))]
      /\ TakeAndDrop(t, d) /\ UNCHANGED <<clients, jobs, freed>>
      /\ leaked' = [c \in Clients |-> leaked[c] + IF c = leak THEN 1 ELSE 0]
  BY DEF CommandError, Goes
<1>10. Changes(list, list', hook, <<item>> \o gone)
  <2> HIDE DEF hook
  <2> QED BY <1>1, <1>5, <1>8, <1>9, FailChange
<1>11. /\ item \in Kept(cur) /\ item \in Items /\ rest \in Seq(Kept(cur)) /\ rest \in Seq(Items)
       /\ \A y \in ToSet(rest) : ItemOK(y, lists)
  BY <1>1, HeadHome, HeadFacts
<1>12. gone \in Seq(Items) /\ \A x \in ToSet(gone) : x.data = None
  <2> DEFINE K == Kept(cur)
  <2>1. K \in SUBSET Items /\ rest \in Seq(K) BY <1>11, KeptItems
  <2> HIDE DEF K, rest
  <2>2. /\ Removed(item, rest) \in Seq(Items)
        /\ \A x \in ToSet(Removed(item, rest)) : x \in ToSet(rest) /\ x \in K /\ x.group # 0
    BY <2>1, GroupSplit
  <2>3. ASSUME NEW x \in ToSet(gone) PROVE x.data = None
    <3>1. x \in ToSet(rest) /\ x \in Kept(cur) /\ x.group # 0 BY <2>2 DEF K
    <3>2. x.what = "command" BY <1>11, <3>1 DEF ItemOK
    <3> QED BY <3>1, <3>2 DEF Kept
  <2> QED BY <2>2, <2>3
<1> HIDE DEF item, hook, gone, l, T
<1>13. \A c \in Clients : Count(ClientsOf(gone), c) = Weight(gone, c) BY <1>12, ClientsCount
<1>14. ClientsOf(gone) \in Seq(T) BY <1>12, ClientsOfType DEF T
<1>15. t \in Seq(T) /\ d \in Seq(T)
  BY <1>3, <1>5, <1>8, <1>14, AppendProperties, ConcatProperties
<1>16. ASSUME NEW c \in Clients
       PROVE  \E g, k, e \in Nat :
                /\ JobUses(jobs', c) + g = JobUses(jobs, c) + k
                /\ leaked'[c] = leaked[c] + e
                /\ Count(t, c) + Weight(<<item>> \o gone, c) + g = Weight(hook, c) + k + e + Count(d, c)
                /\ Count(t, c) > 0 => AllUses(list, clients, jobs, c) > 0
  <2> DEFINE o == One(leak, c)
             h == One(item.client, c)
             w == Weight(hook, c)
             x == Weight(gone, c)
  <2>1. Count(t, c) = w + o
    <3>1. Count(t, c) = Count(ClientsOf(hook), c) + One(leak, c) BY <1>3, <1>8, CountAppend
    <3> QED BY <1>8, <3>1
  <2>2. Count(d, c) = h + x
    <3>1. Count(d, c) = Count(<<item.client>>, c) + Count(ClientsOf(gone), c) BY <1>5, <1>14, CountConcat
    <3> QED BY <1>5, <1>13, <3>1
  <2>3. Weight(<<item>> \o gone, c) = h + x
    <3>1. <<item>> \in Seq(Items) BY <1>11
    <3>2. Weight(<<item>> \o gone, c) = Weight(<<item>>, c) + Weight(gone, c) BY <1>12, <3>1, WeightConcat
    <3> QED BY <1>5, <3>2
  <2>4. o \in Nat /\ (o > 0 => c = leak) /\ h \in Nat BY NoneOne
  <2>5. x \in Nat /\ w \in Nat BY <1>12, <1>8, WeightType
  <2>6. leaked'[c] = leaked[c] + o BY <1>9 DEF One
  <2>7. JobUses(jobs', c) + 0 = JobUses(jobs, c) + 0 BY <1>9
  <2>8. w + o > 0 => AllUses(list, clients, jobs, c) > 0
    <3>1. w > 0 => c = l BY <1>8
    <3>2. c = l \/ c = leak => AllUses(list, clients, jobs, c) > 0 BY <1>2, <1>3
    <3> HIDE DEF o, w
    <3>3. w + o > 0 => w > 0 \/ o > 0 BY <2>4, <2>5
    <3> QED BY <2>4, <3>1, <3>2, <3>3
  <2>9. Count(t, c) + Weight(<<item>> \o gone, c) + 0 = Weight(hook, c) + 0 + o + Count(d, c)
    <3> HIDE DEF o, h, w, x, t, d
    <3>1. w + o + (h + x) + 0 = w + 0 + o + (h + x) BY <2>4, <2>5
    <3>2. Weight(hook, c) = w BY DEF w
    <3> QED BY <2>1, <2>2, <2>3, <3>1, <3>2
  <2>10. Count(t, c) > 0 => AllUses(list, clients, jobs, c) > 0 BY <2>1, <2>8
  <2> o \in Nat BY <2>4
  <2> HIDE DEF o, t, d
  <2> WITNESS 0 \in Nat, 0 \in Nat, o \in Nat
  <2> QED BY <2>6, <2>7, <2>9, <2>10
<1>17. Accounted(t, d, hook, <<item>> \o gone)
  <2> HIDE DEF t, d
  <2> QED BY <1>16, Zenon DEF Accounted
<1> HIDE DEF t, d
<1> QED BY <1>5, <1>9, <1>10, <1>15, <1>17, Accounts DEF T

(* An item that starts or stops to wait uses what it used.                 *)
LEMMA WaiterUses ==
  ASSUME NEW q, NEW x \in Kept(q), x.what # "notify"
  PROVE  LET y == [x EXCEPT !.fired = TRUE, !.waiting = TRUE]
         IN /\ y \in Kept(q) /\ <<y>> \in Seq(Kept(q)) /\ <<y>> \in Seq(Items)
            /\ \A c : Weight(<<y>>, c) = Weight(<<x>>, c)
<1> DEFINE y == [x EXCEPT !.fired = TRUE, !.waiting = TRUE]
<1>1. x \in Items BY KeptItems
<1>2. y \in Items /\ y.what = x.what /\ y.client = x.client /\ y.data = x.data BY <1>1, HeadFields
<1> HIDE DEF y
<1>3. y \in Kept(q) BY <1>2 DEF Kept
<1>4. \A c : Weight(<<y>>, c) = Weight(<<x>>, c) BY <1>1, <1>2, WeightOne
<1>5. <<y>> \in Seq(Kept(q)) /\ <<y>> \in Seq(Items) BY <1>2, <1>3
<1> QED BY <1>3, <1>4, <1>5 DEF y

LEMMA WokenUses ==
  ASSUME NEW q, NEW x \in Kept(q)
  PROVE  LET y == [x EXCEPT !.waiting = FALSE]
         IN /\ y \in Kept(q) /\ <<y>> \in Seq(Kept(q)) /\ <<y>> \in Seq(Items)
            /\ \A c : Weight(<<y>>, c) = Weight(<<x>>, c)
<1> DEFINE y == [x EXCEPT !.waiting = FALSE]
<1>1. x \in Items BY KeptItems
<1>2. y \in Items /\ y.what = x.what /\ y.client = x.client /\ y.data = x.data /\ y.fired = x.fired
  BY <1>1, WokenFields
<1> HIDE DEF y
<1>3. y \in Kept(q) BY <1>2 DEF Kept
<1>4. \A c : Weight(<<y>>, c) = Weight(<<x>>, c) BY <1>1, <1>2, WeightOne
<1>5. <<y>> \in Seq(Kept(q)) /\ <<y>> \in Seq(Items) BY <1>2, <1>3
<1> QED BY <1>3, <1>4, <1>5 DEF y

LEMMA CallbackUses ==
  ASSUME NEW q, NEW w \in {"notify", "key", "done"}, NEW l \in Clients \cup {None}, NEW d \in Clients \cup {None},
         q \in Clients => l = q, w # "notify" => d = None
  PROVE  LET x == cmdq_get_callback(w, l, d)
         IN x \in Kept(q) /\ \A c : Weight(<<x>>, c) = One(l, c) + One(d, c)
<1> DEFINE x == cmdq_get_callback(w, l, d)
<1>1. x \in Items BY DEF cmdq_get_callback, Items
<1>2. x.what = w /\ x.client = l /\ x.data = d /\ x.fired = FALSE BY Zenon DEF cmdq_get_callback
<1> HIDE DEF x
<1>3. x \in Kept(q) BY <1>1, <1>2 DEF Kept
<1>4. \A c : Weight(<<x>>, c) = One(l, c) + One(d, c) BY <1>1, <1>2, WeightOne
<1> QED BY <1>3, <1>4 DEF x

LEMMA NotifyChange ==
  ASSUME NEW L \in [Queues -> Seq(Items)], Homed(L), NEW dropped, NEW d \in Clients \cup {None},
         notify_add(dropped, L, d)
  PROVE  \E come : /\ Changes(L, list', come, <<>>)
                   /\ \A c \in Clients : Weight(come, c) = IF dropped THEN 0 ELSE One(d, c)
<1>1. CASE dropped
  <2>1. Changes(L, list', <<>>, <<>>) BY <1>1, NoChange DEF notify_add
  <2>2. \A c \in Clients : Weight(<<>>, c) = 0 BY WeightEmpty
  <2> QED BY <1>1, <2>1, <2>2
<1>2. CASE ~dropped
  <2> DEFINE x == cmdq_get_callback("notify", None, d)
  <2>1. x \in Kept(Global) /\ \A c : Weight(<<x>>, c) = One(None, c) + One(d, c)
    BY CallbackUses, Distinct
  <2> HIDE DEF x
  <2>4. list' = [L EXCEPT ![Global] = Append(@, x)] BY <1>2 DEF notify_add, x
  <2>5. Changes(L, list', <<x>>, <<>>) BY <2>1, <2>4, QueuesFacts, AppendChange
  <2>6. ASSUME NEW c \in Clients PROVE Weight(<<x>>, c) = One(d, c)
    <3>1. Weight(<<x>>, c) = One(None, c) + One(d, c) BY <2>1
    <3>2. One(None, c) = 0 /\ One(d, c) \in Nat BY NoneOne
    <3> QED BY <3>1, <3>2
  <2> QED BY <1>2, <2>5, <2>6
<1> QED BY <1>1, <1>2

LEMMA RefsWait ==
  ASSUME QInv, QInv', RInv, cur # None, Runnable(cur), NEW l \in Lent(Head(list[cur])),
         NEW channel \in BOOLEAN, CommandWait(channel, l)
  PROVE  RInv'
<1> DEFINE item == Head(list[cur])
           waiter == [item EXCEPT !.fired = TRUE, !.waiting = TRUE]
<1>1. cur \in Queues /\ list[cur] # <<>> /\ ~Awaited(cur, jobs, signals) BY RunFacts
<1>2. /\ l \in Clients \cup {None} /\ \A c \in Clients : c = l => AllUses(list, clients, jobs, c) > 0
  BY <1>1, LentHome
<1>3. item.what = "command" /\ item \in Kept(cur) /\ item \in Items
  BY <1>1, HeadHome DEF CommandWait, Firing
<1>4. list \in [Queues -> Seq(Items)] /\ Homed(list) BY <1>1, GoneHead
<1>5. <<waiter>> \in Seq(Kept(cur)) /\ \A c : Weight(<<waiter>>, c) = Weight(<<item>>, c)
  BY <1>3, WaiterUses
<1>6. list' = [list EXCEPT ![cur] = <<waiter>> \o Tail(@)] /\ UNCHANGED <<clients, freed, leaked>>
  BY DEF CommandWait, Goes
<1>7. \/ UNCHANGED <<jobs, refs, freeing>>
      \/ jobs' = jobs \cup {Job("shell", cur, l)} /\ TakeAndDrop(<<l>>, <<>>)
  BY DEF CommandWait
<1> DEFINE W == <<waiter>>
<1> HIDE DEF W
<1>8. Changes(list, list', W, <<item>>)
  <2>1. W \in Seq(Kept(cur)) /\ list' = [list EXCEPT ![cur] = W \o Tail(@)] BY <1>5, <1>6 DEF W
  <2> QED BY <1>1, <1>4, <2>1, HeadChange
<1>9. \A c \in Clients : Weight(W, c) = Weight(<<item>>, c) /\ Weight(W, c) \in Nat
  <2>1. \A c : Weight(W, c) = Weight(<<item>>, c) BY <1>5 DEF W
  <2> QED BY <1>8, <2>1 DEF Changes
<1>10. CASE UNCHANGED <<jobs, refs, freeing>>
  <2>1. TakeAndDrop(<<>>, <<>>) /\ <<>> \in Seq(Clients \cup {None}) BY <1>10, NoTake
  <2>2. Even(<<>>, <<>>, W, <<item>>)
    <3>1. \A c : Count(<<>>, c) = 0 BY CountEmpty
    <3> QED BY <1>9, <3>1 DEF Even
  <2> QED BY <1>6, <1>8, <1>10, <2>1, <2>2, JobsStay
<1>11. CASE jobs' = jobs \cup {Job("shell", cur, l)} /\ TakeAndDrop(<<l>>, <<>>)
  <2> DEFINE j == Job("shell", cur, l)
  <2>1. j.queue = cur /\ j.client = l BY DEF Job
  <2> HIDE DEF j
  <2>2. j \notin jobs BY <1>1, <2>1 DEF Awaited
  <2>3. <<l>> \in Seq(Clients \cup {None}) /\ <<>> \in Seq(Clients \cup {None}) BY <1>2
  <2>4. EvenAndNew(<<l>>, <<>>, W, <<item>>, l)
    <3>1. \A c : Count(<<>>, c) = 0 /\ Count(<<l>>, c) = One(l, c) BY CountEmpty, CountOne
    <3>2. \A c \in Clients : One(l, c) \in Nat /\ (One(l, c) > 0 => c = l) BY NoneOne
    <3>3. ASSUME NEW c \in Clients
          PROVE  Count(<<l>>, c) + Weight(<<item>>, c) = Weight(W, c) + One(l, c) + Count(<<>>, c)
      <4> DEFINE w == Weight(W, c)
                 o == One(l, c)
      <4>1. w \in Nat /\ o \in Nat BY <1>9, <3>2
      <4> HIDE DEF w, o
      <4>2. o + w = w + o + 0 BY <4>1
      <4> QED BY <1>9, <3>1, <4>2 DEF w, o
    <3> QED BY <1>2, <3>1, <3>2, <3>3 DEF EvenAndNew
  <2>5. jobs' = jobs \cup {j} BY <1>11 DEF j
  <2> QED BY <1>6, <1>8, <1>11, <2>1, <2>2, <2>3, <2>4, <2>5, JobStarts
<1> QED BY <1>7, <1>10, <1>11

(* A notification about no client uses none.                               *)
LEMMA NotifyAfter ==
  ASSUME NEW L, NEW M, NEW come, NEW go, Changes(L, M, come, go), NEW dropped, notify_add(dropped, M, None)
  PROVE  Changes(L, list', come, go)
<1>1. /\ M \in [Queues -> Seq(Items)] /\ Homed(M) /\ come \in Seq(Items) /\ go \in Seq(Items)
      /\ \A c \in Clients : /\ ItemUses(M, c) + Weight(go, c) = ItemUses(L, c) + Weight(come, c)
                            /\ ItemUses(M, c) \in Nat /\ ItemUses(L, c) \in Nat
                            /\ Weight(go, c) \in Nat /\ Weight(come, c) \in Nat
  BY DEF Changes
<1>2. PICK new : /\ Changes(M, list', new, <<>>)
                 /\ \A c \in Clients : Weight(new, c) = IF dropped THEN 0 ELSE One(None, c)
  BY <1>1, NotifyChange
<1>3. ASSUME NEW c \in Clients PROVE ItemUses(list', c) = ItemUses(M, c)
  <2>1. Weight(new, c) = 0 /\ Weight(<<>>, c) = 0 BY <1>2, NoneOne, WeightEmpty
  <2>2. ItemUses(list', c) + Weight(<<>>, c) = ItemUses(M, c) + Weight(new, c) /\ ItemUses(list', c) \in Nat
        /\ ItemUses(M, c) \in Nat
    BY <1>2 DEF Changes
  <2> QED BY <2>1, <2>2
<1>4. list' \in [Queues -> Seq(Items)] /\ Homed(list') BY <1>2 DEF Changes
<1> QED BY <1>1, <1>3, <1>4 DEF Changes

LEMMA RefsNotify ==
  ASSUME QInv, QInv', RInv, cur # None, Runnable(cur), CommandNotify
  PROVE  RInv'
<1> DEFINE item == Head(list[cur])
           dropped == IF cur = Global THEN item.nohooks ELSE RunsNoHooks(Global)
           M == [list EXCEPT ![cur] = Tail(@)]
<1>1. cur \in Queues /\ list[cur] # <<>> BY RunFacts
<1>2. item.what = "command" BY DEF CommandNotify, Firing
<1>3. /\ list \in [Queues -> Seq(Items)] /\ Homed(list)
      /\ <<item.client>> \in Seq(Clients \cup {None})
      /\ \A c \in Clients : /\ Count(<<item.client>>, c) = One(item.client, c)
                            /\ Weight(<<item>>, c) = One(item.client, c)
  BY <1>1, <1>2, GoneHead
<1>4. /\ notify_add(dropped, M, None) /\ TakeAndDrop(<<>>, <<item.client>>)
      /\ UNCHANGED <<clients, freed, leaked, jobs>>
  BY DEF CommandNotify, Goes
<1>5. Changes(list, M, <<>>, <<item>>) BY <1>1, <1>3, TailChange
<1> HIDE DEF M, dropped, item
<1>6. Changes(list, list', <<>>, <<item>>) BY <1>4, <1>5, NotifyAfter
<1>7. Even(<<>>, <<item.client>>, <<>>, <<item>>)
  <2>1. \A c : Count(<<>>, c) = 0 /\ Weight(<<>>, c) = 0 BY CountEmpty, WeightEmpty
  <2>2. \A c \in Clients : One(item.client, c) \in Nat BY NoneOne
  <2> QED BY <1>3, <2>1, <2>2 DEF Even
<1>8. <<>> \in Seq(Clients \cup {None}) OBVIOUS
<1> QED BY <1>3, <1>4, <1>6, <1>7, <1>8, JobsStay

LEMMA RefsInput ==
  ASSUME QInv, QInv', RInv, cur # None, Runnable(cur), NEW l \in Lent(Head(list[cur])), NEW set \in BOOLEAN,
         CommandInput(l, set)
  PROVE  RInv'
<1> DEFINE item == Head(list[cur])
           hook == Hook(item, set, lists + 2, l)
           waiter == [item EXCEPT !.fired = TRUE, !.waiting = TRUE]
           dropped == IF cur = Global THEN item.nohooks ELSE RunsNoHooks(Global)
           W == <<waiter>>
           M == [list EXCEPT ![cur] = (W \o hook) \o Tail(@)]
           j == Job("input", cur, l)
           t == Append(ClientsOf(hook), l)
           T == Clients \cup {None}
<1>1. cur \in Queues /\ list[cur] # <<>> /\ ~Awaited(cur, jobs, signals) BY RunFacts
<1>2. /\ l \in T /\ (cur \in Clients => l = cur)
      /\ \A c \in Clients : c = l => AllUses(list, clients, jobs, c) > 0
  BY <1>1, LentHome
<1>3. item.what = "command" /\ item \in Kept(cur) /\ item \in Items
  BY <1>1, HeadHome DEF CommandInput, Firing
<1>4. list \in [Queues -> Seq(Items)] /\ Homed(list) BY <1>1, GoneHead
<1>5. W \in Seq(Kept(cur)) /\ W \in Seq(Items) /\ \A c : Weight(W, c) = Weight(<<item>>, c)
  BY <1>3, WaiterUses
<1>6. lists + 2 \in Nat BY QInvTypes
<1>7. NewItems(hook, cur, l) BY <1>2, <1>6, HookIsNew
<1>8. /\ notify_add(dropped, M, None) /\ UNCHANGED <<clients, freed, leaked>> /\ jobs' = jobs \cup {j}
      /\ TakeAndDrop(t, <<>>)
  BY DEF CommandInput, Goes
<1>9. j.queue = cur /\ j.client = l BY DEF Job
<1> HIDE DEF W, hook, j
<1>10. /\ hook \in Seq(Kept(cur)) /\ hook \in Seq(Items) /\ ClientsOf(hook) \in Seq(T)
       /\ \A b \in Clients : /\ Count(ClientsOf(hook), b) = Weight(hook, b) /\ Weight(hook, b) \in Nat
                             /\ Weight(hook, b) > 0 => b = l
  BY <1>7 DEF NewItems
<1>11. W \o hook \in Seq(Kept(cur)) BY <1>5, <1>10, ConcatProperties
<1>12. Changes(list, M, W \o hook, <<item>>)
  <2> DEFINE V == W \o hook
  <2> HIDE DEF V
  <2>1. V \in Seq(Kept(cur)) BY <1>11 DEF V
  <2>2. Changes(list, [list EXCEPT ![cur] = V \o Tail(@)], V, <<item>>) BY <1>1, <1>4, <2>1, HeadChange
  <2> QED BY <2>2 DEF V
<1> HIDE DEF M, dropped, item
<1>13. Changes(list, list', W \o hook, <<item>>) BY <1>8, <1>12, NotifyAfter
<1>14. j \notin jobs BY <1>1, <1>9 DEF Awaited
<1>15. t \in Seq(T) /\ <<>> \in Seq(T) BY <1>2, <1>10, AppendProperties
<1>16. EvenAndNew(t, <<>>, W \o hook, <<item>>, l)
  <2>1. ASSUME NEW c \in Clients
        PROVE  /\ Count(t, c) + Weight(<<item>>, c) = Weight(W \o hook, c) + One(l, c) + Count(<<>>, c)
               /\ Count(t, c) > 0 => AllUses(list, clients, jobs, c) > 0
    <3> DEFINE o == One(l, c)
               w == Weight(<<item>>, c)
               n == Weight(hook, c)
    <3>1. Count(t, c) = n + o
      <4>1. Count(t, c) = Count(ClientsOf(hook), c) + One(l, c) BY <1>2, <1>10, CountAppend
      <4> QED BY <1>10, <4>1
    <3>2. Weight(W \o hook, c) = w + n
      <4>1. Weight(W \o hook, c) = Weight(W, c) + Weight(hook, c) BY <1>5, <1>10, WeightConcat
      <4> QED BY <1>5, <4>1
    <3>3. Count(<<>>, c) = 0 BY CountEmpty
    <3>4. o \in Nat /\ (o > 0 => c = l) /\ n \in Nat /\ (n > 0 => c = l) BY <1>10, NoneOne
    <3>5. w \in Nat BY <1>13 DEF Changes
    <3> HIDE DEF o, w, n, t
    <3>6. (n + o) + w = (w + n) + o + 0 BY <3>4, <3>5
    <3>7. n + o > 0 => c = l BY <3>4
    <3>8. Count(t, c) + w = Weight(W \o hook, c) + o + Count(<<>>, c) BY <3>1, <3>2, <3>3, <3>6
    <3>9. Count(t, c) > 0 => AllUses(list, clients, jobs, c) > 0 BY <1>2, <3>1, <3>7
    <3> QED BY <3>8, <3>9 DEF o, w
  <2> HIDE DEF t
  <2> QED BY <2>1, Zenon DEF EvenAndNew
<1> HIDE DEF t
<1> QED BY <1>8, <1>9, <1>13, <1>14, <1>15, <1>16, JobStarts DEF T

(* An item continues, and items come behind it.                            *)
LEMMA ContinuedChange ==
  ASSUME QInv, RInv, NEW q \in Queues, list[q] # <<>>, NEW new \in Seq(Kept(q))
  PROVE  Changes(list, Continued(q, new), new, <<>>)
<1> DEFINE h == Head(list[q])
           W == <<[h EXCEPT !.waiting = FALSE]>>
           V == W \o new
           M == [list EXCEPT ![q] = V \o Tail(@)]
<1>1. list \in [Queues -> Seq(Items)] /\ Homed(list) /\ h \in Kept(q) BY GoneHead, HeadHome
<1>2. W \in Seq(Kept(q)) /\ W \in Seq(Items) /\ \A c : Weight(W, c) = Weight(<<h>>, c) BY <1>1, WokenUses
<1>3. Continued(q, new) = M BY DEF Continued
<1> HIDE DEF W
<1>4. V \in Seq(Kept(q)) BY <1>2, ConcatProperties
<1>5. new \in Seq(Items) /\ <<>> \in Seq(Items) BY KeptItems
<1>6. \A c : Weight(V, c) = Weight(<<h>>, c) + Weight(new, c) BY <1>2, <1>5, WeightConcat
<1> HIDE DEF V
<1>7. Changes(list, M, V, <<h>>) BY <1>1, <1>4, HeadChange
<1> HIDE DEF M, h
<1>8. ASSUME NEW c \in Clients
      PROVE  /\ ItemUses(M, c) + Weight(<<>>, c) = ItemUses(list, c) + Weight(new, c)
             /\ ItemUses(M, c) \in Nat /\ ItemUses(list, c) \in Nat
             /\ Weight(<<>>, c) \in Nat /\ Weight(new, c) \in Nat
  <2> DEFINE i == ItemUses(list, c)
             m == ItemUses(M, c)
             x == Weight(<<h>>, c)
             n == Weight(new, c)
  <2>1. m + x = i + (x + n) /\ m \in Nat /\ i \in Nat /\ x \in Nat BY <1>6, <1>7 DEF Changes
  <2>2. n \in Nat /\ Weight(<<>>, c) = 0 BY <1>5, WeightType, WeightEmpty
  <2> HIDE DEF i, m, x, n
  <2>3. m + 0 = i + n BY <2>1, <2>2
  <2> QED BY <2>1, <2>2, <2>3 DEF i, m, n
<1>9. M \in [Queues -> Seq(Items)] /\ Homed(M) BY <1>7 DEF Changes
<1>10. Changes(list, M, new, <<>>) BY <1>5, <1>8, <1>9 DEF Changes
<1> QED BY <1>3, <1>10

LEMMA RefsSignal ==
  ASSUME QInv, QInv', RInv, cur # None, Runnable(cur), NEW q \in signals, CommandSignal(q)
  PROVE  RInv'
<1> DEFINE item == Head(list[cur])
           M == Continued(q, <<>>)
           go == <<>> \o <<item>>
           come == <<>> \o <<>>
<1>1. cur \in Queues /\ list[cur] # <<>> /\ ~Awaited(cur, jobs, signals) BY RunFacts
<1>2. item.what = "command" BY DEF CommandSignal, Firing
<1>3. /\ <<item.client>> \in Seq(Clients \cup {None})
      /\ \A c \in Clients : /\ Count(<<item.client>>, c) = One(item.client, c)
                            /\ Weight(<<item>>, c) = One(item.client, c)
  BY <1>1, <1>2, GoneHead
<1>4. q \in Queues /\ list[q] # <<>> /\ q # cur
  BY <1>1, QInvTypes DEF Wakers, Awaited
<1>5. <<>> \in Seq(Kept(q)) OBVIOUS
<1>6. Changes(list, M, <<>>, <<>>) BY <1>4, <1>5, ContinuedChange
<1>7. M[cur] = list[cur] BY <1>1, <1>4, QInvTypes DEF Continued
<1>8. /\ list' = [M EXCEPT ![cur] = Tail(@)] /\ TakeAndDrop(<<>>, <<item.client>>)
      /\ UNCHANGED <<clients, freed, leaked, jobs>>
  BY DEF CommandSignal, Goes
<1>9. item \in Items BY <1>1, HeadHome
<1> HIDE DEF M
<1>10. M \in [Queues -> Seq(Items)] /\ Homed(M) BY <1>6 DEF Changes
<1>11. Changes(M, list', <<>>, <<item>>) BY <1>1, <1>7, <1>8, <1>10, TailChange
<1> HIDE DEF item
<1>12. Changes(list, list', come, go) BY <1>6, <1>11, ChangeTwice
<1>13. come = <<>> /\ go = <<item>> BY <1>9
<1>14. Even(<<>>, <<item.client>>, <<>>, <<item>>)
  <2>1. \A c : Count(<<>>, c) = 0 /\ Weight(<<>>, c) = 0 BY CountEmpty, WeightEmpty
  <2>2. \A c \in Clients : One(item.client, c) \in Nat BY NoneOne
  <2> QED BY <1>3, <2>1, <2>2 DEF Even
<1>15. <<>> \in Seq(Clients \cup {None}) OBVIOUS
<1> HIDE DEF come, go
<1>16. Changes(list, list', <<>>, <<item>>) BY <1>12, <1>13
<1> QED BY <1>3, <1>8, <1>14, <1>15, <1>16, JobsStay

-----------------------------------------------------------------------------
(* Event callbacks. *)

LEMMA RefsIfShell ==
  ASSUME QInv, QInv', RInv, NEW j \in jobs, cmd_if_shell_callback(j)
  PROVE  RInv'
<1> DEFINE waits == j.queue # None
           head == Head(list[j.queue])
           owner == IF j.client = None THEN Global ELSE j.client
           l == IF waits THEN head.client ELSE j.client
           g == IF InBraces /\ ~waits THEN BraceGroup ELSE lists + 1
           nh == waits /\ head.nohooks
           new == cmdq_get_command(2, lists + 1, g, nh, l)
<1>1. lists + 1 \in Nat /\ g \in Nat BY QInvTypes, BoundsNat DEF BraceGroup
<1>2. /\ jobs' = jobs \ {j} /\ TakeAndDrop(ClientsOf(new), <<j.client>>)
      /\ list' = IF waits THEN Continued(j.queue, new) ELSE [list EXCEPT ![owner] = @ \o new]
      /\ UNCHANGED <<clients, freed, leaked>>
  BY DEF cmd_if_shell_callback
<1>3. j.client \in Clients \cup {None} /\ <<j.client>> \in Seq(Clients \cup {None}) BY QInvTypes DEF Jobs
<1>4. list \in [Queues -> Seq(Items)] /\ Homed(list) BY DEF QInv, Types, RInv
<1>5. /\ Changes(list, list', new, <<>>) /\ \A c \in Clients : c = l => AllUses(list, clients, jobs, c) > 0
      /\ \E q : NewItems(new, q, l)
  <2>1. CASE waits
    <3>1. j.queue \in Queues /\ list[j.queue] # <<>> BY <2>1, JobFacts
    <3>2. /\ l \in Clients \cup {None} /\ (j.queue \in Clients => l = j.queue)
          /\ \A c \in Clients : c = l => AllUses(list, clients, jobs, c) > 0
      BY <2>1, <3>1, LentHome
    <3>3. nh \in BOOLEAN BY <3>1, HeadHome DEF Items
    <3> HIDE DEF g, nh, l
    <3>4. NewItems(new, j.queue, l) BY <1>1, <3>2, <3>3, CommandsAreNew
    <3>5. new \in Seq(Kept(j.queue)) BY <3>4 DEF NewItems
    <3> HIDE DEF new
    <3>6. Changes(list, list', new, <<>>) BY <1>2, <2>1, <3>1, <3>5, ContinuedChange
    <3> QED BY <3>2, <3>4, <3>6
  <2>2. CASE ~waits
    <3>1. owner \in Queues /\ l = j.client /\ (owner \in Clients => l = owner)
      BY <1>3, <2>2, QueuesFacts, Distinct
    <3>2. \A c \in Clients : c = l => AllUses(list, clients, jobs, c) > 0 BY <3>1, Used
    <3>3. nh \in BOOLEAN BY <2>2
    <3> HIDE DEF g, nh, l, owner
    <3>4. NewItems(new, owner, l) BY <1>1, <1>3, <3>1, <3>3, CommandsAreNew
    <3> HIDE DEF new
    <3>5. Changes(list, list', new, <<>>) BY <1>2, <1>4, <2>2, <3>1, <3>4, BackChange
    <3> QED BY <3>2, <3>4, <3>5
  <2> QED BY <2>1, <2>2
<1> HIDE DEF new, l
<1>6. PICK q : NewItems(new, q, l) BY <1>5
<1>7. /\ ClientsOf(new) \in Seq(Clients \cup {None})
      /\ \A b \in Clients : /\ Count(ClientsOf(new), b) = Weight(new, b) /\ Weight(new, b) \in Nat
                            /\ Weight(new, b) > 0 => b = l
  BY <1>6 DEF NewItems
<1>8. EvenAndOver(ClientsOf(new), <<j.client>>, new, <<>>, j.client)
  <2>1. ASSUME NEW c \in Clients
        PROVE  /\ Count(ClientsOf(new), c) + Weight(<<>>, c) + One(j.client, c)
                    = Weight(new, c) + Count(<<j.client>>, c)
               /\ Count(ClientsOf(new), c) > 0 => AllUses(list, clients, jobs, c) > 0
    <3>1. Weight(<<>>, c) = 0 /\ Count(<<j.client>>, c) = One(j.client, c) BY WeightEmpty, CountOne
    <3>2. One(j.client, c) \in Nat BY NoneOne
    <3> QED BY <1>5, <1>7, <3>1, <3>2
  <2> QED BY <2>1, Zenon DEF EvenAndOver
<1> QED BY <1>2, <1>3, <1>5, <1>7, <1>8, JobEnds

(* A job that is over without commands.                                    *)
LEMMA OverEven ==
  ASSUME NEW j
  PROVE  EvenAndOver(<<>>, <<j.client>>, <<>>, <<>>, j.client)
<1>1. ASSUME NEW c \in Clients
      PROVE  /\ Count(<<>>, c) + Weight(<<>>, c) + One(j.client, c) = Weight(<<>>, c) + Count(<<j.client>>, c)
             /\ Count(<<>>, c) > 0 => AllUses(list, clients, jobs, c) > 0
  <2>1. Weight(<<>>, c) = 0 /\ Count(<<j.client>>, c) = One(j.client, c) /\ Count(<<>>, c) = 0
    BY WeightEmpty, CountOne, CountEmpty
  <2>2. One(j.client, c) \in Nat BY NoneOne
  <2> QED BY <2>1, <2>2
<1> QED BY <1>1, Zenon DEF EvenAndOver

LEMMA RefsJobDone ==
  ASSUME QInv, QInv', RInv, NEW j \in jobs, JobDone(j)
  PROVE  RInv'
<1>1. /\ j.client \in Clients \cup {None}
      /\ <<j.client>> \in Seq(Clients \cup {None}) /\ <<>> \in Seq(Clients \cup {None})
  BY QInvTypes DEF Jobs
<1>2. Changes(list, list', <<>>, <<>>)
  <2>1. CASE j.queue = None
    <3>1. list \in [Queues -> Seq(Items)] /\ Homed(list) BY DEF QInv, Types, RInv
    <3> QED BY <2>1, <3>1, NoChange DEF JobDone
  <2>2. CASE j.queue # None
    <3>1. j.queue \in Queues /\ list[j.queue] # <<>> BY <2>2, JobFacts
    <3>2. <<>> \in Seq(Kept(j.queue)) OBVIOUS
    <3> QED BY <2>2, <3>1, <3>2, ContinuedChange DEF JobDone
  <2> QED BY <2>1, <2>2
<1>3. EvenAndOver(<<>>, <<j.client>>, <<>>, <<>>, j.client) BY OverEven
<1> QED BY <1>1, <1>2, <1>3, JobEnds DEF JobDone

LEMMA RefsTimerFails ==
  ASSUME QInv, QInv', RInv, NEW j \in jobs, cmd_run_shell_timer_fails(j)
  PROVE  RInv'
<1>1. /\ j.client \in Clients \cup {None}
      /\ <<j.client>> \in Seq(Clients \cup {None}) /\ <<>> \in Seq(Clients \cup {None})
  BY QInvTypes DEF Jobs
<1>2. list \in [Queues -> Seq(Items)] /\ Homed(list) BY DEF QInv, Types, RInv
<1>3. Changes(list, list', <<>>, <<>>) BY <1>2, NoChange DEF cmd_run_shell_timer_fails, qvars
<1>4. EvenAndOver(<<>>, <<j.client>>, <<>>, <<>>, j.client) BY OverEven
<1> QED BY <1>1, <1>3, <1>4, JobEnds DEF cmd_run_shell_timer_fails, qvars

LEMMA RefsInputGone ==
  ASSUME QInv, QInv', RInv, NEW j \in jobs, window_pane_input_gone(j)
  PROVE  RInv'
<1>1. /\ jobs' = jobs \ {j} /\ leaked' = [leaked EXCEPT ![j.client] = @ + 1]
      /\ UNCHANGED <<list, clients, refs, freeing, freed>>
  BY DEF window_pane_input_gone, qvars
<1>2. leaked \in [Clients -> Nat] /\ IsFiniteSet(jobs) /\ list \in [Queues -> Seq(Items)] /\ Homed(list)
  BY DEF QInv, Types, RInv
<1>3. TakeAndDrop(<<>>, <<>>) /\ <<>> \in Seq(Clients \cup {None}) BY <1>1, NoTake
<1>4. Changes(list, list', <<>>, <<>>) BY <1>1, <1>2, NoChange
<1>5. /\ IsFiniteSet(jobs \ {j})
      /\ \A c : JobUses(jobs, c) = JobUses(jobs \ {j}, c) + One(j.client, c) /\ JobUses(jobs, c) \in Nat
  BY <1>2, EndJob
<1>6. ASSUME NEW c \in Clients
      PROVE  \E g, k, e \in Nat :
                /\ JobUses(jobs', c) + g = JobUses(jobs, c) + k
                /\ leaked'[c] = leaked[c] + e
                /\ Count(<<>>, c) + Weight(<<>>, c) + g = Weight(<<>>, c) + k + e + Count(<<>>, c)
                /\ Count(<<>>, c) > 0 => AllUses(list, clients, jobs, c) > 0
  <2> DEFINE o == One(j.client, c)
  <2> o \in Nat BY NoneOne
  <2>1. leaked'[c] = leaked[c] + o BY <1>1, <1>2 DEF One
  <2>2. Count(<<>>, c) = 0 /\ Weight(<<>>, c) = 0 BY CountEmpty, WeightEmpty
  <2>3. JobUses(jobs', c) + o = JobUses(jobs, c) + 0 BY <1>1, <1>5
  <2> HIDE DEF o
  <2>4. 0 + 0 + o = 0 + 0 + o + 0 /\ ~(0 > 0) OBVIOUS
  <2>5. /\ Count(<<>>, c) + Weight(<<>>, c) + o = Weight(<<>>, c) + 0 + o + Count(<<>>, c)
        /\ Count(<<>>, c) > 0 => AllUses(list, clients, jobs, c) > 0
    BY <2>2, <2>4
  <2> WITNESS o \in Nat, 0 \in Nat, o \in Nat
  <2> QED BY <2>1, <2>3, <2>5
<1>7. Accounted(<<>>, <<>>, <<>>, <<>>) BY <1>6, Zenon DEF Accounted
<1> QED BY <1>1, <1>3, <1>4, <1>5, <1>7, Accounts

(* Items at the end of the queue of a client.                              *)
LEMMA BackKeeps ==
  ASSUME QInv, QInv', RInv, NEW c \in ToSet(clients), c \in Clients, NEW new, NewItems(new, c, c),
         list' = [list EXCEPT ![c] = @ \o new], UNCHANGED <<clients, jobs, leaked, freed>>,
         TakeAndDrop(ClientsOf(new), <<>>)
  PROVE  RInv'
<1>1. list \in [Queues -> Seq(Items)] /\ Homed(list) /\ c \in Queues BY QueuesFacts DEF QInv, Types, RInv
<1>2. Changes(list, list', new, <<>>) BY <1>1, BackChange
<1>3. /\ ClientsOf(new) \in Seq(Clients \cup {None}) /\ <<>> \in Seq(Clients \cup {None})
      /\ \A b \in Clients : /\ Count(ClientsOf(new), b) = Weight(new, b) /\ Weight(new, b) \in Nat
                            /\ Weight(new, b) > 0 => b = c
  BY DEF NewItems
<1>4. AllUses(list, clients, jobs, c) > 0 BY Used
<1>5. \A b : Count(<<>>, b) = 0 /\ Weight(<<>>, b) = 0 BY CountEmpty, WeightEmpty
<1>6. Even(ClientsOf(new), <<>>, new, <<>>) BY <1>3, <1>4, <1>5 DEF Even
<1> QED BY <1>2, <1>3, <1>6, JobsStay

LEMMA RefsDispatch ==
  ASSUME QInv, QInv', RInv, NEW c \in Clients, server_client_dispatch_command(c)
  PROVE  RInv'
<1> DEFINE cmds == cmdq_get_command(2, lists + 1, lists + 1, FALSE, c)
           done == cmdq_get_callback("done", c, None)
           new == Append(cmds, done)
<1>1. lists + 1 \in Nat BY QInvTypes
<1>2. cmds \in Seq(Kept(c)) /\ \A x \in ToSet(cmds) : x.client = c /\ x.data = None
  <2>1. ItemsFor(cmds, c, c) BY <1>1, CommandsFor
  <2> HIDE DEF cmds
  <2> QED BY <2>1 DEF ItemsFor
<1>3. done \in Kept(c) BY CallbackUses
<1>4. done.client = c /\ done.data = None BY Zenon DEF cmdq_get_callback
<1>5. /\ c \in ToSet(clients) /\ list' = [list EXCEPT ![c] = @ \o new] /\ UNCHANGED <<clients, jobs, leaked, freed>>
      /\ TakeAndDrop(ClientsOf(new), <<>>)
  BY DEF server_client_dispatch_command
<1> HIDE DEF cmds, done
<1>6. new \in Seq(Kept(c)) /\ ToSet(new) = ToSet(cmds) \cup {done} BY <1>2, <1>3, AppendProperties, AppendSet
<1>7. NewItems(new, c, c) BY <1>2, <1>4, <1>6, ItemsAreNew
<1> HIDE DEF new
<1> QED BY <1>5, <1>7, BackKeeps

LEMMA RefsKey ==
  ASSUME QInv, QInv', RInv, NEW c \in Clients, server_client_handle_key(c)
  PROVE  RInv'
<1> DEFINE x == cmdq_get_callback("key", c, None)
<1>1. x \in Kept(c) /\ \A b : Weight(<<x>>, b) = One(c, b) + One(None, b) BY CallbackUses
<1>2. /\ c \in ToSet(clients) /\ list' = [list EXCEPT ![c] = Append(@, x)]
      /\ UNCHANGED <<clients, jobs, leaked, freed>> /\ TakeAndDrop(<<c>>, <<>>)
  BY DEF server_client_handle_key
<1> HIDE DEF x
<1>3. list \in [Queues -> Seq(Items)] /\ Homed(list) /\ c \in Queues BY QueuesFacts DEF QInv, Types, RInv
<1>4. Changes(list, list', <<x>>, <<>>) BY <1>1, <1>2, <1>3, AppendChange
<1>5. AllUses(list, clients, jobs, c) > 0 BY <1>2, Used
<1>6. \A b : Count(<<>>, b) = 0 /\ Weight(<<>>, b) = 0 /\ Count(<<c>>, b) = One(c, b)
  BY CountEmpty, WeightEmpty, CountOne
<1>7. \A b \in Clients : One(None, b) = 0 /\ One(c, b) \in Nat /\ (One(c, b) > 0 => b = c) BY NoneOne
<1>8. Even(<<c>>, <<>>, <<x>>, <<>>) BY <1>1, <1>5, <1>6, <1>7 DEF Even
<1>9. <<c>> \in Seq(Clients \cup {None}) /\ <<>> \in Seq(Clients \cup {None}) OBVIOUS
<1> QED BY <1>2, <1>4, <1>8, <1>9, JobsStay

LEMMA RefsEvent ==
  ASSUME QInv, QInv', RInv, EventNotifies
  PROVE  RInv'
<1>1. list \in [Queues -> Seq(Items)] /\ Homed(list) BY DEF QInv, Types, RInv
<1>2. notify_add(RunsNoHooks(Global), list, None) /\ UNCHANGED <<clients, jobs, leaked, freed, refs, freeing>>
  BY DEF EventNotifies, clientvars
<1>3. Changes(list, list, <<>>, <<>>) BY <1>1, NoChange
<1>4. Changes(list, list', <<>>, <<>>) BY <1>2, <1>3, NotifyAfter
<1>5. TakeAndDrop(<<>>, <<>>) /\ <<>> \in Seq(Clients \cup {None}) BY <1>2, NoTake
<1>6. Even(<<>>, <<>>, <<>>, <<>>)
  <2>1. \A c : Count(<<>>, c) = 0 /\ Weight(<<>>, c) = 0 BY CountEmpty, WeightEmpty
  <2> QED BY <2>1 DEF Even
<1> QED BY <1>2, <1>4, <1>5, <1>6, JobsStay

LEMMA RefsCreate ==
  ASSUME QInv, QInv', RInv, NEW c \in Clients, server_client_create(c)
  PROVE  RInv'
<1>1. /\ c \notin ToSet(clients) /\ c \notin freed /\ refs[c] = 0 /\ freeing[c] = 0
      /\ clients' = Append(clients, c) /\ refs' = [refs EXCEPT ![c] = 1]
      /\ UNCHANGED <<list, jobs, freeing, freed, leaked>>
  BY DEF server_client_create
<1>2. /\ clients \in Seq(Clients) /\ list \in [Queues -> Seq(Items)] /\ leaked \in [Clients -> Nat]
      /\ freed \subseteq Clients
      /\ IsFiniteSet(jobs) /\ Homed(list) /\ refs \in [Clients -> Nat] /\ freeing \in [Clients -> 0 .. 1]
  BY DEF QInv, Types, RInv
<1>3. ToSet(clients') = ToSet(clients) \cup {c} BY <1>1, <1>2, AppendSet
<1>4. ASSUME NEW b \in Clients
      PROVE  /\ refs'[b] = AllUses(list', clients', jobs', b) + leaked'[b]
             /\ freeing'[b] = 1 \/ b \in freed' => refs'[b] = 0
  <2> DEFINE i == ItemUses(list, b)
             j == JobUses(jobs, b)
             k == ListUses(clients, b)
             a == leaked[b]
  <2>1. i \in Nat /\ j \in Nat /\ k \in Nat /\ a \in Nat BY <1>2, UsesTypes
  <2>2. refs[b] = (k + i + j) + a /\ (freeing[b] = 1 \/ b \in freed => refs[b] = 0) BY DEF RInv, AllUses
  <2>3. AllUses(list', clients', jobs', b) = ListUses(clients', b) + i + j BY <1>1 DEF AllUses
  <2>4. CASE b = c
    <3>1. k = 0 /\ ListUses(clients', b) = 1 BY <1>1, <1>3, <2>4, ListUsesType
    <3>2. refs'[b] = 1 /\ refs[b] = 0 /\ leaked'[b] = a BY <1>1, <1>2, <2>4
    <3> HIDE DEF i, j, k, a
    <3>3. 1 = (1 + i + j) + a BY <2>1, <2>2, <3>1, <3>2
    <3>4. ~(freeing'[b] = 1 \/ b \in freed') BY <1>1, <2>4
    <3> QED BY <2>3, <3>1, <3>2, <3>3, <3>4
  <2>5. CASE b # c
    <3>1. ListUses(clients', b) = k BY <1>3, <2>5, ListUsesType
    <3>2. refs'[b] = refs[b] /\ leaked'[b] = a BY <1>1, <1>2, <2>5
    <3> HIDE DEF i, j, k, a
    <3> QED BY <1>1, <2>2, <2>3, <3>1, <3>2
  <2> QED BY <2>4, <2>5
<1>5. refs' \in [Clients -> Nat] /\ freeing' \in [Clients -> 0 .. 1] /\ Homed(list') /\ IsFiniteSet(jobs')
  BY <1>1, <1>2 DEF Homed
<1>6. \A b \in freed' : freeing'[b] = 0 BY <1>1 DEF RInv
<1> QED BY <1>4, <1>5, <1>6 DEF RInv, Homed

LEMMA RefsFree ==
  ASSUME QInv, QInv', RInv, NEW c \in Clients, server_client_free(c)
  PROVE  RInv'
<1>1. /\ freeing[c] > 0 /\ freeing' = [freeing EXCEPT ![c] = @ - 1]
      /\ freed' = IF refs[c] = 0 THEN freed \cup {c} ELSE freed
      /\ UNCHANGED <<list, clients, jobs, refs, leaked>>
  BY DEF server_client_free, qvars
<1>2. /\ freeing \in [Clients -> 0 .. 1] /\ freed \subseteq Clients /\ refs \in [Clients -> Nat]
      /\ \A b \in Clients : freeing[b] = 1 \/ b \in freed => refs[b] = 0
      /\ \A b \in freed : freeing[b] = 0
  BY DEF QInv, Types, RInv
<1>3. freeing[c] = 1 /\ refs[c] = 0 /\ freed' = freed \cup {c} BY <1>1, <1>2
<1>4. freeing' \in [Clients -> 0 .. 1] /\ freeing'[c] = 0 /\ \A b \in Clients : b # c => freeing'[b] = freeing[b]
  BY <1>1, <1>2, <1>3
<1>5. \A b \in Clients : freeing'[b] = 1 \/ b \in freed' => refs'[b] = 0 BY <1>1, <1>2, <1>3, <1>4
<1>6. \A b \in freed' : freeing'[b] = 0 BY <1>2, <1>3, <1>4
<1>7. /\ Homed(list') /\ IsFiniteSet(jobs') /\ refs' \in [Clients -> Nat]
      /\ \A b \in Clients : refs'[b] = AllUses(list', clients', jobs', b) + leaked'[b]
  BY <1>1 DEF RInv
<1> QED BY <1>4, <1>5, <1>6, <1>7 DEF RInv, Homed

LEMMA RefsSame ==
  ASSUME RInv, UNCHANGED <<list, clients, jobs, refs, freeing, freed, leaked>>
  PROVE  RInv'
BY DEF RInv, Homed, AllUses

LEMMA RefsLost ==
  ASSUME QInv, QInv', RInv, NEW c \in Clients, NEW attached \in BOOLEAN, server_client_lost(c, attached)
  PROVE  RInv'
<1> DEFINE dropped == RunsNoHooks(Global)
           t == IF attached /\ ~dropped THEN <<c>> ELSE <<>>
<1>1. /\ c \in ToSet(clients) /\ clients' = Only(clients, Clients \ {c}) /\ UNCHANGED <<jobs, freed, leaked>>
      /\ TakeAndDrop(t, <<c>>)
      /\ IF attached THEN notify_add(dropped, list, c) ELSE list' = list
  BY DEF server_client_lost
<1>2. /\ clients \in Seq(Clients) /\ list \in [Queues -> Seq(Items)] /\ Homed(list) /\ IsFiniteSet(jobs)
      /\ leaked \in [Clients -> Nat]
  BY DEF QInv, Types, RInv
<1>3. ToSet(clients') = ToSet(clients) \cap (Clients \ {c}) BY <1>1, <1>2, OnlySet
<1>4. PICK come : /\ Changes(list, list', come, <<>>)
                  /\ \A b \in Clients : Weight(come, b) = IF attached /\ ~dropped THEN One(c, b) ELSE 0
  <2>1. CASE attached
    <3> HIDE DEF dropped
    <3>1. notify_add(dropped, list, c) /\ c \in Clients \cup {None} BY <1>1, <2>1
    <3>2. PICK new : /\ Changes(list, list', new, <<>>)
                     /\ \A b \in Clients : Weight(new, b) = IF dropped THEN 0 ELSE One(c, b)
      BY <1>2, <3>1, NotifyChange
    <3>3. \A b \in Clients : Weight(new, b) = IF attached /\ ~dropped THEN One(c, b) ELSE 0 BY <2>1, <3>2
    <3> QED BY <3>2, <3>3
  <2>2. CASE ~attached
    <3>1. Changes(list, list', <<>>, <<>>) BY <1>1, <1>2, <2>2, NoChange
    <3>2. \A b \in Clients : Weight(<<>>, b) = 0 BY WeightEmpty
    <3> QED BY <2>2, <3>1, <3>2
  <2> QED BY <2>1, <2>2
<1> HIDE DEF dropped
<1>5. t \in Seq(Clients \cup {None}) /\ <<c>> \in Seq(Clients \cup {None})
  <2>1. <<>> \in Seq(Clients \cup {None}) /\ <<c>> \in Seq(Clients \cup {None}) OBVIOUS
  <2> QED BY <2>1
<1>6. \A b : Count(t, b) = (IF attached /\ ~dropped THEN One(c, b) ELSE 0) /\ Count(<<c>>, b) = One(c, b)
  BY CountEmpty, CountOne
<1> HIDE DEF t
<1>7. ASSUME NEW b \in Clients
      PROVE  /\ AllUses(list', clients', jobs', b) + leaked'[b] + Count(<<c>>, b)
                  = AllUses(list, clients, jobs, b) + leaked[b] + Count(t, b)
             /\ Count(t, b) > 0 => AllUses(list, clients, jobs, b) > 0
  <2> DEFINE i == ItemUses(list, b)
             i2 == ItemUses(list', b)
             j == JobUses(jobs, b)
             k == ListUses(clients, b)
             k2 == ListUses(clients', b)
             a == leaked[b]
             o == One(c, b)
             m == Count(t, b)
  <2>1. /\ i2 + Weight(<<>>, b) = i + Weight(come, b) /\ i2 \in Nat /\ i \in Nat /\ Weight(<<>>, b) = 0
        /\ Weight(come, b) = m
    BY <1>4, <1>6, WeightEmpty DEF Changes
  <2>2. m \in Nat /\ o \in Nat /\ (m > 0 => b = c)
    <3>1. o \in Nat /\ (o > 0 => b = c) BY NoneOne
    <3>2. m = o \/ m = 0 BY <1>6
    <3> QED BY <3>1, <3>2
  <2>3. j \in Nat /\ a \in Nat BY <1>2, JobUsesType
  <2>4. k \in Nat /\ k2 \in Nat /\ k = k2 + o
    <3>1. (b \in ToSet(clients')) <=> (b \in ToSet(clients) /\ b # c) BY <1>3
    <3>2. k = (IF b \in ToSet(clients) THEN 1 ELSE 0) /\ k2 = (IF b \in ToSet(clients') THEN 1 ELSE 0)
      BY ListUsesType
    <3>3. o = IF b = c THEN 1 ELSE 0 BY DEF One
    <3> QED BY <1>1, <3>1, <3>2, <3>3
  <2>5. AllUses(list', clients', jobs', b) = k2 + i2 + j /\ AllUses(list, clients, jobs, b) = k + i + j
    BY <1>1 DEF AllUses
  <2>6. leaked'[b] = a /\ Count(<<c>>, b) = o BY <1>1, <1>6
  <2>7. b = c => AllUses(list, clients, jobs, b) > 0 BY <1>1, Used
  <2> HIDE DEF i, i2, j, k, k2, a, o, m
  <2>8. i2 = i + m BY <2>1, <2>2
  <2>9. (k2 + i2 + j) + a + o = (k + i + j) + a + m BY <2>1, <2>2, <2>3, <2>4, <2>8
  <2> QED BY <2>2, <2>5, <2>6, <2>7, <2>9 DEF m, a
<1>8. Homed(list') /\ IsFiniteSet(jobs') /\ freed' = freed BY <1>1, <1>2, <1>4 DEF Changes
<1> QED BY <1>1, <1>5, <1>7, <1>8, Balance

-----------------------------------------------------------------------------
(* The theorems. *)

LEMMA RefsStart == Init => RInv
<1> SUFFICES ASSUME Init PROVE RInv OBVIOUS
<1>1. /\ clients = <<>> /\ list = [q \in Queues |-> <<>>] /\ jobs = {} /\ refs = [c \in Clients |-> 0]
      /\ freeing = [c \in Clients |-> 0] /\ freed = {} /\ leaked = [c \in Clients |-> 0]
  BY DEF Init
<1>2. Homed(list)
  <2>1. \A q : <<>> \in Seq(Kept(q)) OBVIOUS
  <2> QED BY <1>1, <2>1 DEF Homed
<1>3. IsFiniteSet(jobs) BY <1>1, FS_EmptySet
<1>4. ASSUME NEW c \in Clients PROVE refs[c] = AllUses(list, clients, jobs, c) + leaked[c]
  <2>1. ListUses(clients, c) = 0
    <3>1. ToSet(clients) = {} BY <1>1, EmptyQueue
    <3> QED BY <3>1, ListUsesType
  <2>2. ASSUME NEW X PROVE Cardinality(Held(list, X)) = 0
    <3>1. \A q \in Queues : Where(list[q], X) = {} BY <1>1 DEF Where
    <3>2. \A q \in Queues : Spots(q, list[q], X) = {} BY <3>1 DEF Spots
    <3>3. Held(list, X) = {} BY <3>2 DEF Held
    <3> QED BY <3>3, FS_EmptySet
  <2>3. ItemUses(list, c) = 0 BY <2>2 DEF ItemUses
  <2>4. JobUses(jobs, c) = 0
    <3>1. {j \in jobs : j.client = c} = {} BY <1>1
    <3> QED BY <3>1, FS_EmptySet DEF JobUses
  <2> QED BY <1>1, <2>1, <2>3, <2>4 DEF AllUses
<1>5. refs \in [Clients -> Nat] /\ freeing \in [Clients -> 0 .. 1] BY <1>1
<1>6. \A c \in Clients : freeing[c] = 1 \/ c \in freed => refs[c] = 0 BY <1>1
<1> QED BY <1>1, <1>2, <1>3, <1>4, <1>5, <1>6 DEF RInv

LEMMA RefsCallback ==
  ASSUME QInv, QInv', RInv, CallbackStep
  PROVE  RInv'
<1>1. ASSUME NEW c \in Clients, \/ server_client_create(c) \/ server_client_dispatch_command(c)
                                \/ server_client_handle_key(c)
                                \/ \E a \in BOOLEAN : server_client_lost(c, a)
                                \/ server_client_free(c)
      PROVE  RInv'
  BY <1>1, RefsCreate, RefsDispatch, RefsKey, RefsLost, RefsFree
<1>2. CASE EventNotifies BY <1>2, RefsEvent
<1>3. ASSUME NEW j \in jobs, \/ cmd_if_shell_callback(j) \/ cmd_run_shell_callback(j)
                             \/ window_pane_input_callback(j) \/ window_pane_input_gone(j)
                             \/ cmd_run_shell_timer_fails(j)
      PROVE  RInv'
  <2>1. cmd_run_shell_callback(j) \/ window_pane_input_callback(j) => JobDone(j)
    BY DEF cmd_run_shell_callback, window_pane_input_callback
  <2> QED BY <1>3, <2>1, RefsIfShell, RefsJobDone, RefsInputGone, RefsTimerFails
<1> QED BY <1>1, <1>2, <1>3 DEF CallbackStep

LEMMA RefsFire ==
  ASSUME QInv, QInv', RInv, cur # None, Runnable(cur), FireStep
  PROVE  RInv'
<1>1. ASSUME NEW l \in Lent(Head(list[cur])), NEW set \in BOOLEAN,
             \/ CommandNormal(l, set) \/ CommandInput(l, set) \/ CommandError(None, set) \/ CommandError(l, set)
             \/ CommandInsert(l) \/ \E channel \in BOOLEAN : CommandWait(channel, l)
      PROVE  RInv'
  <2>1. CASE CommandNormal(l, set) BY <2>1, RefsNormal
  <2>2. CASE CommandInput(l, set) BY <2>2, RefsInput
  <2>3. CASE CommandError(None, set) BY <2>3, RefsFailed
  <2>4. CASE CommandError(l, set) BY <2>4, RefsFailed
  <2>5. CASE CommandInsert(l) BY <2>5, RefsInsert
  <2>6. ASSUME NEW channel \in BOOLEAN, CommandWait(channel, l) PROVE RInv' BY <2>6, RefsWait
  <2> QED BY <1>1, <2>1, <2>2, <2>3, <2>4, <2>5, <2>6
<1>2. ASSUME NEW tc \in ToSet(clients) \cup {None}, CommandBackground(tc) PROVE RInv' BY <1>2, RefsBackground
<1>3. CASE CommandNotify BY <1>3, RefsNotify
<1>4. ASSUME NEW q \in signals, CommandSignal(q) PROVE RInv' BY <1>4, RefsSignal
<1>5. ASSUME NEW set \in BOOLEAN, notify_callback(set) \/ server_client_key_callback(set) PROVE RInv'
  BY <1>5, RefsNotifyCallback, RefsKeyCallback
<1>6. CASE server_client_command_done BY <1>6, RefsDone
<1> QED BY <1>1, <1>2, <1>3, <1>4, <1>5, <1>6 DEF FireStep

LEMMA RefsStep == QInv /\ QInv' /\ RInv /\ [Next]_vars => RInv'
<1> SUFFICES ASSUME QInv, QInv', RInv, [Next]_vars PROVE RInv' OBVIOUS
<1>1. CASE CallbackStep BY <1>1, RefsCallback
<1>2. CASE server_loop BY <1>2, RefsSame DEF server_loop, qvars, clientvars
<1>3. CASE NextQueue BY <1>3, RefsSame DEF NextQueue, clientvars
<1>4. CASE RemoveFired BY <1>4, RefsFired
<1>5. CASE cur # None /\ Runnable(cur) /\ FireStep BY <1>5, RefsFire
<1>6. CASE UNCHANGED vars BY <1>6, RefsSame DEF vars
<1> QED BY <1>1, <1>2, <1>3, <1>4, <1>5, <1>6 DEF Next, LoopStep

LEMMA RefsInvariant == Spec => [](QInv /\ RInv)
<1>1. Init => QInv /\ RInv BY Start, RefsStart
<1>2. QInv /\ RInv /\ [Next]_vars => (QInv /\ RInv)' BY Step, RefsStep
<1> QED BY <1>1, <1>2, PTL DEF Spec

(* The types, the numbers of references and of pending server_client_free  *)
(* callbacks included: server_client_unref never takes a count below zero. *)
THEOREM TypeCorrect == Spec => []TypeOK
<1>1. QInv /\ RInv => TypeOK
  <2> SUFFICES ASSUME QInv, RInv PROVE TypeOK OBVIOUS
  <2>1. freeing \in [Clients -> Nat] BY DEF RInv
  <2> QED BY <2>1 DEF QInv, Types, RInv, TypeOK
<1> QED BY <1>1, RefsInvariant, PTL

(* RefsExact: the reference count of a client is the number of places that *)
(* point at it (CLIENTS, items, notifications, jobs) and what was leaked,  *)
(* whatever hooks, lent clients, removed groups and jobs did.              *)
THEOREM RefsExactHolds == Spec => []RefsExact
<1>1. QInv /\ RInv => RefsExact BY UsesIsAll DEF RInv, RefsExact
<1> QED BY <1>1, RefsInvariant, PTL

(* FreeIsSafe: server_client_free is scheduled at most once for a client,  *)
(* and from then on nothing points at it and its queue is empty, so        *)
(* cmdq_free does not abort.                                               *)
THEOREM FreeIsSafeHolds == Spec => []FreeIsSafe
<1>1. ASSUME QInv, RInv, NEW c \in Clients
      PROVE  /\ freeing[c] + Cardinality({c} \cap freed) <= 1
             /\ freeing[c] = 1 \/ c \in freed => Uses(c) = 0 /\ list[c] = <<>>
  <2>1. /\ freeing[c] \in 0 .. 1 /\ (c \in freed => freeing[c] = 0)
        /\ (freeing[c] = 1 \/ c \in freed => refs[c] = 0)
    BY <1>1 DEF RInv
  <2>2. Cardinality({c} \cap freed) = IF c \in freed THEN 1 ELSE 0
    <3>1. CASE c \in freed
      <4>1. {c} \cap freed = {c} BY <3>1
      <4> QED BY <3>1, <4>1, FS_Singleton
    <3>2. CASE c \notin freed
      <4>1. {c} \cap freed = {} BY <3>2
      <4> QED BY <3>2, <4>1, FS_EmptySet
    <3> QED BY <3>1, <3>2
  <2>3. refs[c] = 0 => Uses(c) = 0 /\ AllUses(list, clients, jobs, c) = 0
    <3>1. Uses(c) = AllUses(list, clients, jobs, c) BY <1>1, UsesIsAll
    <3>2. refs[c] = AllUses(list, clients, jobs, c) + leaked[c] /\ leaked[c] \in Nat
      BY <1>1 DEF RInv, QInv, Types
    <3>3. AllUses(list, clients, jobs, c) \in Nat BY <1>1, UsesTypes DEF RInv, QInv, Types
    <3> QED BY <3>1, <3>2, <3>3
  <2>4. list[c] # <<>> => AllUses(list, clients, jobs, c) > 0
    <3> SUFFICES ASSUME list[c] # <<>> PROVE AllUses(list, clients, jobs, c) > 0 OBVIOUS
    <3>1. c \in Queues BY QueuesFacts
    <3>2. Head(list[c]) \in Kept(c) /\ Head(list[c]) \in ToSet(list[c]) BY <1>1, <3>1, HeadHome
    <3>3. Head(list[c]).client = c BY <3>2 DEF Kept
    <3> QED BY <1>1, <3>1, <3>2, <3>3, Used
  <2> QED BY <2>1, <2>2, <2>3, <2>4
<1>2. QInv /\ RInv => FreeIsSafe BY <1>1 DEF FreeIsSafe
<1> QED BY <1>2, RefsInvariant, PTL

-----------------------------------------------------------------------------
(* Going to sleep. *)

(* A queue that server_loop may leave behind when it sleeps: it is empty   *)
(* or waits, or it is the global queue with nothing but notifications.     *)
Idle(q, l) ==
    (l # <<>> /\ ~Head(l).waiting) => q = Global /\ \A i \in DOMAIN l : l[i].what = "notify"

(* As long as no item ran in this pass, the queues visited in it are idle. *)
Visited == {q \in ToSet(clients) \cup {Global} : q \notin ToSet(todo) /\ q # cur}
SInv == cur # None /\ ~ran => \A q \in Visited : Idle(q, list[q])

(* A notification leaves the global queue idle.                            *)
LEMMA IdleAppend ==
  ASSUME NEW l \in Seq(Items), Idle(Global, l), NEW x \in Items, x.what = "notify"
  PROVE  Idle(Global, Append(l, x))
<1> DEFINE m == Append(l, x)
<1>1. /\ Len(m) = Len(l) + 1 /\ Len(l) \in Nat /\ DOMAIN m = 1 .. Len(l) + 1 /\ DOMAIN l = 1 .. Len(l)
      /\ \A i \in 1 .. Len(l) : m[i] = l[i]
      /\ m[Len(l) + 1] = x
  BY AppendProperties, LenProperties
<1>2. l # <<>> => Head(m) = Head(l) /\ Len(l) > 0 BY EmptySeq
<1> SUFFICES ASSUME ~Head(m).waiting, NEW i \in DOMAIN m PROVE m[i].what = "notify" BY DEF Idle
<1> HIDE DEF m
<1>3. CASE l = <<>>
  <2>1. Len(l) = 0 BY <1>3
  <2> QED BY <1>1, <2>1
<1>4. CASE l # <<>>
  <2>1. \A k \in DOMAIN l : l[k].what = "notify" BY <1>2, <1>4 DEF Idle
  <2> QED BY <1>1, <2>1
<1> QED BY <1>3, <1>4

(* A step of the loop that runs no item to its end changes the queue that  *)
(* runs, and adds at most a notification to another.                       *)
LEMMA SameVisited ==
  ASSUME QInv, SInv, UNCHANGED <<clients, todo, cur>>, ran' = ran,
         \A q \in Queues : q # cur =>
            \/ list'[q] = list[q]
            \/ q = Global /\ \E x \in Items : x.what = "notify" /\ list'[q] = Append(list[q], x)
  PROVE  SInv'
<1> SUFFICES ASSUME cur # None, ~ran, NEW q \in Visited PROVE Idle(q, list'[q])
  BY DEF SInv, Visited
<1>1. q # cur /\ q \in Queues
  <2>1. ToSet(clients) \subseteq Clients BY SetOfQueue DEF QInv, Types
  <2> QED BY <2>1, QueuesFacts DEF Visited
<1>2. Idle(q, list[q]) BY DEF SInv
<1>3. list[q] \in Seq(Items) BY <1>1, QInvTypes
<1> QED BY <1>1, <1>2, <1>3, IdleAppend

(* Running an item: only one that waits leaves ran as it was.               *)
LEMMA SleepFire ==
  ASSUME QInv, SInv, cur # None, Runnable(cur), FireStep
  PROVE  SInv'
<1>1. cur \in Queues /\ list \in [Queues -> Seq(Items)] BY RunFacts, QInvTypes
<1>2. ASSUME ran' = TRUE PROVE SInv' BY <1>2 DEF SInv
<1>3. ASSUME NEW L, Goes(L, FALSE) PROVE SInv'
  <2>1. ran' = TRUE BY <1>3 DEF Goes
  <2> QED BY <1>2, <2>1
<1>4. ASSUME NEW l, NEW channel \in BOOLEAN, CommandWait(channel, l) PROVE SInv'
  <2>1. PICK w : Goes([list EXCEPT ![cur] = w], TRUE) BY <1>4 DEF CommandWait
  <2>2. /\ UNCHANGED <<clients, todo, cur>> /\ list' = [list EXCEPT ![cur] = w] /\ ran' = (ran \/ FALSE)
    BY <2>1 DEF Goes
  <2>3. ran \in BOOLEAN BY DEF QInv, Types
  <2> QED BY <1>1, <2>2, <2>3, SameVisited
<1>5. ASSUME NEW l, NEW set, CommandInput(l, set) PROVE SInv'
  <2> DEFINE item == Head(list[cur])
             hook == Hook(item, set, lists + 2, l)
             waiter == [item EXCEPT !.fired = TRUE, !.waiting = TRUE]
             w == <<waiter>> \o hook \o Tail(list[cur])
             M == [list EXCEPT ![cur] = w]
  <2>1. PICK dropped : notify_add(dropped, M, None) BY <1>5 DEF CommandInput
  <2>2. /\ UNCHANGED <<clients, todo, cur>> /\ ran' = (ran \/ FALSE) BY <1>5 DEF CommandInput, Goes
  <2>3. ran \in BOOLEAN BY DEF QInv, Types
  <2> HIDE DEF w
  <2>4. ASSUME NEW q \in Queues, q # cur
        PROVE  \/ list'[q] = list[q]
               \/ q = Global /\ \E x \in Items : x.what = "notify" /\ list'[q] = Append(list[q], x)
    <3> DEFINE x == cmdq_get_callback("notify", None, None)
    <3>1. x \in Items BY DEF cmdq_get_callback, Items
    <3>2. x.what = "notify" BY Zenon DEF cmdq_get_callback
    <3>3. list' = IF dropped THEN M ELSE [M EXCEPT ![Global] = Append(@, x)] BY <2>1 DEF notify_add
    <3>4. M[q] = list[q] /\ DOMAIN M = Queues BY <1>1, <2>4
    <3> HIDE DEF x, M
    <3> QED BY <3>1, <3>2, <3>3, <3>4, QueuesFacts
  <2> QED BY <2>2, <2>3, <2>4, SameVisited
<1>6. ASSUME NEW l, NEW set,
             \/ CommandNormal(l, set) \/ CommandError(l, set) \/ CommandInsert(l)
      PROVE SInv'
  BY <1>3, <1>6 DEF CommandNormal, CommandError, CommandInsert
<1>7. ASSUME NEW tc, CommandBackground(tc) PROVE SInv' BY <1>3, <1>7 DEF CommandBackground
<1>8. CASE CommandNotify BY <1>3, <1>8 DEF CommandNotify
<1>9. ASSUME NEW q, CommandSignal(q) PROVE SInv' BY <1>3, <1>9 DEF CommandSignal
<1>10. ASSUME NEW set, notify_callback(set) \/ server_client_key_callback(set) PROVE SInv'
  BY <1>3, <1>10 DEF notify_callback, server_client_key_callback
<1>11. CASE server_client_command_done BY <1>3, <1>11 DEF server_client_command_done
<1> QED BY <1>4, <1>5, <1>6, <1>7, <1>8, <1>9, <1>10, <1>11 DEF FireStep

(* Every step keeps the visited queues idle.                                *)
LEMMA SleepStep == QInv /\ SInv /\ [Next]_vars => SInv'
<1> SUFFICES ASSUME QInv, SInv, [Next]_vars PROVE SInv' OBVIOUS
<1>1. CASE CallbackStep
  <2>1. cur' = None
    BY ZenonT(60), <1>1 DEF CallbackStep, server_client_create, server_client_dispatch_command, server_client_handle_key,
       server_client_lost, server_client_free, EventNotifies, cmd_if_shell_callback, cmd_run_shell_callback,
       window_pane_input_callback, window_pane_input_gone, cmd_run_shell_timer_fails, JobDone, loopvars
  <2> QED BY ZenonT(60), <2>1 DEF SInv
<1>2. CASE server_loop
  <2>1. cur' = Global /\ todo' = clients /\ clients' = clients BY <1>2 DEF server_loop, qvars
  <2> QED BY <2>1 DEF SInv, Visited
<1>3. CASE NextQueue
  <2>1. cur # None /\ ~Runnable(cur) /\ UNCHANGED <<clients, list>> BY <1>3 DEF NextQueue
  <2>2. CASE todo # <<>> /\ cur' = Head(todo) /\ todo' = Tail(todo) /\ UNCHANGED ran
    <3>1. ToSet(todo) = ToSet(todo') \cup {cur'} BY <2>2, TailSet DEF QInv, Types
    <3>2. Idle(cur, list[cur]) BY <2>1 DEF Idle, Runnable
    <3>3. \A q \in Visited' : q \in Visited \/ q = cur BY <2>1, <3>1 DEF Visited
    <3> QED BY <2>1, <2>2, <3>2, <3>3 DEF SInv
  <2>3. CASE cur' = Global /\ todo' = clients BY <2>1, <2>3 DEF SInv, Visited
  <2>4. CASE cur' = None BY <2>4 DEF SInv
  <2> QED BY <1>3, <2>2, <2>3, <2>4 DEF NextQueue
<1>4. CASE RemoveFired
  <2>1. UNCHANGED <<clients, todo, cur, ran>> /\ list' = [list EXCEPT ![cur] = Tail(@)]
    BY <1>4 DEF RemoveFired, loopvars
  <2>2. list \in [Queues -> Seq(Items)] BY QInvTypes
  <2> QED BY <2>1, <2>2, SameVisited
<1>5. CASE cur # None /\ Runnable(cur) /\ FireStep BY <1>5, SleepFire
<1>6. CASE UNCHANGED vars BY <1>6 DEF vars, SInv, Visited
<1> QED BY <1>1, <1>2, <1>3, <1>4, <1>5, <1>6 DEF Next, LoopStep

(* SleepsWhenIdle: server_loop goes back to the event loop only when every *)
(* queue of a live client and the global one is empty or waits, except for *)
(* notifications of commands that wait.                                    *)
THEOREM SleepsWhenIdleHolds == Spec => SleepsWhenIdle
<1>1. Init => SInv BY DEF Init, SInv
<1>2. ASSUME QInv, SInv, [Next]_vars, cur # None, cur' = None,
             NEW q \in ToSet(clients) \cup {Global}, Runnable(q)
      PROVE  q = Global /\ \A i \in DOMAIN list[q] : list[q][i].what = "notify"
  <2>1. NextQueue
    <3>1. ~CallbackStep
      BY <1>2 DEF CallbackStep, server_client_create, server_client_dispatch_command, server_client_handle_key,
         server_client_lost, server_client_free, EventNotifies, cmd_if_shell_callback, cmd_run_shell_callback,
         window_pane_input_callback, window_pane_input_gone, cmd_run_shell_timer_fails
    <3>2. ~server_loop BY <1>2 DEF server_loop
    <3>3. ~RemoveFired BY <1>2 DEF RemoveFired, loopvars
    <3>4. ~FireStep
      BY <1>2 DEF FireStep, CommandNormal, CommandInput, CommandError, CommandInsert, CommandWait,
         CommandBackground, CommandNotify, CommandSignal, notify_callback, server_client_key_callback,
         server_client_command_done, Goes
    <3>5. ~UNCHANGED vars BY <1>2 DEF vars
    <3> QED BY <1>2, <3>1, <3>2, <3>3, <3>4, <3>5 DEF Next, LoopStep
  <2>2. ~Runnable(cur) /\ todo = <<>> /\ ~ran
    <3>1. todo \in Seq(Clients) /\ Global # None /\ None \notin Clients BY <1>2, Distinct DEF QInv, Types
    <3>2. todo # <<>> => Head(todo) # None BY <3>1, HeadTailProperties
    <3> QED BY <1>2, <2>1, <3>1, <3>2 DEF NextQueue
  <2>3. q \in Visited BY <1>2, <2>2, EmptyQueue DEF Visited
  <2> QED BY <1>2, <2>2, <2>3 DEF SInv, Idle, Runnable
<1>3. QInv /\ SInv /\ [Next]_vars =>
         [cur # None /\ cur' = None =>
            \A q \in ToSet(clients) \cup {Global} : Runnable(q) =>
                q = Global /\ \A i \in DOMAIN list[q] : list[q][i].what = "notify"]_vars
  BY <1>2
<1> QED BY <1>1, <1>3, Invariant, SleepStep, PTL DEF Spec, SleepsWhenIdle
=============================================================================
