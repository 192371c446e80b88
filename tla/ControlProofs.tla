---------------------------- MODULE ControlProofs ---------------------------
(***************************************************************************)
(* Proofs about the lines and output of control mode (ControlMode), for    *)
(* any number of panes and bytes and every size of the buffers.            *)
(*                                                                         *)
(* Always holds whatever happens, Clean until the first fault; ControlInv  *)
(* is inductive and says that the blocks of a pane cover what is queued    *)
(* for it.  Under it each step is one of ControlPromise, whose sets of     *)
(* what waits are read off the queue by Waits and Held.                    *)
(***************************************************************************)
EXTENDS ControlMode, QueueLemmas

-----------------------------------------------------------------------------
(* Which entries of a queue are in front of which others.                  *)
LEMMA AheadIs ==
  ASSUME NEW s
  PROVE  /\ \A b, c : <<b, c>> \in Ahead(s) <=> \E i, j \in DOMAIN s : i < j /\ b = s[i] /\ c = s[j]
         /\ \A z \in Ahead(s) : \E b, c \in ToSet(s) : z = <<b, c>>
<1>1. \A z : z \in Ahead(s) <=> \E x \in (DOMAIN s) \X (DOMAIN s) : x[1] < x[2] /\ z = <<s[x[1]], s[x[2]]>>
  BY DEF Ahead
<1>2. ASSUME NEW z \in Ahead(s) PROVE \E i, j \in DOMAIN s : i < j /\ z = <<s[i], s[j]>>
  <2>1. PICK x \in (DOMAIN s) \X (DOMAIN s) : x[1] < x[2] /\ z = <<s[x[1]], s[x[2]]>> BY <1>1
  <2>2. x[1] \in DOMAIN s /\ x[2] \in DOMAIN s BY <2>1
  <2> QED BY <2>1, <2>2
<1>3. ASSUME NEW i \in DOMAIN s, NEW j \in DOMAIN s, i < j PROVE <<s[i], s[j]>> \in Ahead(s)
  <2>1. <<i, j>> \in (DOMAIN s) \X (DOMAIN s) /\ <<i, j>>[1] = i /\ <<i, j>>[2] = j OBVIOUS
  <2> QED BY <1>1, <1>3, <2>1
<1>4. \A i \in DOMAIN s : s[i] \in ToSet(s) BY DEF ToSet
<1>5. ASSUME NEW b, NEW c, <<b, c>> \in Ahead(s) PROVE \E i, j \in DOMAIN s : i < j /\ b = s[i] /\ c = s[j]
  <2>1. PICK i, j \in DOMAIN s : i < j /\ <<b, c>> = <<s[i], s[j]>> BY <1>2, <1>5
  <2> QED BY <2>1
<1> QED BY <1>2, <1>3, <1>4, <1>5

LEMMA AheadAt ==
  ASSUME NEW s, NEW n, DOMAIN s = 1 .. n, NEW b, NEW c
  PROVE  <<b, c>> \in Ahead(s) <=> \E i, j \in 1 .. n : i < j /\ b = s[i] /\ c = s[j]
<1>1. <<b, c>> \in Ahead(s) <=> \E i, j \in DOMAIN s : i < j /\ b = s[i] /\ c = s[j] BY ONLY AheadIs
<1> QED BY <1>1

(* An append puts the entry behind all the others.                         *)
LEMMA AheadAppend ==
  ASSUME NEW T, NEW s \in Seq(T), NEW x \in T
  PROVE  \A b, c : <<b, c>> \in Ahead(Append(s, x)) <=> <<b, c>> \in Ahead(s) \/ (b \in ToSet(s) /\ c = x)
<1> TAKE b, c
<1> DEFINE n == Len(s)
           t == Append(s, x)
<1>1. n \in Nat /\ DOMAIN s = 1 .. n /\ DOMAIN t = 1 .. n + 1 /\ t[n + 1] = x
      /\ \A i \in 1 .. n : t[i] = s[i]
  OBVIOUS
<1> HIDE DEF n, t
<1>2. ASSUME NEW i \in 1 .. n + 1, NEW j \in 1 .. n + 1, i < j, b = t[i], c = t[j]
      PROVE  <<b, c>> \in Ahead(s) \/ (b \in ToSet(s) /\ c = x)
  <2>1. i \in 1 .. n /\ (j \in 1 .. n \/ j = n + 1) BY <1>1, <1>2
  <2>2. b = s[i] /\ b \in ToSet(s) BY <1>1, <1>2, <2>1 DEF ToSet
  <2>3. CASE j = n + 1 BY <1>1, <1>2, <2>2, <2>3
  <2>4. CASE j \in 1 .. n
    <3>1. c = s[j] BY <1>1, <1>2, <2>4
    <3> QED BY <1>1, <1>2, <2>1, <2>2, <2>4, <3>1, AheadIs
  <2> QED BY <2>1, <2>3, <2>4
<1>3. ASSUME NEW i \in 1 .. n, NEW j \in 1 .. n, i < j, b = s[i], c = s[j]
      PROVE  <<b, c>> \in Ahead(t)
  <2>1. i \in 1 .. n + 1 /\ j \in 1 .. n + 1 /\ b = t[i] /\ c = t[j] BY <1>1, <1>3
  <2> QED BY <1>1, <1>3, <2>1, AheadIs
<1>4. ASSUME NEW i \in 1 .. n, b = s[i], c = x
      PROVE  <<b, c>> \in Ahead(t)
  <2>1. i \in 1 .. n + 1 /\ n + 1 \in 1 .. n + 1 /\ i < n + 1 /\ b = t[i] /\ c = t[n + 1] BY <1>1, <1>4
  <2> QED BY <1>1, <2>1, AheadIs
<1>5. \A y : y \in ToSet(s) <=> \E i \in 1 .. n : y = s[i] BY <1>1 DEF ToSet
<1>6. <<b, c>> \in Ahead(s) <=> \E i, j \in 1 .. n : i < j /\ b = s[i] /\ c = s[j]
  <2>1. <<b, c>> \in Ahead(s) <=> \E i, j \in DOMAIN s : i < j /\ b = s[i] /\ c = s[j] BY ONLY AheadIs
  <2> QED BY <1>1, <2>1
<1>7. <<b, c>> \in Ahead(t) <=> \E i, j \in 1 .. n + 1 : i < j /\ b = t[i] /\ c = t[j]
  <2>1. <<b, c>> \in Ahead(t) <=> \E i, j \in DOMAIN t : i < j /\ b = t[i] /\ c = t[j] BY ONLY AheadIs
  <2> QED BY <1>1, <2>1
<1> QED BY <1>2, <1>3, <1>4, <1>5, <1>6, <1>7 DEF t

(* The head is in front of all the others.                                 *)
LEMMA AheadTail ==
  ASSUME NEW T, NEW s \in Seq(T), s # <<>>
  PROVE  \A b, c : <<b, c>> \in Ahead(s) <=> <<b, c>> \in Ahead(Tail(s)) \/ (b = Head(s) /\ c \in ToSet(Tail(s)))
<1> TAKE b, c
<1> DEFINE n == Len(s) - 1
           t == Tail(s)
<1>1. n \in Nat /\ DOMAIN s = 1 .. n + 1 /\ DOMAIN t = 1 .. n /\ s[1] = Head(s)
      /\ \A i \in 1 .. n : t[i] = s[i + 1]
  OBVIOUS
<1> HIDE DEF n, t
<1>2. ASSUME NEW i \in 1 .. n + 1, NEW j \in 1 .. n + 1, i < j, b = s[i], c = s[j]
      PROVE  <<b, c>> \in Ahead(t) \/ (b = Head(s) /\ c \in ToSet(t))
  <2>1. j - 1 \in 1 .. n /\ (j - 1) + 1 = j /\ (i = 1 \/ (i - 1 \in 1 .. n /\ (i - 1) + 1 = i)) /\ i - 1 < j - 1
    BY <1>1, <1>2
  <2>2. c = t[j - 1] /\ c \in ToSet(t) BY <1>1, <1>2, <2>1 DEF ToSet
  <2>3. CASE i = 1 BY <1>1, <1>2, <2>2, <2>3
  <2>4. CASE i - 1 \in 1 .. n /\ (i - 1) + 1 = i
    <3>1. b = t[i - 1] BY <1>1, <1>2, <2>4
    <3> QED BY <1>1, <2>1, <2>2, <2>4, <3>1, AheadIs
  <2> QED BY <2>1, <2>3, <2>4
<1>3. ASSUME NEW i \in 1 .. n, NEW j \in 1 .. n, i < j, b = t[i], c = t[j]
      PROVE  <<b, c>> \in Ahead(s)
  <2>1. i + 1 \in 1 .. n + 1 /\ j + 1 \in 1 .. n + 1 /\ b = s[i + 1] /\ c = s[j + 1] /\ i + 1 < j + 1 BY <1>1, <1>3
  <2> QED BY <1>1, <2>1, AheadIs
<1>4. ASSUME NEW j \in 1 .. n, c = t[j], b = Head(s)
      PROVE  <<b, c>> \in Ahead(s)
  <2>1. 1 \in 1 .. n + 1 /\ j + 1 \in 1 .. n + 1 /\ b = s[1] /\ c = s[j + 1] /\ 1 < j + 1 BY <1>1, <1>4
  <2> QED BY <1>1, <2>1, AheadIs
<1>5. c \in ToSet(t) <=> \E j \in 1 .. n : c = t[j] BY <1>1 DEF ToSet
<1>6. <<b, c>> \in Ahead(t) <=> \E i, j \in 1 .. n : i < j /\ b = t[i] /\ c = t[j]
  <2>1. <<b, c>> \in Ahead(t) <=> \E i, j \in DOMAIN t : i < j /\ b = t[i] /\ c = t[j] BY ONLY AheadIs
  <2> QED BY <1>1, <2>1
<1>7. <<b, c>> \in Ahead(s) <=> \E i, j \in 1 .. n + 1 : i < j /\ b = s[i] /\ c = s[j]
  <2>1. <<b, c>> \in Ahead(s) <=> \E i, j \in DOMAIN s : i < j /\ b = s[i] /\ c = s[j] BY ONLY AheadIs
  <2> QED BY <1>1, <2>1
<1> QED BY <1>2, <1>3, <1>4, <1>5, <1>6, <1>7 DEF t

(* A queue of distinct entries from which some are taken.                  *)
LEMMA AheadSelection ==
  ASSUME NEW T, NEW s \in Seq(T), NEW t \in Seq(T), NEW K, IsInjective(s), ToSet(t) = K,
         NEW g \in [1 .. Len(t) -> 1 .. Len(s)],
         \A i \in 1 .. Len(t) : t[i] = s[g[i]],
         \A i, j \in 1 .. Len(t) : i < j => g[i] < g[j]
  PROVE  /\ IsInjective(t)
         /\ \A b, c : <<b, c>> \in Ahead(t) <=> <<b, c>> \in Ahead(s) /\ b \in K /\ c \in K
<1>1. /\ Len(s) \in Nat /\ DOMAIN s = 1 .. Len(s)
      /\ Len(t) \in Nat /\ DOMAIN t = 1 .. Len(t)
  OBVIOUS
<1>2. \A i, j \in 1 .. Len(s) : s[i] = s[j] => i = j BY <1>1 DEF IsInjective
<1>3. \A i, j \in 1 .. Len(t) : i < j \/ i = j \/ j < i BY <1>1
<1>4. \A i \in 1 .. Len(t) : g[i] \in 1 .. Len(s) OBVIOUS
<1>5. \A i, j \in 1 .. Len(t) : g[i] = g[j] => i = j
  <2> TAKE i, j \in 1 .. Len(t)
  <2>1. i \in Nat /\ j \in Nat /\ g[i] \in Nat /\ g[j] \in Nat BY <1>1, <1>4
  <2> QED BY <1>3, <2>1
<1>6. IsInjective(t) BY <1>1, <1>2, <1>4, <1>5 DEF IsInjective
<1>7. \A x : x \in K <=> \E i \in 1 .. Len(t) : x = t[i] BY <1>1 DEF ToSet
<1>8. ASSUME NEW b, NEW c, <<b, c>> \in Ahead(t)
      PROVE  <<b, c>> \in Ahead(s) /\ b \in K /\ c \in K
  <2>1. PICK i, j \in 1 .. Len(t) : i < j /\ b = t[i] /\ c = t[j] BY <1>1, <1>8, AheadAt
  <2>2. g[i] \in DOMAIN s /\ g[j] \in DOMAIN s /\ g[i] < g[j] /\ b = s[g[i]] /\ c = s[g[j]] BY <1>1, <1>4, <2>1
  <2> QED BY <1>7, <2>1, <2>2, AheadIs
<1>9. ASSUME NEW b \in K, NEW c \in K, <<b, c>> \in Ahead(s)
      PROVE  <<b, c>> \in Ahead(t)
  <2>1. PICK i, j \in 1 .. Len(s) : i < j /\ b = s[i] /\ c = s[j] BY <1>1, <1>9, AheadAt
  <2>2. PICK k, m \in 1 .. Len(t) : b = t[k] /\ c = t[m] BY <1>7
  <2>3. i = g[k] /\ j = g[m]
    <3>1. s[i] = s[g[k]] /\ s[j] = s[g[m]] BY <2>1, <2>2
    <3>2. g[k] \in 1 .. Len(s) /\ g[m] \in 1 .. Len(s) BY <1>4
    <3> QED BY <1>2, <3>1, <3>2
  <2>4. k < m
    <3>1. ~(m < k) /\ k # m
      <4>1. g[k] \in Nat /\ g[m] \in Nat /\ g[k] < g[m] BY <1>1, <1>4, <2>1, <2>3
      <4>2. ~(g[m] < g[k]) BY <4>1
      <4> QED BY <4>1, <4>2
    <3> QED BY <1>3, <3>1
  <2> QED BY <1>1, <2>2, <2>4, AheadIs
<1> QED BY <1>6, <1>8, <1>9

LEMMA AheadOnly ==
  ASSUME NEW T, NEW s \in Seq(T), NEW S, IsInjective(s)
  PROVE  /\ Only(s, S) \in Seq(T) /\ ToSet(Only(s, S)) = ToSet(s) \cap S
         /\ IsInjective(Only(s, S))
         /\ \A b, c : <<b, c>> \in Ahead(Only(s, S)) <=> <<b, c>> \in Ahead(s) /\ b \in S /\ c \in S
<1> DEFINE t == Only(s, S)
           K == ToSet(s) \cap S
<1>1. t \in Seq(T) /\ ToSet(t) = K BY OnlySet
<1>2. PICK g \in [1 .. Len(t) -> 1 .. Len(s)] :
            /\ \A i \in 1 .. Len(t) : t[i] = s[g[i]]
            /\ \A i, j \in 1 .. Len(t) : i < j => g[i] < g[j]
  BY OnlyOrder
<1>3. \A b, c : <<b, c>> \in Ahead(s) => b \in ToSet(s) /\ c \in ToSet(s)
  BY AheadIs DEF ToSet
<1> HIDE DEF t, K
<1>4. IsInjective(t) /\ \A b, c : <<b, c>> \in Ahead(t) <=> <<b, c>> \in Ahead(s) /\ b \in K /\ c \in K
  <2>1. s \in Seq(T) /\ t \in Seq(T) /\ IsInjective(s) /\ ToSet(t) = K /\ g \in [1 .. Len(t) -> 1 .. Len(s)]
    BY <1>1, <1>2
  <2>2. /\ \A i \in 1 .. Len(t) : t[i] = s[g[i]]
        /\ \A i, j \in 1 .. Len(t) : i < j => g[i] < g[j]
    BY <1>2
  <2> QED BY ONLY SMTT(30), <2>1, <2>2, AheadSelection
<1> QED BY <1>1, <1>3, <1>4 DEF t, K

(* An entry is removed.                                                    *)
LEMMA AheadRemove ==
  ASSUME NEW T, NEW s \in Seq(T), NEW i \in DOMAIN s, IsInjective(s)
  PROVE  /\ RemoveAt(s, i) \in Seq(T) /\ ToSet(RemoveAt(s, i)) = ToSet(s) \ {s[i]}
         /\ IsInjective(RemoveAt(s, i))
         /\ \A b, c : <<b, c>> \in Ahead(RemoveAt(s, i)) <=> <<b, c>> \in Ahead(s) /\ b # s[i] /\ c # s[i]
<1> DEFINE t == RemoveAt(s, i)
           n == Len(s) - 1
           K == ToSet(s) \ {s[i]}
           g == [k \in 1 .. Len(t) |-> IF k < i THEN k ELSE k + 1]
<1>1. Len(s) \in Nat /\ DOMAIN s = 1 .. Len(s) /\ i \in 1 .. Len(s) /\ n \in Nat /\ Len(s) = n + 1 OBVIOUS
<1>2. /\ SubSeq(s, 1, i - 1) \in Seq(T) /\ Len(SubSeq(s, 1, i - 1)) = i - 1
      /\ \A k \in 1 .. i - 1 : SubSeq(s, 1, i - 1)[k] = s[k]
  BY <1>1, SubSeqProperties
<1>3. /\ SubSeq(s, i + 1, Len(s)) \in Seq(T) /\ Len(SubSeq(s, i + 1, Len(s))) = Len(s) - i
      /\ \A k \in 1 .. Len(s) - i : SubSeq(s, i + 1, Len(s))[k] = s[i + k]
  BY <1>1, SubSeqProperties
<1>4. t \in Seq(T) /\ Len(t) = n /\ \A k \in 1 .. n : t[k] = IF k < i THEN s[k] ELSE s[k + 1]
  <2> DEFINE u == SubSeq(s, 1, i - 1)
             v == SubSeq(s, i + 1, Len(s))
  <2>1. t = u \o v BY DEF RemoveAt
  <2>2. Len(u) + Len(v) = n /\ Len(u) = i - 1 /\ Len(v) = Len(s) - i BY <1>1, <1>2, <1>3
  <2>3. u \in Seq(T) /\ v \in Seq(T) BY <1>2, <1>3
  <2>4. /\ \A k \in 1 .. i - 1 : u[k] = s[k]
        /\ \A k \in 1 .. Len(s) - i : v[k] = s[i + k]
    BY <1>2, <1>3
  <2> HIDE DEF u, v
  <2>5. t \in Seq(T) /\ Len(t) = Len(u) + Len(v) /\ DOMAIN t = 1 .. Len(u) + Len(v)
        /\ \A k \in 1 .. Len(u) + Len(v) : t[k] = IF k <= Len(u) THEN u[k] ELSE v[k - Len(u)]
    BY <2>1, <2>3
  <2> HIDE DEF t, n
  <2>6. ASSUME NEW k \in 1 .. n PROVE t[k] = IF k < i THEN s[k] ELSE s[k + 1]
    <3>1. CASE k < i
      <4>1. k \in 1 .. i - 1 /\ k <= Len(u) BY <1>1, <2>2, <3>1
      <4> QED BY <2>2, <2>4, <2>5, <3>1, <4>1
    <3>2. CASE ~(k < i)
      <4>1. k - Len(u) \in 1 .. Len(s) - i /\ ~(k <= Len(u)) /\ i + (k - Len(u)) = k + 1 BY <1>1, <2>2, <3>2
      <4> QED BY <2>2, <2>4, <2>5, <3>2, <4>1
    <3> QED BY <3>1, <3>2
  <2> QED BY <2>2, <2>5, <2>6
<1>5. /\ \A k \in 1 .. n : t[k] = s[g[k]] /\ g[k] \in 1 .. Len(s) /\ g[k] # i
      /\ \A k, m \in 1 .. n : k < m => g[k] < g[m]
      /\ \A k \in 1 .. n + 1 : k < i => k \in 1 .. n /\ g[k] = k
      /\ \A k \in 1 .. n + 1 : k > i => k - 1 \in 1 .. n /\ g[k - 1] = k
  BY <1>1, <1>4
<1>6. g \in [1 .. Len(t) -> 1 .. Len(s)] BY <1>4, <1>5
<1> HIDE DEF t, g, n
<1>7. \A k, m \in 1 .. Len(s) : s[k] = s[m] => k = m BY <1>1 DEF IsInjective
<1>8. ToSet(t) = K
  <2>1. ASSUME NEW x \in ToSet(t) PROVE x \in K
    <3>1. PICK k \in 1 .. n : x = t[k] BY <1>4, <2>1 DEF ToSet
    <3> QED BY <1>1, <1>5, <1>7, <3>1 DEF ToSet
  <2>2. ASSUME NEW x \in K PROVE x \in ToSet(t)
    <3>1. PICK k \in 1 .. n + 1 : x = s[k] /\ k # i BY <1>1, <2>2 DEF ToSet
    <3>2. k < i \/ k > i BY <1>1, <3>1
    <3>3. DOMAIN t = 1 .. n BY <1>4
    <3> QED BY <1>5, <3>1, <3>2, <3>3 DEF ToSet
  <2> QED BY <2>1, <2>2
<1>9. \A b, c : <<b, c>> \in Ahead(s) => b \in ToSet(s) /\ c \in ToSet(s)
  BY AheadIs DEF ToSet
<1> HIDE DEF K
<1>10. IsInjective(t) /\ \A b, c : <<b, c>> \in Ahead(t) <=> <<b, c>> \in Ahead(s) /\ b \in K /\ c \in K
  <2>1. Len(t) = n /\ t \in Seq(T) BY <1>4
  <2>2. \A k \in 1 .. Len(t) : t[k] = s[g[k]] BY <1>5, <2>1
  <2>3. \A k, m \in 1 .. Len(t) : k < m => g[k] < g[m] BY <1>5, <2>1
  <2> QED BY <1>6, <1>8, <2>1, <2>2, <2>3, AheadSelection
<1> QED BY <1>4, <1>8, <1>9, <1>10 DEF t, K

-----------------------------------------------------------------------------
(* The queue of lines and blocks.                                          *)
Block == [of : Panes \cup {Line}, size : Int, from : Int, old : BOOLEAN, orphan : BOOLEAN]

(* c was queued after b and does not repeat it.                            *)
Later(b, c) == b.from < c.from /\ (b.of # Line => b.from + b.size <= c.from)
Good(b, n) == ~b.orphan /\ IF b.of = Line THEN b.size = 0 /\ b.from \in 1 .. n ELSE b.size >= 1
Ordered(all) == \A b, c : <<b, c>> \in Ahead(all) /\ b.of = c.of => Later(b, c)
BlockQueue(all, n) == all \in Seq(Block) /\ Ordered(all) /\ \A b \in ToSet(all) : Good(b, n)

LEMMA InAhead ==
  ASSUME NEW s, NEW b, NEW c, <<b, c>> \in Ahead(s)
  PROVE  b \in ToSet(s) /\ c \in ToSet(s)
<1>1. PICK i, j \in DOMAIN s : i < j /\ b = s[i] /\ c = s[j] BY AheadIs
<1> QED BY <1>1 DEF ToSet

LEMMA BlocksTyped ==
  ASSUME NEW all \in Seq(Block)
  PROVE  \A b \in ToSet(all) : b \in Block
  BY DEF ToSet

LEMMA BlocksInjective ==
  ASSUME NEW all \in Seq(Block), Ordered(all)
  PROVE  IsInjective(all)
<1>1. SUFFICES ASSUME NEW i \in DOMAIN all, NEW j \in DOMAIN all, all[i] = all[j], i # j
               PROVE  FALSE
  BY DEF IsInjective
<1>2. i \in Int /\ j \in Int /\ all[i] \in Block OBVIOUS
<1>3. i < j \/ j < i BY <1>1, <1>2
<1>4. <<all[i], all[i]>> \in Ahead(all) BY <1>1, <1>3, AheadIs
<1>5. Later(all[i], all[i]) BY <1>4 DEF Ordered
<1> QED BY <1>2, <1>5 DEF Later, Block

(* Two blocks are not in the same place.                                   *)
LEMMA BlocksLinear ==
  ASSUME NEW all \in Seq(Block), NEW b \in ToSet(all), NEW c \in ToSet(all), b # c
  PROVE  <<b, c>> \in Ahead(all) \/ <<c, b>> \in Ahead(all)
<1>1. PICK i \in DOMAIN all : b = all[i] BY DEF ToSet
<1>2. PICK j \in DOMAIN all : c = all[j] BY DEF ToSet
<1>3. i \in Int /\ j \in Int /\ i # j BY <1>1, <1>2
<1>4. i < j \/ j < i BY <1>3
<1> QED BY <1>1, <1>2, <1>4, AheadIs

(* Blocks are discarded.                                                   *)
LEMMA BlocksDiscarded ==
  ASSUME NEW n \in Nat, NEW all, BlockQueue(all, n), NEW P
  PROVE  /\ BlockQueue(Discarded(all, P), n)
         /\ ToSet(Discarded(all, P)) = {b \in ToSet(all) : ~BlockOf(b, P)}
         /\ \A b, c : <<b, c>> \in Ahead(Discarded(all, P))
               <=> <<b, c>> \in Ahead(all) /\ ~BlockOf(b, P) /\ ~BlockOf(c, P)
<1> DEFINE K == {b \in ToSet(all) : ~BlockOf(b, P)}
           t == Only(all, K)
<1>1. all \in Seq(Block) /\ Ordered(all) /\ \A b \in ToSet(all) : Good(b, n) BY DEF BlockQueue
<1>2. IsInjective(all) BY <1>1, BlocksInjective
<1>3. t = Discarded(all, P) BY DEF Discarded
<1>4. \A b : b \in K <=> b \in ToSet(all) /\ ~BlockOf(b, P) OBVIOUS
<1> HIDE DEF K
<1>5. /\ t \in Seq(Block) /\ ToSet(t) = ToSet(all) \cap K
      /\ \A b, c : <<b, c>> \in Ahead(t) <=> <<b, c>> \in Ahead(all) /\ b \in K /\ c \in K
  BY <1>1, <1>2, AheadOnly
<1> HIDE DEF t
<1>6. Ordered(t) BY <1>1, <1>5 DEF Ordered
<1>7. \A b, c : <<b, c>> \in Ahead(all) => b \in ToSet(all) /\ c \in ToSet(all) BY InAhead
<1>8. \A b, c : <<b, c>> \in Ahead(t)
               <=> <<b, c>> \in Ahead(all) /\ ~BlockOf(b, P) /\ ~BlockOf(c, P)
  BY <1>4, <1>5, <1>7
<1>9. ToSet(t) = {b \in ToSet(all) : ~BlockOf(b, P)} BY <1>4, <1>5
<1> QED BY <1>1, <1>3, <1>5, <1>6, <1>8, <1>9 DEF BlockQueue

(* A block is added.                                                       *)
LEMMA BlocksAppended ==
  ASSUME NEW n \in Nat, NEW m \in Nat, n <= m, NEW all, BlockQueue(all, n), NEW x \in Block, Good(x, m),
         \A b \in ToSet(all) : b.of = x.of => Later(b, x)
  PROVE  /\ BlockQueue(Append(all, x), m)
         /\ ToSet(Append(all, x)) = ToSet(all) \cup {x}
         /\ \A b, c : <<b, c>> \in Ahead(Append(all, x))
               <=> <<b, c>> \in Ahead(all) \/ (b \in ToSet(all) /\ c = x)
<1>1. all \in Seq(Block) /\ Ordered(all) /\ \A b \in ToSet(all) : Good(b, n) BY DEF BlockQueue
<1>2. Append(all, x) \in Seq(Block) /\ ToSet(Append(all, x)) = ToSet(all) \cup {x} BY <1>1, AppendSet
<1>3. \A b, c : <<b, c>> \in Ahead(Append(all, x)) <=> <<b, c>> \in Ahead(all) \/ (b \in ToSet(all) /\ c = x)
  BY <1>1, AheadAppend
<1>4. Ordered(Append(all, x)) BY <1>1, <1>3 DEF Ordered
<1>5. \A b \in ToSet(all) : Good(b, m)
  <2> TAKE b \in ToSet(all)
  <2> QED BY <1>1, BlocksTyped DEF Good, Block
<1>6. \A b \in ToSet(Append(all, x)) : Good(b, m) BY <1>2, <1>5
<1> QED BY <1>2, <1>3, <1>4, <1>6 DEF BlockQueue

(* A line is queued.                                                       *)
LineBlock(n) == [of |-> Line, size |-> 0, from |-> n, old |-> FALSE, orphan |-> FALSE]

LEMMA LineAppended ==
  ASSUME NEW n \in Nat, NEW all, BlockQueue(all, n)
  PROVE  /\ BlockQueue(Append(all, LineBlock(n + 1)), n + 1)
         /\ ToSet(Append(all, LineBlock(n + 1))) = ToSet(all) \cup {LineBlock(n + 1)}
         /\ \A b, c : <<b, c>> \in Ahead(Append(all, LineBlock(n + 1)))
               <=> <<b, c>> \in Ahead(all) \/ (b \in ToSet(all) /\ c = LineBlock(n + 1))
<1> DEFINE x == LineBlock(n + 1)
           m == n + 1
<1>1. n + 1 \in Nat /\ n <= n + 1 OBVIOUS
<1>2. x \in Block BY DEF LineBlock, Block
<1>3. Good(x, n + 1) BY DEF LineBlock, Good
<1>4. \A b \in ToSet(all) : b.of = x.of => Later(b, x) BY DEF LineBlock, BlockQueue, Good, Later
<1> HIDE DEF x, m
<1>5. n \in Nat /\ m \in Nat /\ n <= m /\ Good(x, m) /\ BlockQueue(all, n) BY <1>1, <1>3 DEF m
<1>6. /\ BlockQueue(Append(all, x), m)
      /\ ToSet(Append(all, x)) = ToSet(all) \cup {x}
      /\ \A b, c : <<b, c>> \in Ahead(Append(all, x)) <=> <<b, c>> \in Ahead(all) \/ (b \in ToSet(all) /\ c = x)
  BY ONLY <1>2, <1>4, <1>5, BlocksAppended
<1> QED BY <1>6 DEF m, x

(* The first is taken.                                                     *)
LEMMA BlocksTaken ==
  ASSUME NEW n \in Nat, NEW all, BlockQueue(all, n), all # <<>>
  PROVE  /\ BlockQueue(Tail(all), n)
         /\ Head(all) \in Block /\ Head(all) \in ToSet(all)
         /\ ToSet(Tail(all)) = ToSet(all) \ {Head(all)}
         /\ \A b, c : <<b, c>> \in Ahead(all)
               <=> <<b, c>> \in Ahead(Tail(all)) \/ (b = Head(all) /\ c \in ToSet(Tail(all)))
<1>1. all \in Seq(Block) /\ Ordered(all) /\ \A b \in ToSet(all) : Good(b, n) BY DEF BlockQueue
<1>2. Head(all) \in Block /\ Head(all) \in ToSet(all) /\ ToSet(all) = ToSet(Tail(all)) \cup {Head(all)}
  BY <1>1, TailSet
<1>3. Head(all) \notin ToSet(Tail(all)) BY <1>1, BlocksInjective, TailInjective
<1>4. \A b, c : <<b, c>> \in Ahead(all)
               <=> <<b, c>> \in Ahead(Tail(all)) \/ (b = Head(all) /\ c \in ToSet(Tail(all)))
  BY <1>1, AheadTail
<1>5. Tail(all) \in Seq(Block) BY <1>1
<1>6. Ordered(Tail(all)) BY <1>1, <1>4 DEF Ordered
<1> QED BY <1>1, <1>2, <1>3, <1>4, <1>5, <1>6 DEF BlockQueue

(* A block is sent whole.                                                  *)
LEMMA BlocksRemoved ==
  ASSUME NEW n \in Nat, NEW all, BlockQueue(all, n), NEW i \in DOMAIN all
  PROVE  /\ BlockQueue(RemoveAt(all, i), n)
         /\ ToSet(RemoveAt(all, i)) = ToSet(all) \ {all[i]}
         /\ \A b, c : <<b, c>> \in Ahead(RemoveAt(all, i))
               <=> <<b, c>> \in Ahead(all) /\ b # all[i] /\ c # all[i]
<1>1. all \in Seq(Block) /\ Ordered(all) /\ \A b \in ToSet(all) : Good(b, n) BY DEF BlockQueue
<1>2. /\ RemoveAt(all, i) \in Seq(Block) /\ ToSet(RemoveAt(all, i)) = ToSet(all) \ {all[i]}
      /\ \A b, c : <<b, c>> \in Ahead(RemoveAt(all, i)) <=> <<b, c>> \in Ahead(all) /\ b # all[i] /\ c # all[i]
  BY <1>1, BlocksInjective, AheadRemove
<1>3. Ordered(RemoveAt(all, i)) BY <1>1, <1>2 DEF Ordered
<1> QED BY <1>1, <1>2, <1>3 DEF BlockQueue

(* Some of a block is sent.                                                *)
Shrunk(b, k) == [b EXCEPT !.size = @ - k, !.from = @ + k]

LEMMA ShrunkIs ==
  ASSUME NEW b \in Block, NEW k \in Int
  PROVE  /\ Shrunk(b, k) \in Block /\ Shrunk(b, k).of = b.of /\ Shrunk(b, k).orphan = b.orphan
         /\ Shrunk(b, k).old = b.old
         /\ Shrunk(b, k).from = b.from + k /\ Shrunk(b, k).size = b.size - k
<1>1. b.size - k \in Int /\ b.from + k \in Int BY DEF Block
<1> QED BY <1>1 DEF Shrunk, Block

(* What is in front of what, when y becomes x.                             *)
Replaced(t, all, y, x) ==
    /\ \A b, c : <<b, c>> \in Ahead(t) /\ c # x
          => \E d : <<d, c>> \in Ahead(all) /\ b = (IF d = y THEN x ELSE d)
    /\ \A d, c : <<d, c>> \in Ahead(all) /\ c # y
          => <<IF d = y THEN x ELSE d, c>> \in Ahead(t)

ShrunkAt(all, i, k) == [all EXCEPT ![i] = Shrunk(all[i], k)]

LEMMA BlocksShrunk ==
  ASSUME NEW n \in Nat, NEW all, BlockQueue(all, n), NEW i \in DOMAIN all, all[i].of # Line,
         NEW k \in Nat, 0 < k, k < all[i].size
  PROVE  /\ BlockQueue(ShrunkAt(all, i, k), n)
         /\ ToSet(ShrunkAt(all, i, k)) = (ToSet(all) \ {all[i]}) \cup {Shrunk(all[i], k)}
         /\ Replaced(ShrunkAt(all, i, k), all, all[i], Shrunk(all[i], k))
<1> DEFINE x == Shrunk(all[i], k)
<1> DEFINE t == [all EXCEPT ![i] = x]
           y == all[i]
           h == [b \in ToSet(all) |-> IF b = y THEN x ELSE b]
<1>1. all \in Seq(Block) /\ Ordered(all) /\ \A b \in ToSet(all) : Good(b, n) BY DEF BlockQueue
<1>2. \A j \in DOMAIN all : all[j] \in ToSet(all) /\ all[j] \in Block BY <1>1 DEF ToSet
<1>3. y \in Block /\ y.of # Line /\ y.size \in Int /\ y.from \in Int /\ Good(y, n) BY <1>1, <1>2 DEF Block
<1>4. /\ x \in Block /\ x.of = y.of /\ x.size = y.size - k /\ x.from = y.from + k /\ x.orphan = y.orphan
      /\ x.from + x.size = y.from + y.size
  <2>4. x \in Block /\ x.of = y.of /\ x.size = y.size - k /\ x.from = y.from + k /\ x.orphan = y.orphan
    <3>1. y \in Block /\ k \in Int BY <1>3
    <3> QED BY ONLY <3>1, ShrunkIs
  <2>5. x.from + x.size = y.from + y.size BY <1>3, <2>4
  <2> QED BY <2>4, <2>5
<1> HIDE DEF x
<1>5. \A j \in DOMAIN all : all[j] = y => j = i BY <1>1, BlocksInjective DEF IsInjective
<1>6. h \in [ToSet(all) -> Block] /\ t \in [DOMAIN all -> Block] /\ DOMAIN t = DOMAIN all /\ \A j \in DOMAIN all : t[j] = h[all[j]] /\ t[j] \in Block
  <2>1. DOMAIN t = DOMAIN all /\ t[i] = x /\ \A j \in DOMAIN all : j # i => t[j] = all[j] BY <1>1
  <2>2. \A j \in DOMAIN all : h[all[j]] = IF all[j] = y THEN x ELSE all[j] BY <1>2
  <2>3. \A j \in DOMAIN all : t[j] = h[all[j]]
    <3> TAKE j \in DOMAIN all
    <3>1. CASE j = i BY <2>1, <2>2, <3>1
    <3>2. CASE j # i BY <2>1, <2>2, <3>2, <1>5
    <3> QED BY <3>1, <3>2
  <2>4. \A j \in DOMAIN all : t[j] \in Block BY <2>1, <1>2, <1>4
  <2>5. h \in [ToSet(all) -> Block] BY <1>1, <1>4, BlocksTyped
  <2> QED BY <1>1, <2>1, <2>3, <2>4, <2>5
<1>7. h[y] = x /\ y \in ToSet(all) /\ \A b \in ToSet(all) : b # y => h[b] = b BY <1>2
<1> HIDE DEF t, h
<1>8. /\ t \in Seq(Block) /\ ToSet(t) = {h[b] : b \in ToSet(all)}
      /\ \A d, e : <<d, e>> \in Ahead(all) => <<h[d], h[e]>> \in Ahead(t)
      /\ \A z \in Ahead(t) : \E d, e \in ToSet(all) : <<d, e>> \in Ahead(all) /\ z = <<h[d], h[e]>>
  <2>1. DOMAIN all = 1 .. Len(all) /\ Len(all) \in Nat /\ all \in Seq(Block) BY <1>1
  <2>2. t \in Seq(Block) BY <1>1, <1>6, <2>1
  <2>3. h \in [ToSet(all) -> Block] /\ DOMAIN t = DOMAIN all /\ \A m \in DOMAIN all : t[m] = h[all[m]] BY <1>1, <1>6
  <2>4. /\ \A b \in ToSet(all) : h[b] \in ToSet(t)
        /\ \A b \in ToSet(t) : \E d \in ToSet(all) : b = h[d]
        /\ \A d, e : <<d, e>> \in Ahead(all) => <<h[d], h[e]>> \in Ahead(t)
        /\ \A z \in Ahead(t) : \E d, e \in ToSet(all) : <<d, e>> \in Ahead(all) /\ z = <<h[d], h[e]>>
    <3>1. \A b \in ToSet(all) : h[b] \in ToSet(t)
      <4>1. \A m \in DOMAIN all : h[all[m]] \in ToSet(t) BY <2>3 DEF ToSet
      <4> QED BY <4>1 DEF ToSet
    <3>2. ASSUME NEW b \in ToSet(t) PROVE \E d \in ToSet(all) : b = h[d]
      <4>1. PICK m \in DOMAIN t : b = t[m] BY <3>2 DEF ToSet
      <4>2. all[m] \in ToSet(all) /\ b = h[all[m]] BY <2>3, <4>1 DEF ToSet
      <4> QED BY <4>2
    <3>3. ASSUME NEW d, NEW e, <<d, e>> \in Ahead(all) PROVE <<h[d], h[e]>> \in Ahead(t)
      <4>1. PICK m, j \in DOMAIN all : m < j /\ d = all[m] /\ e = all[j] BY <3>3, AheadIs
      <4>2. t[m] = h[d] /\ t[j] = h[e] /\ m \in DOMAIN t /\ j \in DOMAIN t BY <2>3, <4>1
      <4> QED BY <4>1, <4>2, AheadIs
    <3>4. ASSUME NEW z \in Ahead(t) PROVE \E d, e \in ToSet(all) : <<d, e>> \in Ahead(all) /\ z = <<h[d], h[e]>>
      <4>1. PICK b, c : z = <<b, c>> BY <3>4, AheadIs
      <4>2. PICK m, j \in DOMAIN t : m < j /\ b = t[m] /\ c = t[j] BY ONLY <3>4, <4>1, AheadIs
      <4>3. m \in DOMAIN all /\ j \in DOMAIN all /\ b = h[all[m]] /\ c = h[all[j]] BY <2>3, <4>2
      <4>4. <<all[m], all[j]>> \in Ahead(all) /\ all[m] \in ToSet(all) /\ all[j] \in ToSet(all)
        BY <4>2, <4>3, AheadIs DEF ToSet
      <4> QED BY <4>1, <4>3, <4>4
    <3> QED BY <3>1, <3>2, <3>3, <3>4
  <2>5. ToSet(t) = {h[b] : b \in ToSet(all)} BY <2>4
  <2> QED BY <2>2, <2>4, <2>5
<1>9. ToSet(t) = (ToSet(all) \ {y}) \cup {x} BY <1>7, <1>8
<1>10. \A d, e : <<d, e>> \in Ahead(all) => d \in ToSet(all) /\ e \in ToSet(all) BY InAhead
<1>11. \A d \in ToSet(all) : h[d] = IF d = y THEN x ELSE d BY <1>7
<1>12. /\ \A b, c : <<b, c>> \in Ahead(t) /\ c # x => \E d : <<d, c>> \in Ahead(all) /\ b = (IF d = y THEN x ELSE d)
       /\ \A d, c : <<d, c>> \in Ahead(all) /\ c # y => <<IF d = y THEN x ELSE d, c>> \in Ahead(t)
  <2>1. ASSUME NEW b, NEW c, <<b, c>> \in Ahead(t), c # x PROVE \E d : <<d, c>> \in Ahead(all) /\ b = (IF d = y THEN x ELSE d)
    <3>1. PICK d, e \in ToSet(all) : <<d, e>> \in Ahead(all) /\ <<b, c>> = <<h[d], h[e]>> BY <1>8, <2>1
    <3>2. e = c /\ b = (IF d = y THEN x ELSE d) BY <1>11, <2>1, <3>1
    <3> QED BY <3>1, <3>2
  <2>2. ASSUME NEW d, NEW c, <<d, c>> \in Ahead(all), c # y PROVE <<IF d = y THEN x ELSE d, c>> \in Ahead(t)
    <3>1. h[d] = (IF d = y THEN x ELSE d) /\ h[c] = c BY <1>10, <1>11, <2>2
    <3> QED BY <1>8, <2>2, <3>1
  <2> QED BY <2>1, <2>2
<1>13. Ordered(t)
  <2>1. SUFFICES ASSUME NEW d, NEW e, <<d, e>> \in Ahead(all), h[d].of = h[e].of PROVE Later(h[d], h[e])
    <3>1. SUFFICES ASSUME NEW b, NEW c, <<b, c>> \in Ahead(t), b.of = c.of PROVE Later(b, c) BY DEF Ordered
    <3>2. PICK d, e \in ToSet(all) : <<d, e>> \in Ahead(all) /\ <<b, c>> = <<h[d], h[e]>> BY <1>8, <3>1
    <3>3. b = h[d] /\ c = h[e] BY <3>2
    <3> QED BY <3>1, <3>2, <3>3
  <2>2. d \in Block /\ e \in Block BY <1>1, <1>10, <2>1, BlocksTyped
  <2>3. d.from \in Int /\ e.from \in Int /\ d.size \in Int BY <2>2 DEF Block
  <2>4. h[d].of = d.of /\ h[e].of = e.of BY <1>4, <1>10, <1>11, <2>1
  <2>5. Later(d, e) BY <1>1, <2>1, <2>4 DEF Ordered
  <2>6. e.from <= h[e].from /\ h[e].from \in Int
    <3>1. e \in ToSet(all) BY <1>10, <2>1
    <3>2. CASE e = y
      <4>1. h[e] = x /\ x.from = e.from + k BY <1>4, <1>7, <3>2
      <4> QED BY <2>3, <4>1
    <3>3. CASE e # y
      <4>1. h[e] = e BY <1>7, <3>1, <3>3
      <4> QED BY <2>3, <4>1
    <3> QED BY <3>2, <3>3
  <2>7. h[d].from + h[d].size = d.from + d.size BY <1>4, <1>10, <1>11, <2>1
  <2>9. h[d].from < h[e].from
    <3>1. CASE d # y
      <4>1. h[d] = d BY <1>7, <1>10, <2>1, <3>1
      <4> QED BY <2>3, <2>5, <2>6, <4>1 DEF Later
    <3>2. CASE d = y
      <4>1. h[d] = x /\ x.from = d.from + k BY <1>4, <1>7, <3>2
      <4>2. d.from + d.size <= e.from /\ k < d.size BY <1>3, <2>5, <3>2 DEF Later
      <4> QED BY <2>3, <2>6, <4>1, <4>2
    <3> QED BY <3>1, <3>2
  <2>10. d.of # Line => h[d].from + h[d].size <= h[e].from BY <2>3, <2>5, <2>6, <2>7 DEF Later
  <2> QED BY <2>4, <2>9, <2>10 DEF Later
<1>14. Good(x, n) BY <1>3, <1>4 DEF Good
<1>15. \A b \in ToSet(t) : Good(b, n) BY <1>1, <1>9, <1>14
<1>16. BlockQueue(t, n) BY <1>8, <1>13, <1>15 DEF BlockQueue
<1>17. Replaced(t, all, y, x) BY <1>12 DEF Replaced
<1> QED BY <1>9, <1>16, <1>17 DEF t, x, ShrunkAt

(* Time passes.                                                            *)
LEMMA BlocksAged ==
  ASSUME NEW n \in Nat, NEW all, BlockQueue(all, n), NEW t,
         t = [i \in DOMAIN all |-> [all[i] EXCEPT !.old = TRUE]]
  PROVE  /\ BlockQueue(t, n)
         /\ ToSet(t) = {[b EXCEPT !.old = TRUE] : b \in ToSet(all)}
         /\ \A d, e : <<d, e>> \in Ahead(all) => <<[d EXCEPT !.old = TRUE], [e EXCEPT !.old = TRUE]>> \in Ahead(t)
         /\ \A z \in Ahead(t) : \E d, e \in ToSet(all) :
               <<d, e>> \in Ahead(all) /\ z = <<[d EXCEPT !.old = TRUE], [e EXCEPT !.old = TRUE]>>
<1> DEFINE h == [b \in ToSet(all) |-> [b EXCEPT !.old = TRUE]]
<1>1. all \in Seq(Block) /\ Ordered(all) /\ \A b \in ToSet(all) : Good(b, n) BY DEF BlockQueue
<1>2. \A j \in DOMAIN all : all[j] \in ToSet(all) /\ all[j] \in Block BY <1>1 DEF ToSet
<1>3. \A b \in Block : [b EXCEPT !.old = TRUE] \in Block BY DEF Block
<1>4. h \in [ToSet(all) -> Block] /\ t \in [DOMAIN all -> Block] /\ DOMAIN t = DOMAIN all /\ \A j \in DOMAIN all : t[j] = h[all[j]] /\ t[j] \in Block
  BY <1>1, <1>2, <1>3, BlocksTyped
<1>5. \A b \in ToSet(all) : h[b] = [b EXCEPT !.old = TRUE] OBVIOUS
<1> HIDE DEF h
<1>6. /\ t \in Seq(Block) /\ ToSet(t) = {h[b] : b \in ToSet(all)}
      /\ \A d, e : <<d, e>> \in Ahead(all) => <<h[d], h[e]>> \in Ahead(t)
      /\ \A z \in Ahead(t) : \E d, e \in ToSet(all) : <<d, e>> \in Ahead(all) /\ z = <<h[d], h[e]>>
  <2>1. DOMAIN all = 1 .. Len(all) /\ Len(all) \in Nat /\ all \in Seq(Block) BY <1>1
  <2>2. t \in Seq(Block) BY <1>1, <1>4, <2>1
  <2>3. h \in [ToSet(all) -> Block] /\ DOMAIN t = DOMAIN all /\ \A i \in DOMAIN all : t[i] = h[all[i]] BY <1>1, <1>4
  <2>4. /\ \A b \in ToSet(all) : h[b] \in ToSet(t)
        /\ \A b \in ToSet(t) : \E d \in ToSet(all) : b = h[d]
        /\ \A d, e : <<d, e>> \in Ahead(all) => <<h[d], h[e]>> \in Ahead(t)
        /\ \A z \in Ahead(t) : \E d, e \in ToSet(all) : <<d, e>> \in Ahead(all) /\ z = <<h[d], h[e]>>
    <3>1. \A b \in ToSet(all) : h[b] \in ToSet(t)
      <4>1. \A i \in DOMAIN all : h[all[i]] \in ToSet(t) BY <2>3 DEF ToSet
      <4> QED BY <4>1 DEF ToSet
    <3>2. ASSUME NEW b \in ToSet(t) PROVE \E d \in ToSet(all) : b = h[d]
      <4>1. PICK i \in DOMAIN t : b = t[i] BY <3>2 DEF ToSet
      <4>2. all[i] \in ToSet(all) /\ b = h[all[i]] BY <2>3, <4>1 DEF ToSet
      <4> QED BY <4>2
    <3>3. ASSUME NEW d, NEW e, <<d, e>> \in Ahead(all) PROVE <<h[d], h[e]>> \in Ahead(t)
      <4>1. PICK i, j \in DOMAIN all : i < j /\ d = all[i] /\ e = all[j] BY <3>3, AheadIs
      <4>2. t[i] = h[d] /\ t[j] = h[e] /\ i \in DOMAIN t /\ j \in DOMAIN t BY <2>3, <4>1
      <4> QED BY ZenonT(60), <4>1, <4>2, AheadIs
    <3>4. ASSUME NEW z \in Ahead(t) PROVE \E d, e \in ToSet(all) : <<d, e>> \in Ahead(all) /\ z = <<h[d], h[e]>>
      <4>1. PICK b, c : z = <<b, c>> BY <3>4, AheadIs
      <4>2. PICK i, j \in DOMAIN t : i < j /\ b = t[i] /\ c = t[j] BY ONLY <3>4, <4>1, AheadIs
      <4>3. i \in DOMAIN all /\ j \in DOMAIN all /\ b = h[all[i]] /\ c = h[all[j]] BY <2>3, <4>2
      <4>4. <<all[i], all[j]>> \in Ahead(all) /\ all[i] \in ToSet(all) /\ all[j] \in ToSet(all)
        BY <4>2, <4>3, AheadIs DEF ToSet
      <4> QED BY <4>1, <4>3, <4>4
    <3> QED BY <3>1, <3>2, <3>3, <3>4
  <2>5. ToSet(t) = {h[b] : b \in ToSet(all)} BY <2>4
  <2> QED BY <2>2, <2>4, <2>5
<1>7. \A d, e : <<d, e>> \in Ahead(all) => d \in ToSet(all) /\ e \in ToSet(all) BY InAhead
<1>8. \A b \in ToSet(all) : /\ h[b].of = b.of /\ h[b].from = b.from /\ h[b].size = b.size /\ h[b].orphan = b.orphan
  BY <1>1, <1>5, BlocksTyped DEF Block
<1>9. Ordered(t)
  <2>1. SUFFICES ASSUME NEW b, NEW c, <<b, c>> \in Ahead(t), b.of = c.of PROVE Later(b, c) BY DEF Ordered
  <2>2. PICK d, e \in ToSet(all) : <<d, e>> \in Ahead(all) /\ <<b, c>> = <<h[d], h[e]>> BY <1>6, <2>1
  <2>3. b = h[d] /\ c = h[e] BY <2>2
  <2>4. Later(d, e) BY <1>1, <1>8, <2>1, <2>2, <2>3 DEF Ordered
  <2> QED BY <1>8, <2>2, <2>3, <2>4 DEF Later
<1>10. \A b \in ToSet(all) : Good(h[b], n) BY <1>1, <1>8 DEF Good
<1>11. ToSet(t) = {[b EXCEPT !.old = TRUE] : b \in ToSet(all)}
  <2>1. ToSet(t) = {h[b] : b \in ToSet(all)} BY <1>6
  <2>2. {h[b] : b \in ToSet(all)} = {[b EXCEPT !.old = TRUE] : b \in ToSet(all)} BY <1>5
  <2> QED BY <2>1, <2>2
<1>12. /\ \A d, e : <<d, e>> \in Ahead(all) => <<[d EXCEPT !.old = TRUE], [e EXCEPT !.old = TRUE]>> \in Ahead(t)
       /\ \A z \in Ahead(t) : \E d, e \in ToSet(all) :
             <<d, e>> \in Ahead(all) /\ z = <<[d EXCEPT !.old = TRUE], [e EXCEPT !.old = TRUE]>>
  <2>1. ASSUME NEW d, NEW e, <<d, e>> \in Ahead(all) PROVE <<[d EXCEPT !.old = TRUE], [e EXCEPT !.old = TRUE]>> \in Ahead(t)
    <3>1. h[d] = [d EXCEPT !.old = TRUE] /\ h[e] = [e EXCEPT !.old = TRUE] BY <1>5, <1>7, <2>1
    <3>2. <<h[d], h[e]>> \in Ahead(t) BY <1>6, <2>1
    <3> QED BY <3>1, <3>2
  <2>2. ASSUME NEW z \in Ahead(t) 
        PROVE \E d, e \in ToSet(all) : <<d, e>> \in Ahead(all) /\ z = <<[d EXCEPT !.old = TRUE], [e EXCEPT !.old = TRUE]>>
    <3>1. PICK d, e \in ToSet(all) : <<d, e>> \in Ahead(all) /\ z = <<h[d], h[e]>> BY <1>6, <2>2
    <3>2. h[d] = [d EXCEPT !.old = TRUE] /\ h[e] = [e EXCEPT !.old = TRUE] BY <1>5
    <3> QED BY <3>1, <3>2
  <2> QED BY <2>1, <2>2
<1>13. \A b \in ToSet(t) : Good(b, n) BY <1>6, <1>10
<1> QED BY <1>6, <1>9, <1>11, <1>12, <1>13 DEF BlockQueue

-----------------------------------------------------------------------------
(* What is always so.                                                      *)
PaneType == [base : Int, len : Int, offset : Int, reading : BOOLEAN, fd : BOOLEAN, linked : BOOLEAN]
ControlPane == [exists : BOOLEAN, offset : Int, queued : Int, off : BOOLEAN, paused : BOOLEAN, pending : BOOLEAN]
Event == [out : Nat, enabled : BOOLEAN, armed : BOOLEAN]
WriterType == [pc : {"idle", "flush", "loop", "walk", "pane", "write", "done"},
               ret : {"idle", "loop", "pane", "done"},
               walk : Seq(Panes), limit : Int, used : Int, msg : Seq(Panes \X Int)]
ControlFlags == {"NOOUTPUT", "PAUSEAFTER", "EXIT", "EXITED"}

ControlTypes ==
    /\ pane \in [Panes -> PaneType] /\ cp \in [Panes -> ControlPane]
    /\ all_blocks \in Seq(Block) /\ pending_list \in Seq(Panes)
    /\ ev \in Event /\ flags \subseteq ControlFlags /\ w \in WriterType /\ lines \in Nat
    /\ \A p \in Panes : ~cp[p].exists => ~cp[p].pending

(* The write callback is at a pane while it works for one.                 *)
AtPane(wr) == wr.pc \in {"pane", "write", "done"} \/ (wr.pc = "flush" /\ wr.ret \in {"pane", "done"})
WriterGood(wr) ==
    /\ AtPane(wr) => wr.walk # <<>>
    /\ AtPane(wr) \/ wr.pc = "walk" => wr.limit >= 1
    /\ wr.pc \in {"pane", "write"} \/ (wr.pc = "flush" /\ wr.ret = "pane") => wr.used <= wr.limit
    /\ wr.pc = "write" => wr.ret = "pane"
    /\ wr.pc = "flush" => wr.ret # "idle"

PendingOnce == IsInjective(pending_list) /\ ToSet(pending_list) = {p \in Panes : cp[p].pending}

(* What is so as long as no fault has happened.                            *)
Holding(c, f) == "NOOUTPUT" \notin f /\ c.exists /\ ~c.paused /\ ~c.off
Offsets(q, c, f) ==
    /\ q.base \in Nat /\ q.len \in Nat /\ q.offset \in Nat /\ c.offset \in Nat /\ c.queued \in Nat
    /\ q.base <= q.offset
    /\ IF q.fd THEN q.base + q.len = q.offset ELSE q.len = 0
    /\ c.exists => c.offset <= c.queued /\ c.queued <= q.offset
    /\ Holding(c, f) => q.base <= c.offset
Covers(S, p, c, f) ==
    (\E b \in S : BlockOf(b, {p})) =>
        /\ Holding(c, f) /\ c.pending
        /\ \A b \in S : BlockOf(b, {p}) => c.offset < b.from /\ b.from + b.size <= c.queued + 1
        /\ \A n \in c.offset + 1 .. c.queued :
              \E b \in S : BlockOf(b, {p}) /\ b.from <= n /\ n < b.from + b.size

MessageGood ==
    w.msg # <<>> =>
        /\ w.pc \in {"pane", "write"} /\ ~Gone(Head(w.walk))
        /\ \A k \in 1 .. Len(w.msg) : w.msg[k] = <<Head(w.walk), cp[Head(w.walk)].offset - Len(w.msg) + k>>

Clean ==
    /\ \A p \in Panes : Offsets(pane[p], cp[p], flags) /\ Covers(ToSet(all_blocks), p, cp[p], flags)
    /\ BlockQueue(all_blocks, lines)
    /\ MessageGood

Always == ControlTypes /\ WriterGood(w) /\ PendingOnce
ControlInv == Always /\ (faults = {} => Clean)

-----------------------------------------------------------------------------
(* The least of some numbers.                                              *)
LEMMA LeastIs ==
  ASSUME NEW S, S \subseteq Nat, S # {}
  PROVE  Least(S) \in S /\ \A y \in S : Least(S) <= y
<1>1. SUFFICES \E x \in S : \A y \in S : x <= y BY DEF Least
<1>2. SUFFICES ASSUME ~\E x \in S : \A y \in S : x <= y PROVE FALSE OBVIOUS
<1> DEFINE T == {m \in Nat : \A k \in 0 .. m : k \notin S}
<1>3. 0 \in T
  <2>1. 0 \notin S BY <1>2
  <2> QED BY <2>1
<1>4. \A m \in Nat : m \in T => m + 1 \in T
  <2> TAKE m \in Nat
  <2> HAVE m \in T
  <2>1. \A y \in S : m + 1 <= y
    <3> TAKE y \in S
    <3>1. y \in Nat /\ y \notin 0 .. m OBVIOUS
    <3> QED BY <3>1
  <2>2. m + 1 \notin S BY <1>2, <2>1
  <2>3. \A k \in 0 .. m + 1 : k \in 0 .. m \/ k = m + 1 OBVIOUS
  <2> QED BY <2>2, <2>3
<1>5. Nat \subseteq T BY <1>3, <1>4, NatSetInduction
<1>6. PICK y \in S : TRUE OBVIOUS
<1>7. y \in T /\ y \in 0 .. y BY <1>5, <1>6
<1> QED BY <1>6, <1>7

LEMMA IntSeq ==
  ASSUME NEW T, NEW n \in Int, NEW f \in [1 .. n -> T]
  PROVE  f \in Seq(T) /\ Len(f) = IF n >= 0 THEN n ELSE 0
<1>1. CASE n >= 0
  <2>1. n \in Nat BY <1>1
  <2> QED BY <1>1, <2>1
<1>2. CASE ~(n >= 0)
  <2>1. 1 .. n = {} /\ 1 .. 0 = {} BY <1>2
  <2>2. f \in [1 .. 0 -> T] BY <2>1
  <2> QED BY <1>2, <2>2
<1> QED BY <1>1, <1>2

LEMMA EventTyped ==
  ASSUME NEW e \in Event, NEW n \in Nat
  PROVE  Enabled(e) \in Event /\ Written(e, n) \in Event
<1>1. e.out \in Nat /\ e.enabled \in BOOLEAN /\ e.armed \in BOOLEAN BY DEF Event
<1>2. Enabled(e) \in Event BY <1>1 DEF Enabled, Event
<1>3. e.out + n \in Nat BY <1>1
<1>4. Written(e, n) \in Event BY <1>1, <1>3 DEF Written, Event
<1> QED BY <1>2, <1>4

LEMMA DiscardedTyped ==
  ASSUME NEW all \in Seq(Block), NEW P
  PROVE  Discarded(all, P) \in Seq(Block)
  BY OnlySet DEF Discarded

(* control_write keeps the types.                                          *)
LEMMA WriteTyped ==
  ASSUME ControlTypes, NEW all \in Seq(Block), control_write(all)
  PROVE  all_blocks' \in Seq(Block) /\ ev' \in Event /\ lines' \in Nat
<1>1. lines \in Nat /\ ev \in Event BY DEF ControlTypes
<1>2. lines' = lines + 1 /\ lines' \in Nat BY <1>1 DEF control_write
<1>3. [of |-> Line, size |-> 0, from |-> lines + 1, old |-> FALSE, orphan |-> FALSE] \in Block BY <1>1 DEF Block
<1>4. all_blocks' \in Seq(Block) BY <1>3 DEF control_write
<1>5. Written(ev, 1) \in Event BY <1>1, EventTyped
<1>6. ev' \in Event
  <2>1. ev' = Enabled(IF all = <<>> THEN Written(ev, 1) ELSE ev) BY DEF control_write
  <2>2. (IF all = <<>> THEN Written(ev, 1) ELSE ev) \in Event BY <1>1, <1>5
  <2> QED BY <2>1, <2>2, EventTyped
<1> QED BY <1>2, <1>4, <1>6

LEMMA AddPane ==
  ASSUME ControlTypes, NEW p \in Panes, NEW c, c = control_add_pane(p)
  PROVE  /\ c \in ControlPane /\ c.exists /\ c.pending = cp[p].pending
         /\ cp[p].exists => c = cp[p]
         /\ ~cp[p].exists => /\ c.offset = pane[p].offset /\ c.queued = pane[p].offset
                             /\ ~c.off /\ ~c.paused /\ ~c.pending
<1>1. cp[p] \in ControlPane /\ pane[p].offset \in Int BY DEF ControlTypes, PaneType
<1>2. CASE cp[p].exists BY <1>1, <1>2 DEF control_add_pane
<1>3. CASE ~cp[p].exists
  <2>1. cp[p].pending = FALSE BY <1>1, <1>3 DEF ControlTypes, ControlPane
  <2>2. c = [exists |-> TRUE, offset |-> pane[p].offset, queued |-> pane[p].offset, off |-> FALSE,
             paused |-> FALSE, pending |-> FALSE]
    BY <1>3 DEF control_add_pane, AtEnd, NoPane
  <2>3. c \in ControlPane BY <1>1, <2>2 DEF ControlPane
  <2>4. /\ c.exists = TRUE /\ c.offset = pane[p].offset /\ c.queued = pane[p].offset
        /\ c.off = FALSE /\ c.paused = FALSE /\ c.pending = FALSE
    BY <2>2
  <2> QED BY <1>3, <2>1, <2>3, <2>4
<1> QED BY <1>2, <1>3

LEMMA AtEndTyped ==
  ASSUME NEW c \in ControlPane, NEW p \in Panes, ControlTypes
  PROVE  /\ AtEnd(c, p) \in ControlPane
         /\ AtEnd(c, p).offset = pane[p].offset /\ AtEnd(c, p).queued = pane[p].offset
         /\ AtEnd(c, p).exists = c.exists /\ AtEnd(c, p).off = c.off
         /\ AtEnd(c, p).paused = c.paused /\ AtEnd(c, p).pending = c.pending
<1>1. pane[p].offset \in Int BY DEF ControlTypes, PaneType
<1> QED BY <1>1 DEF AtEnd, ControlPane

(* One control_pane is changed.                                            *)
LEMMA OneChanged ==
  ASSUME NEW T, NEW f \in [Panes -> T], NEW p \in Panes, NEW v \in T, NEW g, g = [f EXCEPT ![p] = v]
  PROVE  g \in [Panes -> T] /\ g[p] = v /\ \A q \in Panes : q # p => g[q] = f[q]
  OBVIOUS

LEMMA PendingKept ==
  ASSUME PendingOnce, pending_list' = pending_list, \A p \in Panes : cp'[p].pending = cp[p].pending
  PROVE  PendingOnce'
  BY DEF PendingOnce

(* The writer at a pane has one.                                           *)
LEMMA AtHead ==
  ASSUME ControlTypes, WriterGood(w), AtPane(w)
  PROVE  Head(w.walk) \in Panes /\ w.walk # <<>> /\ w.walk \in Seq(Panes) /\ Tail(w.walk) \in Seq(Panes)
<1>1. w.walk \in Seq(Panes) /\ w.walk # <<>> BY DEF ControlTypes, WriterType, WriterGood
<1> QED BY <1>1

LEMMA MineIs ==
  ASSUME ControlTypes, NEW p, Mine(p) # {}
  PROVE  /\ Least(Mine(p)) \in DOMAIN all_blocks /\ all_blocks[Least(Mine(p))] \in Block
         /\ BlockOf(all_blocks[Least(Mine(p))], {p})
         /\ \A j \in Mine(p) : Least(Mine(p)) <= j
<1>1. all_blocks \in Seq(Block) BY DEF ControlTypes
<1>2. Mine(p) \subseteq Nat BY <1>1 DEF Mine
<1>3. Least(Mine(p)) \in Mine(p) /\ \A j \in Mine(p) : Least(Mine(p)) <= j BY <1>2, LeastIs
<1>4. \A i \in Mine(p) : i \in DOMAIN all_blocks /\ BlockOf(all_blocks[i], {p}) BY DEF Mine
<1>5. \A i \in DOMAIN all_blocks : all_blocks[i] \in Block BY <1>1
<1> QED BY <1>3, <1>4, <1>5

-----------------------------------------------------------------------------
(* The steps keep the types and the list of pending panes.                 *)
LEMMA CheckAgeTyped ==
  ASSUME ControlTypes, NEW p \in Panes, control_check_age(p)
  PROVE  /\ cp' \in [Panes -> ControlPane] /\ \A q \in Panes : cp'[q].exists = cp[q].exists /\ cp'[q].pending = cp[q].pending
         /\ all_blocks' \in Seq(Block) /\ ev' \in Event /\ flags' \subseteq ControlFlags /\ lines' \in Nat
<1>1. cp \in [Panes -> ControlPane] /\ all_blocks \in Seq(Block) /\ flags \subseteq ControlFlags /\ ev \in Event /\ lines \in Nat
  BY DEF ControlTypes
<1>2. \A P : Discarded(all_blocks, P) \in Seq(Block) BY <1>1, DiscardedTyped
<1>3. CASE "PAUSEAFTER" \in flags
  <2>1. /\ cp' = [cp EXCEPT ![p].paused = TRUE] /\ flags' = flags /\ control_write(Discarded(all_blocks, {p}))
    BY <1>3 DEF control_check_age
  <2>2. cp' \in [Panes -> ControlPane] /\ \A q \in Panes : cp'[q].exists = cp[q].exists /\ cp'[q].pending = cp[q].pending
    BY <1>1, <2>1 DEF ControlPane
  <2>3. all_blocks' \in Seq(Block) /\ ev' \in Event /\ lines' \in Nat BY <1>2, <2>1, WriteTyped
  <2> QED BY <1>1, <2>1, <2>2, <2>3
<1>4. CASE "PAUSEAFTER" \notin flags
  <2>1. /\ cp' = cp /\ ev' = ev /\ flags' = flags \cup {"EXIT"} /\ all_blocks' = Discarded(all_blocks, Panes) /\ lines' = lines
    BY <1>4 DEF control_check_age, Quiet
  <2>2. flags' \subseteq ControlFlags BY <1>1, <2>1 DEF ControlFlags
  <2> QED BY <1>1, <1>2, <2>1, <2>2
<1> QED BY <1>3, <1>4

LEMMA ReadAlways ==
  ASSUME Always, NEW p \in Panes, NEW k \in 1 .. 2, window_pane_read_callback(p, k)
  PROVE  Always'
<1> USE DEF Always
<1>1. ControlTypes /\ PendingOnce /\ pending_list \in Seq(Panes) /\ all_blocks \in Seq(Block) /\ cp \in [Panes -> ControlPane]
      /\ ev \in Event /\ flags \subseteq ControlFlags /\ lines \in Nat
  BY DEF ControlTypes
<1>2. w' = w /\ w \in WriterType /\ WriterGood(w) BY DEF window_pane_read_callback, ControlTypes
<1>3. pane[p] \in PaneType /\ pane \in [Panes -> PaneType] /\ Total(p) \in Int BY DEF ControlTypes, PaneType, Total
<1>4. pane' \in [Panes -> PaneType] BY <1>3 DEF window_pane_read_callback, PaneType
<1> DEFINE c == control_add_pane(p)
           total == Total(p) + k
<1>5. c \in ControlPane /\ c.exists /\ c.pending = cp[p].pending BY <1>1, AddPane
<1>6. total \in Int BY <1>3
<1>7. NotOffered(p) \/ Skipped(p, total) \/ Queued(p, total) BY DEF window_pane_read_callback
<1> HIDE DEF c, total
<1>8. CASE NotOffered(p) BY <1>1, <1>2, <1>4, <1>8, PendingKept DEF ControlTypes, NotOffered, Quiet
<1>9. CASE Skipped(p, total)
  <2> DEFINE d == [c EXCEPT !.offset = total, !.queued = total]
  <2>1. d \in ControlPane /\ d.exists /\ d.pending = cp[p].pending BY <1>5, <1>6 DEF ControlPane
  <2>2. cp' = [cp EXCEPT ![p] = d] /\ UNCHANGED <<all_blocks, pending_list, ev, flags, lines>>
    BY <1>9 DEF Skipped, Quiet, c
  <2> HIDE DEF d
  <2>3. cp' \in [Panes -> ControlPane] /\ \A q \in Panes : q # p => cp'[q] = cp[q] BY <1>1, <2>1, <2>2
  <2>4. cp'[p] = d BY <1>1, <2>1, <2>2
  <2>5. \A q \in Panes : cp'[q].pending = cp[q].pending /\ (~cp'[q].exists => ~cp'[q].pending)
    BY <2>1, <2>3, <2>4 DEF ControlTypes
  <2>6. PendingOnce' BY <1>1, <2>2, <2>5, PendingKept
  <2> QED BY <1>1, <1>2, <1>4, <2>2, <2>3, <2>5, <2>6 DEF ControlTypes
<1>10. CASE Queued(p, total) /\ TooOld(p)
  <2>1. control_check_age(p) /\ pending_list' = pending_list BY <1>10 DEF Queued
  <2>2. /\ cp' \in [Panes -> ControlPane] /\ \A q \in Panes : cp'[q].exists = cp[q].exists /\ cp'[q].pending = cp[q].pending
        /\ all_blocks' \in Seq(Block) /\ ev' \in Event /\ flags' \subseteq ControlFlags /\ lines' \in Nat
    BY <1>1, <2>1, CheckAgeTyped
  <2>3. PendingOnce' BY <1>1, <2>1, <2>2, PendingKept
  <2>4. \A q \in Panes : ~cp'[q].exists => ~cp'[q].pending BY <2>2 DEF ControlTypes
  <2> QED BY <1>1, <1>2, <1>4, <2>1, <2>2, <2>3, <2>4 DEF ControlTypes
<1>11. CASE Queued(p, total) /\ ~TooOld(p)
  <2> DEFINE d == [c EXCEPT !.queued = total, !.pending = TRUE]
             x == [of |-> p, size |-> total - c.queued, from |-> c.queued + 1, old |-> FALSE, orphan |-> FALSE]
  <2>1. d \in ControlPane /\ d.exists /\ d.pending BY <1>5, <1>6 DEF ControlPane
  <2>2. x \in Block BY <1>5, <1>6 DEF Block, ControlPane
  <2>3. /\ cp' = [cp EXCEPT ![p] = d] /\ all_blocks' = Append(all_blocks, x)
        /\ pending_list' = (IF c.pending THEN pending_list ELSE Append(pending_list, p))
        /\ ev' = Enabled(ev) /\ flags' = flags /\ lines' = lines
    BY <1>11 DEF Queued, Quiet, c
  <2> HIDE DEF d, x
  <2>4. cp' \in [Panes -> ControlPane] /\ cp'[p] = d /\ \A q \in Panes : q # p => cp'[q] = cp[q] BY <1>1, <2>1, <2>3
  <2>5. all_blocks' \in Seq(Block) BY <1>1, <2>2, <2>3
  <2>6. ev' \in Event
    <3>1. 0 \in Nat OBVIOUS
    <3> QED BY <1>1, <2>3, <3>1, EventTyped
  <2>7. pending_list' \in Seq(Panes) BY <1>1, <2>3
  <2>8. PendingOnce'
    <3>1. CASE c.pending
      <4>1. \A q \in Panes : cp'[q].pending <=> cp[q].pending BY <1>5, <2>1, <2>4, <3>1
      <4> QED BY <1>1, <2>3, <3>1, <4>1 DEF PendingOnce
    <3>2. CASE ~c.pending
      <4>1. pending_list' = Append(pending_list, p) /\ p \notin ToSet(pending_list) BY <1>1, <1>5, <2>3, <3>2 DEF PendingOnce
      <4>2. IsInjective(pending_list') BY <1>1, <4>1, AppendInjectiveSeq DEF PendingOnce
      <4>3. ToSet(pending_list') = ToSet(pending_list) \cup {p} BY <1>1, <4>1, AppendSet
      <4>4. \A q \in Panes : cp'[q].pending <=> cp[q].pending \/ q = p BY <2>1, <2>4
      <4>5. ToSet(pending_list) = {q \in Panes : cp[q].pending} BY <1>1 DEF PendingOnce
      <4> QED BY <4>2, <4>3, <4>4, <4>5 DEF PendingOnce
    <3> QED BY <3>1, <3>2
  <2>9. \A q \in Panes : ~cp'[q].exists => ~cp'[q].pending BY <2>1, <2>4 DEF ControlTypes
  <2> QED BY <1>1, <1>2, <1>4, <2>3, <2>4, <2>5, <2>6, <2>7, <2>8, <2>9 DEF ControlTypes
<1> QED BY <1>7, <1>8, <1>9, <1>10, <1>11

LEMMA OnePaneAlways ==
  ASSUME Always, NEW p \in Panes, NEW d \in ControlPane, d.exists, d.pending = cp[p].pending,
         cp' = [cp EXCEPT ![p] = d], pane' = pane, pending_list' = pending_list, flags' = flags, w' = w,
         all_blocks' \in Seq(Block), ev' \in Event, lines' \in Nat
  PROVE  Always'
<1>1. ControlTypes /\ PendingOnce /\ cp \in [Panes -> ControlPane] BY DEF Always, ControlTypes
<1>2. cp' \in [Panes -> ControlPane] /\ cp'[p] = d /\ \A q \in Panes : q # p => cp'[q] = cp[q] BY <1>1
<1>3. \A q \in Panes : cp'[q].pending = cp[q].pending BY <1>2
<1>4. \A q \in Panes : ~cp'[q].exists => ~cp'[q].pending BY <1>1, <1>2 DEF ControlTypes
<1>5. PendingOnce' BY <1>1, <1>3, PendingKept
<1> QED BY <1>2, <1>4, <1>5 DEF Always, ControlTypes

LEMMA CommandsAlways ==
  ASSUME Always, NEW p \in Panes,
         \/ control_set_pane_off(p) \/ control_set_pane_on(p)
         \/ control_continue_pane(p) \/ control_pause_pane(p)
  PROVE  Always'
<1>1. ControlTypes /\ all_blocks \in Seq(Block) /\ cp \in [Panes -> ControlPane] /\ ev \in Event /\ lines \in Nat
  BY DEF Always, ControlTypes
<1> DEFINE c == control_add_pane(p)
           a == AtEnd(cp[p], p)
<1>2. c \in ControlPane /\ c.exists /\ c.pending = cp[p].pending BY <1>1, AddPane
<1>3. a \in ControlPane /\ a.exists = cp[p].exists /\ a.pending = cp[p].pending BY <1>1, AtEndTyped
<1>4. cp[p] \in ControlPane /\ (~cp[p].exists => ~cp[p].pending) BY <1>1 DEF ControlTypes
<1> HIDE DEF c, a
<1>5. CASE control_set_pane_off(p)
  <2> DEFINE d == [c EXCEPT !.off = TRUE]
  <2>1. d \in ControlPane /\ d.exists /\ d.pending = cp[p].pending BY <1>2 DEF ControlPane
  <2>2. cp' = [cp EXCEPT ![p] = d] /\ UNCHANGED <<pane, all_blocks, pending_list, ev, flags, w, lines>>
    BY <1>5 DEF control_set_pane_off, Quiet, c
  <2> HIDE DEF d
  <2> QED BY <1>1, <2>1, <2>2, OnePaneAlways
<1>6. CASE control_pause_pane(p)
  <2> DEFINE d == [c EXCEPT !.paused = TRUE]
  <2>1. d \in ControlPane /\ d.exists /\ d.pending = cp[p].pending BY <1>2 DEF ControlPane
  <2>2. cp' = [cp EXCEPT ![p] = d] /\ UNCHANGED <<pane, pending_list, flags, w>>
        /\ control_write(Discarded(all_blocks, {p}))
    BY <1>6 DEF control_pause_pane, c
  <2>3. all_blocks' \in Seq(Block) /\ ev' \in Event /\ lines' \in Nat BY <1>1, <2>2, DiscardedTyped, WriteTyped
  <2> HIDE DEF d
  <2> QED BY <1>1, <2>1, <2>2, <2>3, OnePaneAlways
<1>7. CASE control_set_pane_on(p)
  <2> DEFINE d == [a EXCEPT !.off = FALSE]
  <2>1. d \in ControlPane /\ d.exists = cp[p].exists /\ d.pending = cp[p].pending BY <1>3 DEF ControlPane
  <2>2. cp' = [cp EXCEPT ![p] = d] /\ UNCHANGED <<pane, all_blocks, pending_list, ev, flags, w, lines>>
    BY <1>1, <1>7 DEF control_set_pane_on, Quiet, a
  <2> HIDE DEF d
  <2>3. cp' \in [Panes -> ControlPane] /\ cp'[p] = d /\ \A q \in Panes : q # p => cp'[q] = cp[q] BY <1>1, <2>1, <2>2
  <2>4. \A q \in Panes : cp'[q].pending = cp[q].pending /\ (~cp'[q].exists => ~cp'[q].pending)
    BY <1>1, <1>4, <2>1, <2>3 DEF ControlTypes
  <2>5. PendingOnce' BY <2>2, <2>4, PendingKept DEF Always
  <2> QED BY <1>1, <2>2, <2>3, <2>4, <2>5 DEF Always, ControlTypes
<1>8. CASE control_continue_pane(p)
  <2> DEFINE d == [a EXCEPT !.paused = FALSE]
  <2>1. d \in ControlPane /\ d.exists = cp[p].exists /\ d.pending = cp[p].pending BY <1>3 DEF ControlPane
  <2>2. cp' = [cp EXCEPT ![p] = d] /\ UNCHANGED <<pane, pending_list, flags, w>> /\ control_write(all_blocks)
    BY <1>1, <1>8 DEF control_continue_pane, a
  <2> HIDE DEF d
  <2>3. cp' \in [Panes -> ControlPane] /\ cp'[p] = d /\ \A q \in Panes : q # p => cp'[q] = cp[q] BY <1>1, <2>1, <2>2
  <2>4. \A q \in Panes : cp'[q].pending = cp[q].pending /\ (~cp'[q].exists => ~cp'[q].pending)
    BY <1>1, <1>4, <2>1, <2>3 DEF ControlTypes
  <2>5. PendingOnce' BY <2>2, <2>4, PendingKept DEF Always
  <2>6. all_blocks' \in Seq(Block) /\ ev' \in Event /\ lines' \in Nat BY <1>1, <2>2, WriteTyped
  <2> QED BY <1>1, <2>2, <2>3, <2>4, <2>5, <2>6 DEF Always, ControlTypes
<1> QED BY <1>5, <1>6, <1>7, <1>8

(* Steps that change only the panes.                                       *)
LEMMA PanesAlways ==
  ASSUME Always, pane' \in [Panes -> PaneType], flags' \subseteq ControlFlags, ev' \in Event, all_blocks' \in Seq(Block),
         lines' \in Nat, UNCHANGED <<cp, pending_list, w>>
  PROVE  Always'
<1>1. PendingOnce' BY PendingKept DEF Always
<1> QED BY <1>1 DEF Always, ControlTypes

LEMMA OutsideAlways ==
  ASSUME Always,
         \/ Notify \/ \E p \in Panes : LinkWindow(p) \/ PaneDies(p) \/ PaneRespawns(p)
         \/ \E f \in {"NOOUTPUT", "PAUSEAFTER"} : server_client_set_flags(f)
         \/ \E error \in BOOLEAN : ClientExits(error)
         \/ TimePasses \/ write_error \/ server_client_loop
  PROVE  Always'
<1>1. ControlTypes /\ all_blocks \in Seq(Block) /\ cp \in [Panes -> ControlPane] /\ ev \in Event /\ lines \in Nat
      /\ pane \in [Panes -> PaneType] /\ flags \subseteq ControlFlags
  BY DEF Always, ControlTypes
<1>2. CASE Notify
  <2>1. control_write(all_blocks) /\ UNCHANGED <<pane, cp, pending_list, flags, w>> BY <1>2 DEF Notify
  <2>2. all_blocks' \in Seq(Block) /\ ev' \in Event /\ lines' \in Nat BY <1>1, <2>1, WriteTyped
  <2> QED BY <1>1, <2>1, <2>2, PanesAlways
<1>3. ASSUME NEW p \in Panes, LinkWindow(p) PROVE Always'
  <2>1. pane[p] \in PaneType BY <1>1
  <2>2. pane' = [pane EXCEPT ![p].linked = ~@] /\ UNCHANGED <<cp, all_blocks, pending_list, ev, flags, w, lines>>
    BY <1>3 DEF LinkWindow, Quiet
  <2> DEFINE v == ~pane[p].linked
             r == [pane[p] EXCEPT !.linked = v]
  <2>3. pane' = [pane EXCEPT ![p] = r] BY <2>2
  <2>4. v \in BOOLEAN OBVIOUS
  <2> HIDE DEF v
  <2>5. r \in PaneType BY <2>1, <2>4 DEF PaneType
  <2> HIDE DEF r
  <2>6. pane' \in [Panes -> PaneType]
    <3>1. pane \in [Panes -> PaneType] /\ p \in Panes BY <1>1
    <3> QED BY ONLY <3>1, <2>3, <2>5
  <2> QED BY <1>1, <2>2, <2>6, PanesAlways
<1>4. ASSUME NEW p \in Panes, PaneDies(p) \/ PaneRespawns(p) PROVE Always'
  <2>1. UNCHANGED <<cp, all_blocks, pending_list, ev, flags, w, lines>> BY <1>4 DEF PaneDies, PaneRespawns, Quiet
  <2>2. pane' \in [Panes -> PaneType]
    <3>1. pane[p] \in PaneType BY <1>1
    <3>2. CASE PaneDies(p)
      <4>1. pane' = [pane EXCEPT ![p] = [pane[p] EXCEPT !.fd = FALSE, !.len = 0]] BY <3>2 DEF PaneDies
      <4>2. [pane[p] EXCEPT !.fd = FALSE] \in PaneType BY ONLY <3>1 DEF PaneType
      <4>3. \A r \in PaneType : [r EXCEPT !.len = 0] \in PaneType BY DEF PaneType
      <4>4. [pane[p] EXCEPT !.fd = FALSE, !.len = 0] \in PaneType BY ONLY <4>2, <4>3
      <4> QED BY ONLY <1>1, <4>1, <4>4
    <3>3. CASE PaneRespawns(p)
      <4>1. pane' = [pane EXCEPT ![p] = [pane[p] EXCEPT !.fd = TRUE, !.reading = TRUE]] BY <3>3 DEF PaneRespawns
      <4>2. [pane[p] EXCEPT !.fd = TRUE, !.reading = TRUE] \in PaneType BY ONLY <3>1 DEF PaneType
      <4> QED BY ONLY <1>1, <4>1, <4>2
    <3> QED BY <1>4, <3>2, <3>3
  <2> QED BY <1>1, <2>1, <2>2, PanesAlways
<1>5. ASSUME NEW f \in {"NOOUTPUT", "PAUSEAFTER"}, server_client_set_flags(f) PROVE Always'
  <2>1. flags' \subseteq ControlFlags BY <1>1, <1>5 DEF server_client_set_flags, ControlFlags
  <2>2. UNCHANGED <<pane, ev, w, lines>> BY <1>5 DEF server_client_set_flags, Quiet
  <2>3. CASE f = "NOOUTPUT"
    <3>1. cp' = [p \in Panes |-> NoPane] /\ pending_list' = <<>>
          /\ all_blocks' = [i \in DOMAIN all_blocks |-> [all_blocks[i] EXCEPT !.orphan = all_blocks[i].of # Line]]
      BY <1>5, <2>3 DEF server_client_set_flags
    <3>2. \A b \in Block : [b EXCEPT !.orphan = (b.of # Line)] \in Block BY DEF Block
    <3>3. all_blocks' \in Seq(Block)
      <4>1. DOMAIN all_blocks = 1 .. Len(all_blocks) /\ Len(all_blocks) \in Nat
            /\ \A i \in DOMAIN all_blocks : all_blocks[i] \in Block BY <1>1
      <4> QED BY <3>1, <3>2, <4>1
    <3>4. NoPane \in ControlPane /\ ~NoPane.pending BY DEF NoPane, ControlPane
    <3>5. cp' \in [Panes -> ControlPane] /\ \A p \in Panes : cp'[p] = NoPane BY <3>1, <3>4
    <3>6. PendingOnce' BY <3>1, <3>4, <3>5, EmptyQueue DEF PendingOnce
    <3>7. pending_list' \in Seq(Panes) BY <3>1
    <3> QED BY <1>1, <2>1, <2>2, <3>3, <3>4, <3>5, <3>6, <3>7 DEF Always, ControlTypes
  <2>4. CASE f # "NOOUTPUT"
    <3>1. UNCHANGED <<cp, pending_list, all_blocks>> BY <1>5, <2>4 DEF server_client_set_flags
    <3> QED BY <1>1, <2>1, <2>2, <3>1, PanesAlways
  <2> QED BY <2>3, <2>4
<1>6. ASSUME NEW error \in BOOLEAN, ClientExits(error) PROVE Always'
  <2>1. ev' \in Event BY <1>1, <1>6 DEF ClientExits, Event
  <2>2. flags' \subseteq ControlFlags BY <1>1, <1>6 DEF ClientExits, ControlFlags
  <2>3. UNCHANGED <<pane, cp, all_blocks, pending_list, w, lines>> BY <1>6 DEF ClientExits, Quiet
  <2> QED BY <1>1, <2>1, <2>2, <2>3, PanesAlways
<1>7. CASE TimePasses
  <2>1. all_blocks' = [i \in DOMAIN all_blocks |-> [all_blocks[i] EXCEPT !.old = TRUE]]
        /\ UNCHANGED <<pane, cp, pending_list, ev, flags, w, lines>>
    BY <1>7 DEF TimePasses, Quiet
  <2>2. \A b \in Block : [b EXCEPT !.old = TRUE] \in Block BY DEF Block
  <2>3. DOMAIN all_blocks = 1 .. Len(all_blocks) /\ Len(all_blocks) \in Nat
        /\ \A i \in DOMAIN all_blocks : all_blocks[i] \in Block BY <1>1
  <2>4. all_blocks' \in Seq(Block) BY <2>1, <2>2, <2>3
  <2> QED BY <1>1, <2>1, <2>4, PanesAlways
<1>8. CASE write_error
  <2>1. ev' \in Event BY <1>1, <1>8 DEF write_error, Event
  <2>2. flags' \subseteq ControlFlags BY <1>1, <1>8 DEF write_error, ControlFlags
  <2>3. UNCHANGED <<pane, cp, all_blocks, pending_list, w, lines>> BY <1>8 DEF write_error, Quiet
  <2> QED BY <1>1, <2>1, <2>2, <2>3, PanesAlways
<1>9. CASE server_client_loop
  <2>1. all_blocks' = AfterExit /\ pane' = [p \in Panes |-> server_client_check_pane_buffer(p)]
        /\ UNCHANGED <<cp, pending_list, ev, w, lines>>
    BY <1>9 DEF server_client_loop, Quiet
  <2>2. flags' \subseteq ControlFlags
    <3>1. flags' = flags \cup (IF "EXIT" \in flags /\ AfterExit = <<>> /\ ev.out = 0 THEN {"EXITED"} ELSE {})
      BY <1>9 DEF server_client_loop
    <3> QED BY <1>1, <3>1 DEF ControlFlags
  <2>3. all_blocks' \in Seq(Block) BY <1>1, <2>1, DiscardedTyped DEF AfterExit
  <2>4. ASSUME NEW p \in Panes PROVE server_client_check_pane_buffer(p) \in PaneType
    <3>1. pane[p] \in PaneType /\ cp[p] \in ControlPane BY <1>1
    <3>2. pane[p].offset \in Int /\ cp[p].offset \in Int /\ pane[p].base \in Int /\ pane[p].len \in Int
      BY <3>1 DEF PaneType, ControlPane
    <3> DEFINE m == IF Holds(p) THEN Smaller(pane[p].offset, cp[p].offset) ELSE pane[p].offset
    <3>3. m \in Int BY <3>2 DEF Smaller
    <3> DEFINE r == OtherClient \/ ~Stops(p)
    <3>4. server_client_check_pane_buffer(p) = IF ~pane[p].fd THEN pane[p]
               ELSE [pane[p] EXCEPT !.base = m, !.len = @ - (m - pane[p].base), !.reading = r]
      BY DEF server_client_check_pane_buffer
    <3>5. r \in BOOLEAN OBVIOUS
    <3> HIDE DEF m, r
    <3>6. pane[p].len - (m - pane[p].base) \in Int BY <3>2, <3>3
    <3>7. [pane[p] EXCEPT !.base = m, !.len = @ - (m - pane[p].base), !.reading = r] \in PaneType
      BY <3>1, <3>3, <3>5, <3>6 DEF PaneType
    <3> QED BY <3>1, <3>4, <3>7
  <2>5. pane' \in [Panes -> PaneType] BY <2>1, <2>4
  <2> QED BY <1>1, <2>1, <2>2, <2>3, <2>5, PanesAlways
<1> QED BY <1>2, <1>3, <1>4, <1>5, <1>6, <1>7, <1>8, <1>9

(* The write callback.                                                     *)
LEMMA WriterTyped ==
  ASSUME Always, w' \in WriterType, WriterGood(w'), all_blocks' \in Seq(Block), ev' \in Event, lines' \in Nat,
         UNCHANGED <<pane, cp, pending_list, flags>>
  PROVE  Always'
<1>1. PendingOnce' BY PendingKept DEF Always
<1>2. WriterGood(w)' BY DEF WriterGood, AtPane
<1> QED BY <1>1, <1>2 DEF Always, ControlTypes

LEMMA WriterMoves ==
  ASSUME NEW wr \in WriterType
  PROVE  /\ [wr EXCEPT !.pc = "loop"] \in WriterType
         /\ [wr EXCEPT !.pc = "pane", !.used = 0] \in WriterType
         /\ \A pc \in {"done", "flush"} : [wr EXCEPT !.pc = pc, !.msg = <<>>] \in WriterType
         /\ NoWriter \in WriterType /\ [NoWriter EXCEPT !.pc = "flush", !.ret = "loop"] \in WriterType
<1>1. <<>> \in Seq(Panes \X Int) /\ <<>> \in Seq(Panes) /\ 0 \in Int OBVIOUS
<1>2. [wr EXCEPT !.pc = "loop"] \in WriterType BY DEF WriterType
<1>4. [wr EXCEPT !.pc = "pane", !.used = 0] \in WriterType
  <2> DEFINE zero == 0
  <2>1. zero \in Int OBVIOUS
  <2> HIDE DEF zero
  <2>2. [wr EXCEPT !.pc = "pane", !.used = zero] \in WriterType BY <2>1 DEF WriterType
  <2> QED BY <2>2 DEF zero
<1>5. \A pc \in {"done", "flush"} : [wr EXCEPT !.pc = pc, !.msg = <<>>] \in WriterType
  <2> TAKE pc \in {"done", "flush"}
  <2> DEFINE empty == <<>>
  <2>1. empty \in Seq(Panes \X Int) BY <1>1
  <2> HIDE DEF empty
  <2>2. [wr EXCEPT !.pc = pc, !.msg = empty] \in WriterType BY <2>1 DEF WriterType
  <2> QED BY <2>2 DEF empty
<1>6. NoWriter \in WriterType
  <2> DEFINE empty == <<>>
  <2>1. empty \in Seq(Panes \X Int) /\ empty \in Seq(Panes) BY <1>1
  <2> HIDE DEF empty
  <2>2. [pc |-> "idle", ret |-> "idle", walk |-> empty, limit |-> 0, used |-> 0, msg |-> empty] \in WriterType
    BY <2>1 DEF WriterType
  <2> QED BY <2>2 DEF NoWriter, empty
<1>7. [NoWriter EXCEPT !.pc = "flush", !.ret = "loop"] \in WriterType BY <1>6 DEF WriterType
<1> QED BY <1>2, <1>4, <1>5, <1>6, <1>7

LEMMA FlushAlways ==
  ASSUME Always,
         \/ control_flush_all_blocks \/ control_write_callback \/ NextPane
         \/ \E n \in 0 .. ev.out : write_ready(n)
  PROVE  Always'
<1>1. ControlTypes /\ all_blocks \in Seq(Block) /\ ev \in Event /\ lines \in Nat /\ w \in WriterType /\ WriterGood(w)
      /\ pending_list \in Seq(Panes)
  BY DEF Always, ControlTypes
<1>2. ev.out \in Nat BY <1>1 DEF Event
<1>3. CASE control_flush_all_blocks
  <2>1. At("flush") /\ UNCHANGED <<pane, cp, pending_list, flags>> /\ w.pc = "flush"
    BY <1>3 DEF control_flush_all_blocks, At
  <2>2. CASE all_blocks # <<>> /\ Head(all_blocks).of = Line
    <3>1. all_blocks' = Tail(all_blocks) /\ ev' = Written(ev, 1) /\ UNCHANGED <<lines, w>>
      BY <1>3, <2>2 DEF control_flush_all_blocks
    <3>2. all_blocks' \in Seq(Block) BY <1>1, <2>2, <3>1
    <3>3. 1 \in Nat OBVIOUS
    <3>4. ev' \in Event BY <1>1, <3>1, <3>3, EventTyped
    <3> QED BY <1>1, <2>1, <3>1, <3>2, <3>4, WriterTyped
  <2>3. CASE ~(all_blocks # <<>> /\ Head(all_blocks).of = Line)
    <3>1. w' = [w EXCEPT !.pc = w.ret] /\ UNCHANGED <<all_blocks, ev, lines>>
      BY <1>3, <2>3 DEF control_flush_all_blocks, Quiet
    <3>2. w' \in WriterType BY <1>1, <3>1 DEF WriterType
    <3>3. WriterGood(w') BY <1>1, <2>1, <3>1 DEF WriterGood, AtPane, WriterType
    <3> QED BY <1>1, <2>1, <3>1, <3>2, <3>3, WriterTyped
  <2> QED BY <2>2, <2>3
<1>4. CASE control_write_callback
  <2>1. UNCHANGED <<pane, cp, all_blocks, pending_list, flags, lines>> BY <1>4 DEF control_write_callback, Quiet
  <2>2. CASE ev.out < High /\ pending_list # <<>>
    <3> DEFINE share == ((High - ev.out) \div Len(pending_list)) \div 3
               limit == IF share < Minimum THEN Minimum ELSE share
    <3>1. w' = [w EXCEPT !.pc = "walk", !.walk = pending_list, !.limit = limit] /\ ev' = ev
      BY <1>4, <2>2 DEF control_write_callback
    <3>2. Len(pending_list) \in Nat /\ Len(pending_list) > 0 BY <1>1, <2>2
    <3>3. High - ev.out \in Int BY <1>2, ControlAssumption
    <3>4. (High - ev.out) \div Len(pending_list) \in Int BY <3>2, <3>3
    <3>5. share \in Int BY <3>4
    <3>6. limit \in Int /\ limit >= 1 BY <3>5, ControlAssumption
    <3> HIDE DEF share, limit
    <3>7. w' \in WriterType BY <1>1, <3>1, <3>6 DEF WriterType
    <3>8. WriterGood(w')
      <4>1. w'.pc = "walk" /\ w'.limit = limit BY <1>1, <3>1 DEF WriterType
      <4> QED BY <3>6, <4>1 DEF WriterGood, AtPane
    <3> QED BY <1>1, <2>1, <3>1, <3>7, <3>8, WriterTyped
  <2>3. CASE ~(ev.out < High /\ pending_list # <<>>)
    <3>1. w' = NoWriter /\ ev' = (IF ev.out = 0 THEN [ev EXCEPT !.enabled = FALSE, !.armed = FALSE]
                     ELSE [ev EXCEPT !.armed = @ \/ ev.enabled])
      BY <1>4, <2>3 DEF control_write_callback
    <3>2. ev' \in Event BY <1>1, <3>1 DEF Event
    <3>3. w' \in WriterType BY <1>1, <3>1, WriterMoves
    <3>4. WriterGood(w') BY <3>1 DEF NoWriter, WriterGood, AtPane
    <3> QED BY <1>1, <2>1, <3>2, <3>3, <3>4, WriterTyped
  <2> QED BY <2>2, <2>3
<1>5. CASE NextPane
  <2>1. w.pc = "walk" /\ UNCHANGED <<pane, cp, all_blocks, pending_list, ev, flags, lines>>
        /\ w' = (IF w.walk = <<>> \/ ev.out >= High THEN [w EXCEPT !.pc = "loop"]
                 ELSE [w EXCEPT !.pc = "pane", !.used = 0])
    BY <1>5 DEF NextPane, At, Quiet
  <2>2. w' \in WriterType BY <1>1, <2>1, WriterMoves
  <2>3. WriterGood(w')
    <3>1. CASE w.walk = <<>> \/ ev.out >= High
      <4>1. w'.pc = "loop" BY <1>1, <2>1, <3>1 DEF WriterType
      <4> QED BY <4>1 DEF WriterGood, AtPane
    <3>2. CASE ~(w.walk = <<>> \/ ev.out >= High)
      <4>1. w'.pc = "pane" /\ w'.used = 0 /\ w'.limit = w.limit /\ w'.walk # <<>> BY <1>1, <2>1, <3>2 DEF WriterType
      <4>2. w.limit >= 1 /\ w.limit \in Int BY <1>1, <2>1 DEF WriterGood, WriterType
      <4> QED BY <4>1, <4>2 DEF WriterGood, AtPane
    <3> QED BY <3>1, <3>2
  <2> QED BY <1>1, <2>1, <2>2, <2>3, WriterTyped
<1>6. ASSUME NEW n \in 0 .. ev.out, write_ready(n) PROVE Always'
  <2>1. UNCHANGED <<pane, cp, all_blocks, pending_list, flags, lines>>
        /\ ev' = [ev EXCEPT !.out = @ - n, !.armed = ev.out # n]
        /\ w' = (IF ev.out - n <= Low THEN [NoWriter EXCEPT !.pc = "flush", !.ret = "loop"] ELSE w)
    BY <1>6 DEF write_ready, Quiet
  <2>2. ev.out - n \in Nat BY <1>2
  <2>3. ev' \in Event BY <1>1, <2>1, <2>2 DEF Event
  <2>4. w' \in WriterType /\ WriterGood(w')
    <3>1. CASE ev.out - n <= Low
      <4>1. w' = [NoWriter EXCEPT !.pc = "flush", !.ret = "loop"] /\ w' \in WriterType BY <1>1, <2>1, <3>1, WriterMoves
      <4>2. w'.pc = "flush" /\ w'.ret = "loop" BY <4>1 DEF NoWriter
      <4> QED BY <4>1, <4>2 DEF WriterGood, AtPane
    <3>2. CASE ~(ev.out - n <= Low) BY <1>1, <2>1, <3>2
    <3> QED BY <3>1, <3>2
  <2> QED BY <1>1, <2>1, <2>3, <2>4, WriterTyped
<1> QED BY <1>3, <1>4, <1>5, <1>6

LEMMA PaneGoneAlways ==
  ASSUME Always, PaneGone
  PROVE  Always'
<1>1. all_blocks \in Seq(Block) /\ w \in WriterType /\ WriterGood(w) /\ ev \in Event /\ lines \in Nat
  BY DEF Always, ControlTypes
<1>2. /\ w.pc = "pane" /\ all_blocks' = Discarded(all_blocks, {Head(w.walk)})
      /\ w' = [w EXCEPT !.pc = "flush", !.ret = "done"] /\ UNCHANGED <<pane, cp, pending_list, ev, flags, lines>>
  BY DEF PaneGone, At, Quiet
<1>3. all_blocks' \in Seq(Block) BY <1>1, <1>2, DiscardedTyped
<1>4. w' \in WriterType BY <1>1, <1>2 DEF WriterType
<1>5. WriterGood(w') BY <1>1, <1>2 DEF WriterType, WriterGood, AtPane
<1> QED BY <1>1, <1>2, <1>3, <1>4, <1>5, WriterTyped

LEMMA PaneTooOldAlways ==
  ASSUME Always, PaneTooOld
  PROVE  Always'
<1> DEFINE p == Head(w.walk)
<1>1. ControlTypes /\ w \in WriterType /\ WriterGood(w) BY DEF Always, ControlTypes
<1>2. /\ w.pc = "pane" /\ control_check_age(p) /\ UNCHANGED <<pane, pending_list>>
      /\ w' = [w EXCEPT !.pc = "done", !.msg = <<>>]
  BY DEF PaneTooOld, At
<1>3. p \in Panes BY <1>1, <1>2, AtHead DEF AtPane
<1> HIDE DEF p
<1>4. /\ cp' \in [Panes -> ControlPane] /\ \A q \in Panes : cp'[q].exists = cp[q].exists /\ cp'[q].pending = cp[q].pending
      /\ all_blocks' \in Seq(Block) /\ ev' \in Event /\ flags' \subseteq ControlFlags /\ lines' \in Nat
  BY <1>1, <1>2, <1>3, CheckAgeTyped
<1>5. PendingOnce' BY <1>2, <1>4, PendingKept DEF Always
<1>6. w' \in WriterType BY <1>1, <1>2, WriterMoves
<1>7. WriterGood(w)'
  <2>1. w'.pc = "done" /\ w'.walk = w.walk /\ w'.limit = w.limit BY <1>1, <1>2 DEF WriterType
  <2> QED BY <1>1, <1>2, <2>1 DEF WriterGood, AtPane
<1>8. \A q \in Panes : ~cp'[q].exists => ~cp'[q].pending BY <1>1, <1>4 DEF ControlTypes
<1> QED BY <1>1, <1>2, <1>4, <1>5, <1>6, <1>7, <1>8 DEF Always, ControlTypes

LEMMA WriteDataAlways ==
  ASSUME Always, control_write_data
  PROVE  Always'
<1>1. all_blocks \in Seq(Block) /\ w \in WriterType /\ WriterGood(w) /\ ev \in Event /\ lines \in Nat
  BY DEF Always, ControlTypes
<1>2. /\ ev' = Written(ev, Len(w.msg)) /\ UNCHANGED <<pane, cp, all_blocks, pending_list, flags, lines>>
      /\ \/ w.pc = "write" /\ w' = [w EXCEPT !.pc = "flush", !.msg = <<>>]
         \/ w.pc = "pane" /\ w' = [w EXCEPT !.pc = "done", !.msg = <<>>]
  BY DEF control_write_data, At
<1>3. Len(w.msg) \in Nat BY <1>1 DEF WriterType
<1>4. ev' \in Event BY <1>1, <1>2, <1>3, EventTyped
<1>5. w' \in WriterType BY <1>1, <1>2, WriterMoves
<1>6. WriterGood(w')
  <2>1. CASE w.pc = "write" /\ w' = [w EXCEPT !.pc = "flush", !.msg = <<>>]
    <3>1. w'.pc = "flush" /\ w'.ret = w.ret /\ w'.walk = w.walk /\ w'.limit = w.limit /\ w'.used = w.used
      BY <1>1, <2>1 DEF WriterType
    <3> QED BY <1>1, <2>1, <3>1 DEF WriterGood, AtPane
  <2>2. CASE w.pc = "pane" /\ w' = [w EXCEPT !.pc = "done", !.msg = <<>>]
    <3>1. w'.pc = "done" /\ w'.walk = w.walk /\ w'.limit = w.limit BY <1>1, <2>2 DEF WriterType
    <3> QED BY <1>1, <2>2, <3>1 DEF WriterGood, AtPane
  <2> QED BY <1>2, <2>1, <2>2
<1> QED BY <1>1, <1>2, <1>4, <1>5, <1>6, WriterTyped

LEMMA PaneDoneAlways ==
  ASSUME Always, PaneDone
  PROVE  Always'
<1> DEFINE p == Head(w.walk)
           empty == Mine(p) = {}
<1>1. ControlTypes /\ w \in WriterType /\ WriterGood(w) /\ cp \in [Panes -> ControlPane] /\ pending_list \in Seq(Panes)
      /\ PendingOnce
  BY DEF Always, ControlTypes
<1>2. /\ w.pc = "done" /\ UNCHANGED <<pane, all_blocks, ev, flags, lines>>
      /\ w' = [w EXCEPT !.pc = "walk", !.walk = Tail(@)]
      /\ cp' = [cp EXCEPT ![p].pending = @ /\ ~empty]
      /\ pending_list' = (IF empty THEN Only(pending_list, Panes \ {p}) ELSE pending_list)
  BY DEF PaneDone, At, Quiet
<1>3. p \in Panes /\ w.walk # <<>> /\ Tail(w.walk) \in Seq(Panes) BY <1>1, <1>2, AtHead DEF AtPane
<1>4. empty \in BOOLEAN OBVIOUS
<1> HIDE DEF p, empty
<1>5. w' \in WriterType BY <1>1, <1>2, <1>3 DEF WriterType
<1>6. WriterGood(w)'
  <2>1. w'.pc = "walk" /\ w'.limit = w.limit BY <1>1, <1>2 DEF WriterType
  <2> QED BY <1>1, <1>2, <2>1 DEF WriterGood, AtPane
<1>7. CASE empty
  <2>1. cp' = [cp EXCEPT ![p] = [cp[p] EXCEPT !.pending = FALSE]] BY <1>1, <1>2, <1>3, <1>7 DEF ControlPane
  <2>2. [cp[p] EXCEPT !.pending = FALSE] \in ControlPane BY <1>1, <1>3 DEF ControlPane
  <2>3. /\ cp' \in [Panes -> ControlPane] /\ \A q \in Panes : q # p => cp'[q] = cp[q]
        /\ ~cp'[p].pending
    BY <1>1, <1>3, <2>1, <2>2 DEF ControlPane
  <2>4. IsInjective(pending_list) /\ ToSet(pending_list) = {q \in Panes : cp[q].pending} BY <1>1 DEF PendingOnce
  <2>5. /\ pending_list' \in Seq(Panes) /\ ToSet(pending_list') = ToSet(pending_list) \cap (Panes \ {p})
        /\ IsInjective(pending_list')
    BY <1>1, <1>2, <1>7, <2>4, AheadOnly
  <2>6. \A q \in Panes : cp'[q].pending <=> cp[q].pending /\ q # p BY <2>3
  <2>7. PendingOnce' BY <2>4, <2>5, <2>6 DEF PendingOnce
  <2>8. \A q \in Panes : ~cp'[q].exists => ~cp'[q].pending BY <1>1, <2>3 DEF ControlTypes
  <2> QED BY <1>1, <1>2, <1>5, <1>6, <2>3, <2>5, <2>7, <2>8 DEF Always, ControlTypes
<1>8. CASE ~empty
  <2>1. cp' = cp BY <1>1, <1>2, <1>3, <1>8 DEF ControlPane
  <2>2. PendingOnce' BY <1>1, <1>2, <1>8, <2>1, PendingKept
  <2> QED BY <1>1, <1>2, <1>5, <1>6, <1>8, <2>1, <2>2 DEF Always, ControlTypes
<1> QED BY <1>7, <1>8

(* What control_append_data does with the oldest block of the pane.        *)
AppendEffect(p, i, cb, size) ==
    /\ w.pc = "pane" /\ p \in Panes /\ ~Gone(p) /\ faults \subseteq Beyond
    /\ i \in DOMAIN all_blocks /\ cb \in Block /\ cb \in ToSet(all_blocks) /\ BlockOf(cb, {p})
    /\ \A j \in DOMAIN all_blocks : BlockOf(all_blocks[j], {p}) => i <= j
    /\ size \in Int /\ size <= cb.size /\ w.used + size <= w.limit
    /\ size >= 1 \/ cb.size < 1
    /\ IF size = cb.size THEN all_blocks' = RemoveAt(all_blocks, i)
       ELSE all_blocks' = [all_blocks EXCEPT ![i] = Shrunk(cb, size)]
    /\ cp' = [cp EXCEPT ![p].offset = @ + size]
    /\ w'.pc \in {"pane", "write"} /\ w'.ret = "pane" /\ w'.walk = w.walk /\ w'.limit = w.limit
    /\ w'.used = w.used + size /\ w'.msg = w.msg \o [k \in 1 .. size |-> <<p, cp[p].offset + k>>]
    /\ w' \in WriterType
    /\ UNCHANGED <<pane, pending_list, ev, flags, lines>> /\ sent' = <<>>
    /\ faults' = faults \cup Fault(cp[p].offset + 1 <= pane[p].base, "gone")
                        \cup Fault(cp[p].offset + size > Total(p), "fatal")

LEMMA AppendFacts ==
  ASSUME Always, control_append_data
  PROVE  \E p, i, cb, size : p = Head(w.walk) /\ cb = all_blocks[i] /\ AppendEffect(p, i, cb, size)
<1> DEFINE p == Head(w.walk)
           i == Least(Mine(p))
           cb == all_blocks[i]
           size == Smaller(cb.size, w.limit - w.used)
<1>1. ControlTypes /\ w \in WriterType /\ WriterGood(w) /\ all_blocks \in Seq(Block) /\ cp \in [Panes -> ControlPane]
      /\ pane \in [Panes -> PaneType]
  BY ZenonT(60) DEF Always, ControlTypes
<1>2. w.pc = "pane" /\ ~Gone(p) /\ More(p) /\ faults \subseteq Beyond BY DEF control_append_data, At, Usable
<1>3. p \in Panes BY <1>1, <1>2, AtHead DEF AtPane
<1>4. /\ i \in DOMAIN all_blocks /\ cb \in Block /\ BlockOf(cb, {p})
      /\ \A j \in Mine(p) : i <= j
  BY <1>1, <1>2, MineIs DEF More
<1>5. cb \in ToSet(all_blocks) /\ \A j \in DOMAIN all_blocks : BlockOf(all_blocks[j], {p}) => i <= j
  BY <1>4 DEF ToSet, Mine
<1>6. w.used # w.limit /\ w.used <= w.limit /\ w.used \in Int /\ w.limit \in Int /\ cb.size \in Int
  BY <1>1, <1>2, <1>4 DEF More, WriterGood, WriterType, Block
<1>7. /\ size \in Int /\ size <= cb.size /\ w.used + size <= w.limit /\ (size >= 1 \/ cb.size < 1)
  <2>1. size = IF cb.size < w.limit - w.used THEN cb.size ELSE w.limit - w.used BY DEF Smaller
  <2> QED BY <1>6, <2>1
<1>8. cp[p].offset \in Int /\ pane[p].base \in Int /\ Total(p) \in Int BY SMTT(30), <1>1, <1>3 DEF ControlPane, PaneType, Total
<1> DEFINE rest == IF size = cb.size THEN RemoveAt(all_blocks, i)
                   ELSE [all_blocks EXCEPT ![i] = [cb EXCEPT !.size = @ - size, !.from = @ + size]]
           pc == IF size = cb.size /\ rest # <<>> /\ Head(rest).of = Line THEN "write" ELSE "pane"
           data == [k \in 1 .. size |-> <<p, cp[p].offset + 1 + k - 1>>]
           piece == [k \in 1 .. size |-> <<p, cp[p].offset + k>>]
<1>9. /\ all_blocks' = rest /\ cp' = [cp EXCEPT ![p].offset = @ + size]
      /\ w' = [w EXCEPT !.used = @ + size, !.msg = @ \o data, !.pc = pc, !.ret = "pane"]
      /\ UNCHANGED <<pane, pending_list, ev, flags, lines>> /\ sent' = <<>>
      /\ faults' = faults \cup Fault(cp[p].offset + 1 <= pane[p].base, "gone")
                          \cup Fault(cp[p].offset + 1 + size - 1 > Total(p), "fatal")
  BY ZenonT(60) DEF control_append_data, Quiet
<1> HIDE DEF p, i, cb, size
<1>10. all_blocks' = rest /\ (size = cb.size => rest = RemoveAt(all_blocks, i))
       /\ (size # cb.size => rest = [all_blocks EXCEPT ![i] = [cb EXCEPT !.size = @ - size, !.from = @ + size]])
  BY <1>9
<1>11. pc \in {"pane", "write"} OBVIOUS
<1>12. data = piece
  <2>1. \A k \in 1 .. size : cp[p].offset + 1 + k - 1 = cp[p].offset + k BY <1>7, <1>8
  <2> QED BY <2>1
<1>13. piece \in Seq(Panes \X Int)
  <2>1. \A k \in 1 .. size : cp[p].offset + k \in Int BY <1>7, <1>8
  <2>2. piece \in [1 .. size -> Panes \X Int] BY <1>3, <2>1
  <2> QED BY <1>7, <2>2, IntSeq
<1>14. faults' = faults \cup Fault(cp[p].offset + 1 <= pane[p].base, "gone")
                             \cup Fault(cp[p].offset + size > Total(p), "fatal")
  <2>1. cp[p].offset + 1 + size - 1 = cp[p].offset + size BY <1>7, <1>8
  <2> QED BY <1>9, <2>1
<1> HIDE DEF rest, pc, data, piece
<1>15. w' = [w EXCEPT !.used = @ + size, !.msg = @ \o piece, !.pc = pc, !.ret = "pane"] BY <1>9, <1>12
<1>16. w.msg \o piece \in Seq(Panes \X Int) /\ w.used + size \in Int BY <1>1, <1>6, <1>7, <1>13 DEF WriterType
<1>17. w' \in WriterType BY <1>1, <1>11, <1>15, <1>16 DEF WriterType
<1>18. w'.pc \in {"pane", "write"} /\ w'.ret = "pane" /\ w'.walk = w.walk /\ w'.limit = w.limit
       /\ w'.used = w.used + size /\ w'.msg = w.msg \o piece
  BY <1>1, <1>11, <1>15 DEF WriterType
<1>19. w'.msg = w.msg \o [k \in 1 .. size |-> <<p, cp[p].offset + k>>] BY <1>18 DEF piece
<1>20. /\ w.pc = "pane" /\ p \in Panes /\ ~Gone(p) /\ faults \subseteq Beyond
       /\ i \in DOMAIN all_blocks /\ cb \in Block /\ cb \in ToSet(all_blocks) /\ BlockOf(cb, {p})
       /\ \A j \in DOMAIN all_blocks : BlockOf(all_blocks[j], {p}) => i <= j
       /\ size \in Int /\ size <= cb.size /\ w.used + size <= w.limit
       /\ size >= 1 \/ cb.size < 1
  BY <1>2, <1>3, <1>4, <1>5, <1>7
<1>21. /\ IF size = cb.size THEN all_blocks' = RemoveAt(all_blocks, i)
          ELSE all_blocks' = [all_blocks EXCEPT ![i] = Shrunk(cb, size)]
       /\ cp' = [cp EXCEPT ![p].offset = @ + size]
       /\ UNCHANGED <<pane, pending_list, ev, flags, lines>> /\ sent' = <<>>
  BY <1>9, <1>10 DEF Shrunk
<1>22. AppendEffect(p, i, cb, size)
  BY ONLY <1>14, <1>17, <1>18, <1>19, <1>20, <1>21 DEF AppendEffect
<1>23. p = Head(w.walk) /\ cb = all_blocks[i] BY DEF p, cb
<1> QED BY ONLY <1>22, <1>23

LEMMA AppendDataAlways ==
  ASSUME Always, control_append_data
  PROVE  Always'
<1>1. ControlTypes /\ w \in WriterType /\ WriterGood(w) /\ all_blocks \in Seq(Block) /\ cp \in [Panes -> ControlPane]
      /\ PendingOnce
  BY DEF Always, ControlTypes
<1>2. PICK p, i, cb, size : cb = all_blocks[i] /\ AppendEffect(p, i, cb, size) BY AppendFacts
<1>0. /\ w.pc = "pane" /\ p \in Panes
      /\ i \in DOMAIN all_blocks /\ cb \in Block
      /\ size \in Int /\ w.used + size <= w.limit
      /\ IF size = cb.size THEN all_blocks' = RemoveAt(all_blocks, i)
         ELSE all_blocks' = [all_blocks EXCEPT ![i] = Shrunk(cb, size)]
      /\ cp' = [cp EXCEPT ![p].offset = @ + size]
      /\ w'.pc \in {"pane", "write"} /\ w'.ret = "pane" /\ w'.walk = w.walk /\ w'.limit = w.limit
      /\ w'.used = w.used + size
      /\ w' \in WriterType
      /\ UNCHANGED <<pane, pending_list, ev, flags, lines>>
  BY <1>2 DEF AppendEffect
<1>3. all_blocks' \in Seq(Block)
  <2>1. CASE size = cb.size
    <3>1. all_blocks' = RemoveAt(all_blocks, i) BY <1>0, <2>1
    <3>2. i \in 1 .. Len(all_blocks) /\ Len(all_blocks) \in Nat BY <1>1, <1>0
    <3>3. SubSeq(all_blocks, 1, i - 1) \in Seq(Block) /\ SubSeq(all_blocks, i + 1, Len(all_blocks)) \in Seq(Block)
      BY <1>1, <3>2, SubSeqProperties
    <3> QED BY <3>1, <3>3 DEF RemoveAt
  <2>2. CASE size # cb.size
    <3> DEFINE x == Shrunk(cb, size)
    <3>1. cb.size - size \in Int /\ cb.from + size \in Int BY <1>0 DEF Block
    <3>2. x \in Block BY <1>0, <3>1 DEF Block, Shrunk
    <3>3. all_blocks' = [all_blocks EXCEPT ![i] = x] BY <1>0, <2>2
    <3> HIDE DEF x
    <3>4. all_blocks \in Seq(Block) /\ DOMAIN all_blocks = 1 .. Len(all_blocks) /\ Len(all_blocks) \in Nat
          /\ \A j \in DOMAIN all_blocks : all_blocks[j] \in Block
      BY <1>1
    <3>5. /\ DOMAIN all_blocks' = 1 .. Len(all_blocks)
          /\ \A j \in 1 .. Len(all_blocks) : all_blocks'[j] \in Block
          /\ all_blocks' = [j \in 1 .. Len(all_blocks) |-> all_blocks'[j]]
      BY <3>2, <3>3, <3>4
    <3> QED BY ONLY <3>4, <3>5
  <2> QED BY <2>1, <2>2
<1>4. cp' \in [Panes -> ControlPane] /\ \A q \in Panes : cp'[q].pending = cp[q].pending /\ cp'[q].exists = cp[q].exists
  <2>1. cp[p] \in ControlPane /\ cp[p].offset + size \in Int BY <1>1, <1>0 DEF ControlPane
  <2> DEFINE d == [cp[p] EXCEPT !.offset = @ + size]
  <2>2. d \in ControlPane /\ d.pending = cp[p].pending /\ d.exists = cp[p].exists BY <2>1 DEF ControlPane
  <2>3. cp' = [cp EXCEPT ![p] = d] BY <1>0
  <2> HIDE DEF d
  <2> QED BY <1>1, <1>0, <2>2, <2>3
<1>5. PendingOnce' BY <1>1, <1>0, <1>4, PendingKept
<1>6. WriterGood(w)' BY <1>1, <1>0 DEF WriterGood, AtPane
<1>7. \A q \in Panes : ~cp'[q].exists => ~cp'[q].pending BY <1>1, <1>4 DEF ControlTypes
<1> QED BY <1>1, <1>0, <1>3, <1>4, <1>5, <1>6, <1>7 DEF Always, ControlTypes

LEMMA AlwaysStep == Always /\ [Next]_vars => Always'
<1>1. ASSUME Always, UNCHANGED vars PROVE Always'
  <2>1. WriterGood(w)' BY <1>1 DEF vars, Always, WriterGood, AtPane
  <2> QED BY <1>1, <2>1, PendingKept DEF vars, Always, ControlTypes
<1>2. ASSUME Always, Next PROVE Always'
  <2>1. ASSUME NEW p \in Panes, NEW k \in 1 .. 2, window_pane_read_callback(p, k) PROVE Always'
    BY <1>2, <2>1, ReadAlways
  <2>2. ASSUME NEW p \in Panes, \/ control_set_pane_off(p) \/ control_set_pane_on(p)
                               \/ control_continue_pane(p) \/ control_pause_pane(p)
        PROVE  Always'
    BY <1>2, <2>2, CommandsAlways
  <2>3. CASE \/ Notify \/ \E p \in Panes : LinkWindow(p) \/ PaneDies(p) \/ PaneRespawns(p)
             \/ \E f \in {"NOOUTPUT", "PAUSEAFTER"} : server_client_set_flags(f)
             \/ \E error \in BOOLEAN : ClientExits(error)
             \/ TimePasses \/ write_error \/ server_client_loop
    BY <1>2, <2>3, OutsideAlways
  <2>4. CASE \/ control_flush_all_blocks \/ control_write_callback \/ NextPane
             \/ \E n \in 0 .. ev.out : write_ready(n)
    BY <1>2, <2>4, FlushAlways
  <2>5. CASE PaneGone BY <1>2, <2>5, PaneGoneAlways
  <2>6. CASE PaneTooOld BY <1>2, <2>6, PaneTooOldAlways
  <2>7. CASE control_append_data BY <1>2, <2>7, AppendDataAlways
  <2>8. CASE control_write_data BY <1>2, <2>8, WriteDataAlways
  <2>9. CASE PaneDone BY <1>2, <2>9, PaneDoneAlways
  <2> QED BY <1>2, <2>1, <2>2, <2>3, <2>4, <2>5, <2>6, <2>7, <2>8, <2>9 DEF Next, Writer
<1> QED BY <1>1, <1>2

-----------------------------------------------------------------------------
(* The steps keep the blocks and the offsets of the panes in accord, as    *)
(* long as no fault happens.                                               *)
LEMMA CoversSame ==
  ASSUME NEW p, NEW S, NEW T, NEW c, NEW f, NEW g, Covers(S, p, c, f),
         \A b : BlockOf(b, {p}) => (b \in T <=> b \in S),
         "NOOUTPUT" \in g <=> "NOOUTPUT" \in f
  PROVE  Covers(T, p, c, g)
<1>1. SUFFICES ASSUME NEW b \in T, BlockOf(b, {p})
               PROVE  /\ Holding(c, g) /\ c.pending
                      /\ \A d \in T : BlockOf(d, {p}) => c.offset < d.from /\ d.from + d.size <= c.queued + 1
                      /\ \A n \in c.offset + 1 .. c.queued :
                            \E d \in T : BlockOf(d, {p}) /\ d.from <= n /\ n < d.from + d.size
  BY DEF Covers
<1>2. b \in S BY <1>1
<1>3. /\ Holding(c, f) /\ c.pending
      /\ \A d \in S : BlockOf(d, {p}) => c.offset < d.from /\ d.from + d.size <= c.queued + 1
      /\ \A n \in c.offset + 1 .. c.queued :
            \E d \in S : BlockOf(d, {p}) /\ d.from <= n /\ n < d.from + d.size
  BY <1>1, <1>2 DEF Covers
<1>4. Holding(c, g) BY <1>3 DEF Holding
<1>5. \A d \in T : BlockOf(d, {p}) => c.offset < d.from /\ d.from + d.size <= c.queued + 1 BY <1>3
<1>6. ASSUME NEW n \in c.offset + 1 .. c.queued
      PROVE  \E d \in T : BlockOf(d, {p}) /\ d.from <= n /\ n < d.from + d.size
  BY <1>3, <1>6
<1> QED BY <1>3, <1>4, <1>5, <1>6

LEMMA CoversNone ==
  ASSUME NEW p, NEW S, NEW c, NEW f, \A b \in S : ~BlockOf(b, {p})
  PROVE  Covers(S, p, c, f)
  BY DEF Covers

LEMMA OffsetsKept ==
  ASSUME NEW q, NEW c, NEW f, NEW d, NEW g, Offsets(q, c, f),
         d.exists = c.exists, d.offset = c.offset, d.queued = c.queued, Holding(d, g) => Holding(c, f)
  PROVE  Offsets(q, d, g)
  BY DEF Offsets

(* Nothing of the pane is waiting: the offset may be moved to the end.      *)
LEMMA OffsetsAtEnd ==
  ASSUME NEW q \in PaneType, NEW c, NEW f, NEW d, NEW g, Offsets(q, c, f), d.offset = q.offset, d.queued = q.offset
  PROVE  Offsets(q, d, g)
<1>1. q.base \in Int /\ q.offset \in Int BY DEF PaneType
<1> QED BY <1>1 DEF Offsets

LEMMA NoMessage ==
  ASSUME MessageGood, w.pc \notin {"pane", "write"}
  PROVE  w.msg = <<>>
  BY DEF MessageGood

LEMMA WriteClean ==
  ASSUME ControlTypes, NEW all, BlockQueue(all, lines), control_write(all)
  PROVE  /\ BlockQueue(all_blocks', lines')
         /\ \A p \in Panes : \A b : BlockOf(b, {p}) => (b \in ToSet(all_blocks') <=> b \in ToSet(all))
<1> DEFINE x == LineBlock(lines + 1)
<1>1. lines \in Nat BY DEF ControlTypes
<1>2. lines' = lines + 1 /\ all_blocks' = (IF all = <<>> THEN <<>> ELSE Append(all, x)) BY DEF control_write, LineBlock
<1>3. BlockQueue(all, lines) OBVIOUS
<1>4. BlockQueue(Append(all, x), lines + 1) /\ ToSet(Append(all, x)) = ToSet(all) \cup {x}
  BY ONLY <1>1, <1>3, LineAppended
<1>5. \A p \in Panes : ~BlockOf(x, {p}) BY PanesAssumption DEF BlockOf, LineBlock
<1> HIDE DEF x
<1>6. CASE all = <<>>
  <2>1. \A b \in ToSet(<<>>) : FALSE BY EmptyQueue
  <2>2. BlockQueue(<<>>, lines + 1)
    <3>1. Ordered(<<>>) BY <2>1, InAhead DEF Ordered
    <3>2. <<>> \in Seq(Block) OBVIOUS
    <3> QED BY <2>1, <3>1, <3>2 DEF BlockQueue
  <2> QED BY <1>2, <1>6, <2>2
<1>7. CASE all # <<>> BY <1>2, <1>4, <1>5, <1>7
<1> QED BY <1>6, <1>7

LEMMA CleanFrom ==
  ASSUME \A p \in Panes : Offsets(pane'[p], cp'[p], flags') /\ Covers(ToSet(all_blocks'), p, cp'[p], flags'),
         BlockQueue(all_blocks', lines'), w'.msg = <<>>
  PROVE  Clean'
  BY DEF Clean, MessageGood

LEMMA DiscardClean ==
  ASSUME ControlTypes, BlockQueue(all_blocks, lines), NEW P
  PROVE  /\ BlockQueue(Discarded(all_blocks, P), lines)
         /\ \A b : b \in ToSet(Discarded(all_blocks, P)) <=> b \in ToSet(all_blocks) /\ ~BlockOf(b, P)
<1>1. lines \in Nat /\ BlockQueue(all_blocks, lines) BY DEF ControlTypes
<1>2. /\ BlockQueue(Discarded(all_blocks, P), lines)
      /\ ToSet(Discarded(all_blocks, P)) = {b \in ToSet(all_blocks) : ~BlockOf(b, P)}
  BY ONLY <1>1, BlocksDiscarded
<1> QED BY <1>2

(* Blocks of panes are blocks of a pane.                                   *)
LEMMA OfPanes ==
  ASSUME NEW P \in SUBSET Panes, NEW p \in Panes, NEW b, BlockOf(b, {p})
  PROVE  BlockOf(b, P) <=> p \in P
  BY DEF BlockOf

LEMMA CheckAgeClean ==
  ASSUME ControlTypes, BlockQueue(all_blocks, lines), NEW p \in Panes, control_check_age(p)
  PROVE  /\ BlockQueue(all_blocks', lines')
         /\ \A b : ~(b \in ToSet(all_blocks') /\ BlockOf(b, {p}))
         /\ \A q \in Panes : (Covers(ToSet(all_blocks), q, cp[q], flags) => Covers(ToSet(all_blocks'), q, cp'[q], flags'))
         /\ \A q \in Panes : /\ cp'[q].exists = cp[q].exists /\ cp'[q].offset = cp[q].offset /\ cp'[q].queued = cp[q].queued
                             /\ Holding(cp'[q], flags') => Holding(cp[q], flags)
<1>1. cp \in [Panes -> ControlPane] BY DEF ControlTypes
<1>2. CASE "PAUSEAFTER" \in flags
  <2> DEFINE all == Discarded(all_blocks, {p})
             d == [cp[p] EXCEPT !.paused = TRUE]
  <2>1. /\ cp' = [cp EXCEPT ![p] = d] /\ flags' = flags /\ control_write(all)
    BY <1>2 DEF control_check_age
  <2>2. BlockQueue(all, lines) /\ \A b : b \in ToSet(all) <=> b \in ToSet(all_blocks) /\ ~BlockOf(b, {p})
    BY DiscardClean
  <2> HIDE DEF all
  <2>3. BlockQueue(all_blocks', lines')
        /\ \A q \in Panes : \A b : BlockOf(b, {q}) => (b \in ToSet(all_blocks') <=> b \in ToSet(all))
    BY <2>1, <2>2, WriteClean
  <2>4. d.exists = cp[p].exists /\ d.offset = cp[p].offset /\ d.queued = cp[p].queued /\ d.paused = TRUE
    BY <1>1 DEF ControlPane
  <2> HIDE DEF d
  <2>5. cp'[p] = d /\ \A q \in Panes : q # p => cp'[q] = cp[q] BY <1>1, <2>1
  <2>6. \A b : ~(b \in ToSet(all_blocks') /\ BlockOf(b, {p})) BY <2>2, <2>3
  <2>7. ASSUME NEW q \in Panes, Covers(ToSet(all_blocks), q, cp[q], flags)
        PROVE  Covers(ToSet(all_blocks'), q, cp'[q], flags')
    <3>1. CASE q = p BY <2>6, <3>1, CoversNone
    <3>2. CASE q # p
      <4>1. \A b : BlockOf(b, {q}) => (b \in ToSet(all_blocks') <=> b \in ToSet(all_blocks))
        BY <2>2, <2>3, <3>2 DEF BlockOf
      <4>2. cp'[q] = cp[q] /\ flags' = flags BY <2>1, <2>5, <3>2
      <4>3. Covers(ToSet(all_blocks'), q, cp[q], flags) BY <2>7, <4>1, CoversSame
      <4> QED BY <4>2, <4>3
    <3> QED BY <3>1, <3>2
  <2>8. ASSUME NEW q \in Panes
        PROVE  /\ cp'[q].exists = cp[q].exists /\ cp'[q].offset = cp[q].offset /\ cp'[q].queued = cp[q].queued
               /\ Holding(cp'[q], flags') => Holding(cp[q], flags)
    <3>1. CASE q = p BY <2>4, <2>5, <3>1 DEF Holding
    <3>2. CASE q # p BY <2>1, <2>5, <3>2
    <3> QED BY <3>1, <3>2
  <2> QED BY <2>3, <2>6, <2>7, <2>8
<1>3. CASE "PAUSEAFTER" \notin flags
  <2>1. /\ cp' = cp /\ flags' = flags \cup {"EXIT"} /\ all_blocks' = Discarded(all_blocks, Panes) /\ lines' = lines
    BY <1>3 DEF control_check_age, Quiet
  <2>2. BlockQueue(all_blocks', lines') /\ \A b : b \in ToSet(all_blocks') => ~BlockOf(b, Panes)
    BY <2>1, DiscardClean
  <2>3. \A q \in Panes : \A b : ~(b \in ToSet(all_blocks') /\ BlockOf(b, {q})) BY <2>2 DEF BlockOf
  <2>4. \A q \in Panes : Covers(ToSet(all_blocks'), q, cp'[q], flags') BY <2>3, CoversNone
  <2>5. \A q \in Panes : Holding(cp'[q], flags') => Holding(cp[q], flags) BY <2>1 DEF Holding
  <2> QED BY <2>1, <2>2, <2>3, <2>4, <2>5
<1> QED BY <1>2, <1>3

LEMMA OffsetsRead ==
  ASSUME NEW q \in PaneType, NEW c \in ControlPane, NEW f, Offsets(q, c, f), q.fd, NEW k \in Int, k >= 1, NEW r,
         r.base = q.base, r.len = q.len + k, r.offset = q.base + q.len + k, r.fd = q.fd
  PROVE  Offsets(r, c, f)
<1>1. q.base \in Int /\ q.len \in Int /\ q.offset \in Int /\ c.offset \in Int /\ c.queued \in Int BY DEF PaneType, ControlPane
<1>2. /\ q.base \in Nat /\ q.len \in Nat /\ c.offset \in Nat /\ c.queued \in Nat
      /\ q.base + q.len = q.offset
      /\ c.exists => c.offset <= c.queued /\ c.queued <= q.offset
      /\ Holding(c, f) => q.base <= c.offset
  BY DEF Offsets
<1>3. r.len \in Nat /\ r.offset \in Nat /\ r.base <= r.offset /\ r.base + r.len = r.offset /\ q.offset <= r.offset
  BY <1>1, <1>2
<1>4. c.exists => c.offset <= c.queued /\ c.queued <= r.offset BY <1>1, <1>2, <1>3
<1> QED BY <1>2, <1>3, <1>4 DEF Offsets

(* A block for all that is new is queued.                                  *)
LEMMA CoversQueued ==
  ASSUME NEW p, NEW S, NEW c \in ControlPane, NEW f, Covers(S, p, c, f), c.offset <= c.queued,
         (\E b \in S : BlockOf(b, {p})) \/ c.offset = c.queued, \A b \in S : b \in Block,
         NEW total \in Int, c.queued < total,
         NEW d, d.offset = c.offset, d.queued = total, d.pending, Holding(d, f),
         NEW x, x.of = p, x.size = total - c.queued, x.from = c.queued + 1, ~x.orphan
  PROVE  Covers(S \cup {x}, p, d, f)
<1>1. c.offset \in Int /\ c.queued \in Int BY DEF ControlPane
<1>2. \A b \in S : b.from \in Int /\ b.size \in Int BY DEF Block
<1>3. BlockOf(x, {p}) BY DEF BlockOf
<1>4. x.from + x.size = total + 1 /\ c.offset < x.from BY <1>1
<1>5. \A b \in S : BlockOf(b, {p}) => c.offset < b.from /\ b.from + b.size <= c.queued + 1 BY DEF Covers
<1>6. \A b \in S : BlockOf(b, {p}) => c.offset < b.from /\ b.from + b.size <= total + 1
  <2> TAKE b \in S
  <2> HAVE BlockOf(b, {p})
  <2>1. b.from + b.size \in Int BY <1>2
  <2> QED BY <1>1, <1>5, <2>1
<1>7. \A b \in S \cup {x} : BlockOf(b, {p}) => d.offset < b.from /\ b.from + b.size <= d.queued + 1
  <2> TAKE b \in S \cup {x}
  <2>1. CASE b \in S BY <1>6, <2>1
  <2>2. CASE b = x
    <3>1. x.from + x.size <= d.queued + 1 BY <1>1, <1>4
    <3> QED BY <1>4, <2>2, <3>1
  <2> QED BY <2>1, <2>2
<1>8. ASSUME NEW n \in d.offset + 1 .. d.queued
      PROVE  \E b \in S \cup {x} : BlockOf(b, {p}) /\ b.from <= n /\ n < b.from + b.size
  <2>1. n \in Int /\ c.offset + 1 <= n /\ n <= total BY <1>1, <1>8
  <2>2. CASE n <= c.queued
    <3>1. c.offset # c.queued /\ n \in c.offset + 1 .. c.queued BY <1>1, <2>1, <2>2
    <3>2. \E b \in S : BlockOf(b, {p}) BY <3>1
    <3>3. \E b \in S : BlockOf(b, {p}) /\ b.from <= n /\ n < b.from + b.size BY <3>1, <3>2 DEF Covers
    <3> QED BY <3>3
  <2>3. CASE ~(n <= c.queued)
    <3>1. x.from <= n /\ n < x.from + x.size BY <1>1, <1>4, <2>1, <2>3
    <3> QED BY <1>3, <3>1
  <2> QED BY <2>2, <2>3
<1> QED BY <1>7, <1>8 DEF Covers

LEMMA ReadClean ==
  ASSUME Always, Clean, NEW p \in Panes, NEW k \in 1 .. 2, window_pane_read_callback(p, k), faults' = {}
  PROVE  Clean'
<1>1. ControlTypes /\ all_blocks \in Seq(Block) /\ cp \in [Panes -> ControlPane] /\ lines \in Nat
      /\ pane \in [Panes -> PaneType]
  BY DEF Always, ControlTypes
<1>2. /\ \A q \in Panes : Offsets(pane[q], cp[q], flags) /\ Covers(ToSet(all_blocks), q, cp[q], flags)
      /\ BlockQueue(all_blocks, lines) /\ MessageGood
  BY DEF Clean
<1> DEFINE r == [pane[p] EXCEPT !.len = @ + k, !.offset = Total(p) + k, !.reading = FALSE]
           total == Total(p) + k
           c == control_add_pane(p)
<1>3. w.pc = "idle" /\ w' = w /\ pane[p].fd /\ pane' = [pane EXCEPT ![p] = r]
      /\ (NotOffered(p) \/ Skipped(p, total) \/ Queued(p, total))
  BY DEF window_pane_read_callback, Idle
<1>4. w'.msg = <<>> BY <1>2, <1>3, NoMessage
<1>5. pane[p] \in PaneType /\ cp[p] \in ControlPane /\ k \in Int /\ k >= 1 BY <1>1
<1>6. /\ r.base = pane[p].base /\ r.len = pane[p].len + k /\ r.offset = pane[p].base + pane[p].len + k /\ r.fd = pane[p].fd
      /\ total = r.offset /\ r \in PaneType
  <2> DEFINE no == FALSE
  <2>1. pane[p].len + k \in Int /\ pane[p].base + pane[p].len + k \in Int BY <1>5 DEF PaneType
  <2>2. no \in BOOLEAN OBVIOUS
  <2> HIDE DEF no
  <2>3. r = [pane[p] EXCEPT !.len = pane[p].len + k, !.offset = pane[p].base + pane[p].len + k, !.reading = no]
    BY DEF Total, no
  <2>4. total = pane[p].base + pane[p].len + k BY DEF Total
  <2> HIDE DEF r, total
  <2> DEFINE n == pane[p].len + k
             o == pane[p].base + pane[p].len + k
  <2>5. n \in Int /\ o \in Int /\ r = [pane[p] EXCEPT !.len = n, !.offset = o, !.reading = no] BY <2>1, <2>3
  <2>6. total = o BY <2>4
  <2>9. n = pane[p].len + k /\ o = pane[p].base + pane[p].len + k OBVIOUS
  <2> HIDE DEF n, o
  <2>7. r \in PaneType BY ONLY <1>5, <2>2, <2>5 DEF PaneType
  <2>8. r.base = pane[p].base /\ r.len = n /\ r.offset = o /\ r.fd = pane[p].fd BY ONLY <1>5, <2>5 DEF PaneType
  <2> QED BY <2>6, <2>7, <2>8, <2>9
<1> HIDE DEF r
<1>7. pane'[p] = r /\ \A q \in Panes : q # p => pane'[q] = pane[q] BY <1>1, <1>3
<1>8. Offsets(r, cp[p], flags)
  <2>1. Offsets(pane[p], cp[p], flags) BY <1>2
  <2> QED BY ONLY <1>3, <1>5, <1>6, <2>1, OffsetsRead
<1>9. /\ pane[p].base \in Nat /\ pane[p].len \in Nat /\ pane[p].offset \in Nat /\ pane[p].base + pane[p].len = pane[p].offset
      /\ pane[p].offset < total /\ total \in Int
  BY <1>2, <1>3, <1>5 DEF Offsets, Total
<1>10. c \in ControlPane /\ c.exists
       /\ (cp[p].exists => c = cp[p])
       /\ (~cp[p].exists => c.offset = pane[p].offset /\ c.queued = pane[p].offset /\ ~c.off /\ ~c.paused)
  BY <1>1, AddPane
<1> HIDE DEF c, total
<1>11. CASE NotOffered(p)
  <2>1. UNCHANGED <<cp, all_blocks, flags, lines>> BY <1>11 DEF NotOffered, Quiet
  <2>2. \A q \in Panes : Offsets(pane'[q], cp'[q], flags') BY <1>2, <1>7, <1>8, <2>1
  <2> QED BY <1>2, <1>4, <2>1, <2>2, CleanFrom
<1>12. CASE Skipped(p, total)
  <2> DEFINE d == [c EXCEPT !.offset = total, !.queued = total]
  <2>1. cp' = [cp EXCEPT ![p] = d] /\ UNCHANGED <<all_blocks, flags, lines>> /\ Mine(p) = {}
    BY <1>12 DEF Skipped, Quiet, c, Fault
  <2>2. d.offset = total /\ d.queued = total BY <1>10 DEF ControlPane
  <2> HIDE DEF d
  <2>3. cp'[p] = d /\ \A q \in Panes : q # p => cp'[q] = cp[q] BY <1>1, <2>1
  <2>4. Offsets(r, d, flags) BY <1>6, <1>8, <2>2, OffsetsAtEnd
  <2>5. \A q \in Panes : Offsets(pane'[q], cp'[q], flags') BY <1>2, <1>7, <2>1, <2>3, <2>4
  <2>6. \A b \in ToSet(all_blocks) : ~BlockOf(b, {p}) BY <2>1 DEF Mine, ToSet
  <2>7. \A q \in Panes : Covers(ToSet(all_blocks'), q, cp'[q], flags') BY <1>2, <2>1, <2>3, <2>6, CoversNone
  <2> QED BY <1>2, <1>4, <2>1, <2>5, <2>7, CleanFrom
<1>13. CASE Queued(p, total) /\ TooOld(p)
  <2>1. control_check_age(p) BY <1>13 DEF Queued
  <2>2. /\ BlockQueue(all_blocks', lines')
        /\ \A q \in Panes : (Covers(ToSet(all_blocks), q, cp[q], flags) => Covers(ToSet(all_blocks'), q, cp'[q], flags'))
        /\ \A q \in Panes : /\ cp'[q].exists = cp[q].exists /\ cp'[q].offset = cp[q].offset /\ cp'[q].queued = cp[q].queued
                            /\ Holding(cp'[q], flags') => Holding(cp[q], flags)
    BY <1>1, <1>2, <2>1, CheckAgeClean
  <2>3. \A q \in Panes : Offsets(pane'[q], cp[q], flags) BY <1>2, <1>7, <1>8
  <2>4. \A q \in Panes : Offsets(pane'[q], cp'[q], flags') BY <2>2, <2>3, OffsetsKept
  <2> QED BY <1>2, <1>4, <2>2, <2>4, CleanFrom
<1>14. CASE Queued(p, total) /\ ~TooOld(p)
  <2> DEFINE d == [c EXCEPT !.queued = total, !.pending = TRUE]
             x == [of |-> p, size |-> total - c.queued, from |-> c.queued + 1, old |-> FALSE, orphan |-> FALSE]
  <2>1. /\ cp' = [cp EXCEPT ![p] = d] /\ all_blocks' = Append(all_blocks, x) /\ flags' = flags /\ lines' = lines
        /\ "NOOUTPUT" \notin flags /\ ~c.off /\ ~c.paused
        /\ (Mine(p) # {} \/ c.offset = c.queued)
    BY <1>14 DEF Queued, Quiet, c, Fault, Ignores
  <2>2. d.exists = c.exists /\ d.offset = c.offset /\ d.queued = total /\ d.pending /\ d.off = c.off /\ d.paused = c.paused
    BY <1>10 DEF ControlPane
  <2>3. x.of = p /\ x.size = total - c.queued /\ x.from = c.queued + 1 /\ ~x.orphan OBVIOUS
  <2>4. c.offset \in Int /\ c.queued \in Int BY <1>10 DEF ControlPane
  <2>5. c.offset <= c.queued /\ c.queued <= pane[p].offset /\ c.queued < total /\ c.queued \in Nat /\ c.offset \in Nat
        /\ pane[p].base <= c.offset
    <3>1. CASE cp[p].exists
      <4>1. Holding(cp[p], flags) BY <1>10, <2>1, <3>1 DEF Holding
      <4> QED BY <1>2, <1>9, <1>10, <2>4, <3>1, <4>1 DEF Offsets
    <3>2. CASE ~cp[p].exists BY <1>9, <1>10, <3>2
    <3> QED BY <3>1, <3>2
  <2>6. x \in Block BY <2>4, <1>9 DEF Block
  <2> HIDE DEF d, x
  <2>7. cp'[p] = d /\ \A q \in Panes : q # p => cp'[q] = cp[q] BY <1>1, <2>1
  <2>8. Holding(d, flags) BY <1>10, <2>1, <2>2 DEF Holding
  <2>9. Offsets(r, d, flags)
    <3>1. r.base \in Nat /\ r.len \in Nat /\ r.offset \in Nat /\ r.base <= r.offset /\ r.base + r.len = r.offset
      BY <1>6, <1>9, <1>5
    <3>2. d.offset \in Nat /\ d.queued \in Nat /\ d.offset <= d.queued /\ d.queued <= r.offset /\ r.base <= d.offset
      BY <1>6, <1>9, <2>2, <2>4, <2>5, <3>1
    <3>3. r.fd BY <1>3, <1>6
    <3> QED BY <3>1, <3>2, <3>3 DEF Offsets
  <2>10. \A q \in Panes : Offsets(pane'[q], cp'[q], flags') BY <1>2, <1>7, <2>1, <2>7, <2>9
  <2>11. \A b \in ToSet(all_blocks) : b \in Block BY <1>1, BlocksTyped
  <2>12. (\E b \in ToSet(all_blocks) : BlockOf(b, {p})) <=> Mine(p) # {} BY DEF Mine, ToSet
  <2>13. Covers(ToSet(all_blocks), p, c, flags)
    <3>1. CASE cp[p].exists BY <1>2, <1>10, <3>1
    <3>2. CASE ~cp[p].exists
      <4>1. \A b \in ToSet(all_blocks) : ~BlockOf(b, {p}) BY <1>2, <3>2 DEF Covers, Holding
      <4> QED BY <4>1, CoversNone
    <3> QED BY <3>1, <3>2
  <2>14. Covers(ToSet(all_blocks) \cup {x}, p, d, flags)
    BY ONLY <1>9, <1>10, <2>1, <2>2, <2>3, <2>5, <2>8, <2>11, <2>12, <2>13, CoversQueued
  <2>15. \A b \in ToSet(all_blocks) : b.of = x.of => Later(b, x)
    <3> TAKE b \in ToSet(all_blocks)
    <3> HAVE b.of = x.of
    <3>1. b.of = p /\ p # Line /\ Good(b, lines) BY <1>2, <2>3, PanesAssumption DEF BlockQueue
    <3>2. b.size >= 1 /\ BlockOf(b, {p}) BY <3>1 DEF Good, BlockOf
    <3>3. b.from + b.size <= c.queued + 1 BY <2>13, <3>2 DEF Covers
    <3>4. b.from \in Int /\ b.size \in Int BY <2>11 DEF Block
    <3>5. b.from < x.from /\ b.from + b.size <= x.from BY <2>3, <2>4, <3>2, <3>3, <3>4
    <3> QED BY <3>5 DEF Later
  <2>16. Good(x, lines)
    <3>1. x.of # Line BY <2>3, PanesAssumption
    <3>2. x.size >= 1 BY <1>9, <2>3, <2>4, <2>5
    <3> QED BY <2>3, <3>1, <3>2 DEF Good
  <2>17. BlockQueue(all_blocks, lines) /\ lines <= lines BY <1>1, <1>2
  <2>18. BlockQueue(Append(all_blocks, x), lines) /\ ToSet(Append(all_blocks, x)) = ToSet(all_blocks) \cup {x}
    BY ONLY <1>1, <2>6, <2>15, <2>16, <2>17, BlocksAppended
  <2>19. ASSUME NEW q \in Panes PROVE Covers(ToSet(all_blocks'), q, cp'[q], flags')
    <3>1. CASE q = p BY <2>1, <2>7, <2>14, <2>18, <3>1
    <3>2. CASE q # p
      <4>1. \A b : BlockOf(b, {q}) => (b \in ToSet(all_blocks') <=> b \in ToSet(all_blocks))
        BY <2>1, <2>3, <2>18, <3>2 DEF BlockOf
      <4>2. Covers(ToSet(all_blocks'), q, cp[q], flags) BY <1>2, <4>1, CoversSame
      <4> QED BY <2>1, <2>7, <3>2, <4>2
    <3> QED BY <3>1, <3>2
  <2>20. BlockQueue(all_blocks', lines') BY <2>1, <2>18
  <2> QED BY <1>4, <2>10, <2>19, <2>20, CleanFrom
<1> QED BY <1>3, <1>11, <1>12, <1>13, <1>14

(* A command changes one pane, for which nothing waits or is left waiting.  *)
LEMMA OnePaneClean ==
  ASSUME Always, Clean, NEW p \in Panes, NEW d, cp' = [cp EXCEPT ![p] = d],
         UNCHANGED <<pane, flags, w>>, w.pc = "idle", Offsets(pane[p], d, flags), BlockQueue(all_blocks', lines'),
         \A b \in ToSet(all_blocks') : ~BlockOf(b, {p}),
         \A q \in Panes : q # p => \A b : BlockOf(b, {q}) => (b \in ToSet(all_blocks') <=> b \in ToSet(all_blocks))
  PROVE  Clean'
<1>1. cp \in [Panes -> ControlPane] BY DEF Always, ControlTypes
<1>2. \A q \in Panes : Offsets(pane[q], cp[q], flags) /\ Covers(ToSet(all_blocks), q, cp[q], flags) BY DEF Clean
<1>3. cp'[p] = d /\ \A q \in Panes : q # p => cp'[q] = cp[q] BY <1>1
<1>4. w'.msg = <<>> BY NoMessage DEF Clean
<1>5. \A q \in Panes : Offsets(pane'[q], cp'[q], flags') BY <1>2, <1>3
<1>6. ASSUME NEW q \in Panes PROVE Covers(ToSet(all_blocks'), q, cp'[q], flags')
  <2>1. CASE q = p BY <2>1, CoversNone
  <2>2. CASE q # p
    <3>1. \A b : BlockOf(b, {q}) => (b \in ToSet(all_blocks') <=> b \in ToSet(all_blocks)) BY <2>2
    <3>2. Covers(ToSet(all_blocks'), q, cp[q], flags) BY <1>2, <3>1, CoversSame
    <3> QED BY <1>3, <2>2, <3>2
  <2> QED BY <2>1, <2>2
<1> QED BY <1>4, <1>5, <1>6, CleanFrom

LEMMA AddPaneOffsets ==
  ASSUME ControlTypes, NEW p \in Panes, Offsets(pane[p], cp[p], flags), NEW c, c = control_add_pane(p)
  PROVE  Offsets(pane[p], c, flags)
<1>1. /\ c \in ControlPane /\ c.exists
      /\ cp[p].exists => c = cp[p]
      /\ ~cp[p].exists => c.offset = pane[p].offset /\ c.queued = pane[p].offset
  BY AddPane
<1>2. pane[p] \in PaneType BY DEF ControlTypes
<1>3. Offsets(pane[p], cp[p], flags) OBVIOUS
<1>4. CASE cp[p].exists BY <1>1, <1>3, <1>4
<1>5. CASE ~cp[p].exists
  <2>1. c.offset = pane[p].offset /\ c.queued = pane[p].offset BY <1>1, <1>5
  <2> QED BY ONLY <1>2, <1>3, <2>1, OffsetsAtEnd
<1> QED BY <1>4, <1>5

LEMMA CommandsClean ==
  ASSUME Always, Clean, NEW p \in Panes, faults' = {},
         \/ control_set_pane_off(p) \/ control_set_pane_on(p)
         \/ control_continue_pane(p) \/ control_pause_pane(p)
  PROVE  Clean'
<1>1. ControlTypes /\ all_blocks \in Seq(Block) /\ cp \in [Panes -> ControlPane] /\ lines \in Nat
      /\ pane[p] \in PaneType /\ cp[p] \in ControlPane
  BY DEF Always, ControlTypes
<1>2. /\ Offsets(pane[p], cp[p], flags) /\ Covers(ToSet(all_blocks), p, cp[p], flags)
      /\ BlockQueue(all_blocks, lines)
  BY DEF Clean
<1> DEFINE c == control_add_pane(p)
           a == AtEnd(cp[p], p)
<1>3. Offsets(pane[p], c, flags) /\ c \in ControlPane BY <1>1, <1>2, AddPaneOffsets, AddPane
<1>4. a \in ControlPane /\ a.offset = pane[p].offset /\ a.queued = pane[p].offset BY <1>1, AtEndTyped
<1>5. \A b \in ToSet(all_blocks) : ~BlockOf(b, {p}) <=> Mine(p) = {} \/ ~BlockOf(b, {p}) BY DEF Mine, ToSet
<1> HIDE DEF c, a
<1>6. CASE control_set_pane_off(p)
  <2> DEFINE d == [c EXCEPT !.off = TRUE]
  <2>1. d.exists = c.exists /\ d.offset = c.offset /\ d.queued = c.queued /\ d.off = TRUE BY <1>3 DEF ControlPane
  <2>2. cp' = [cp EXCEPT ![p] = d] /\ UNCHANGED <<pane, all_blocks, flags, w, lines>> /\ w.pc = "idle" /\ Mine(p) = {}
    BY <1>6 DEF control_set_pane_off, Quiet, c, Command, Idle, Fault
  <2> HIDE DEF d
  <2>3. Offsets(pane[p], d, flags)
    <3>1. ~Holding(d, flags) BY <2>1 DEF Holding
    <3> QED BY ONLY <1>3, <2>1, <3>1, OffsetsKept
  <2> QED BY <1>2, <1>5, <2>2, <2>3, OnePaneClean
<1>7. CASE control_pause_pane(p)
  <2> DEFINE d == [c EXCEPT !.paused = TRUE]
             all == Discarded(all_blocks, {p})
  <2>1. d.exists = c.exists /\ d.offset = c.offset /\ d.queued = c.queued /\ d.paused = TRUE BY <1>3 DEF ControlPane
  <2>2. cp' = [cp EXCEPT ![p] = d] /\ UNCHANGED <<pane, flags, w>> /\ w.pc = "idle" /\ control_write(all)
    BY <1>7 DEF control_pause_pane, c, Command, Idle
  <2>3. BlockQueue(all, lines) /\ \A b : b \in ToSet(all) <=> b \in ToSet(all_blocks) /\ ~BlockOf(b, {p})
    BY <1>1, <1>2, DiscardClean
  <2> HIDE DEF d, all
  <2>4. BlockQueue(all_blocks', lines')
        /\ \A q \in Panes : \A b : BlockOf(b, {q}) => (b \in ToSet(all_blocks') <=> b \in ToSet(all))
    BY <1>1, <2>2, <2>3, WriteClean
  <2>5. Offsets(pane[p], d, flags)
    <3>1. ~Holding(d, flags) BY <2>1 DEF Holding
    <3> QED BY ONLY <1>3, <2>1, <3>1, OffsetsKept
  <2>6. \A b \in ToSet(all_blocks') : ~BlockOf(b, {p}) BY <2>3, <2>4
  <2>7. \A q \in Panes : q # p => \A b : BlockOf(b, {q}) => (b \in ToSet(all_blocks') <=> b \in ToSet(all_blocks))
    BY <2>3, <2>4 DEF BlockOf
  <2> QED BY <2>2, <2>4, <2>5, <2>6, <2>7, OnePaneClean
<1>8. CASE control_set_pane_on(p)
  <2> DEFINE d == [a EXCEPT !.off = FALSE]
  <2>1. d.offset = a.offset /\ d.queued = a.queued BY <1>4 DEF ControlPane
  <2>2. cp' = [cp EXCEPT ![p] = d] /\ UNCHANGED <<pane, all_blocks, flags, w, lines>> /\ w.pc = "idle" /\ Mine(p) = {}
    BY <1>1, <1>8 DEF control_set_pane_on, Quiet, a, Idle, Fault
  <2> HIDE DEF d
  <2>3. d.offset = pane[p].offset /\ d.queued = pane[p].offset BY <1>4, <2>1
  <2>4. Offsets(pane[p], d, flags) BY ONLY <1>1, <1>2, <2>3, OffsetsAtEnd
  <2> QED BY <1>2, <1>5, <2>2, <2>4, OnePaneClean
<1>9. CASE control_continue_pane(p)
  <2> DEFINE d == [a EXCEPT !.paused = FALSE]
  <2>1. d.offset = a.offset /\ d.queued = a.queued BY <1>4 DEF ControlPane
  <2>2. cp' = [cp EXCEPT ![p] = d] /\ UNCHANGED <<pane, flags, w>> /\ control_write(all_blocks) /\ w.pc = "idle" /\ cp[p].paused
    BY <1>1, <1>9 DEF control_continue_pane, a, Idle
  <2> HIDE DEF d
  <2>3. d.offset = pane[p].offset /\ d.queued = pane[p].offset BY <1>4, <2>1
  <2>4. Offsets(pane[p], d, flags) BY ONLY <1>1, <1>2, <2>3, OffsetsAtEnd
  <2>5. \A b \in ToSet(all_blocks) : ~BlockOf(b, {p}) BY <1>2, <2>2 DEF Covers, Holding
  <2>6. BlockQueue(all_blocks', lines')
        /\ \A q \in Panes : \A b : BlockOf(b, {q}) => (b \in ToSet(all_blocks') <=> b \in ToSet(all_blocks))
    BY <1>1, <1>2, <2>2, WriteClean
  <2>7. \A b \in ToSet(all_blocks') : ~BlockOf(b, {p}) BY <2>5, <2>6
  <2> QED BY <2>2, <2>4, <2>6, <2>7, OnePaneClean
<1> QED BY <1>6, <1>7, <1>8, <1>9

(* Steps that leave the blocks, or discard some.                           *)
LEMMA PanesClean ==
  ASSUME Always, Clean, UNCHANGED <<cp, lines>>, "NOOUTPUT" \in flags' <=> "NOOUTPUT" \in flags,
         \A p \in Panes : Offsets(pane'[p], cp[p], flags), BlockQueue(all_blocks', lines),
         \A p \in Panes : \/ \A b : BlockOf(b, {p}) => (b \in ToSet(all_blocks') <=> b \in ToSet(all_blocks))
                          \/ \A b \in ToSet(all_blocks') : ~BlockOf(b, {p}),
         w'.msg = <<>>
  PROVE  Clean'
<1>1. \A q \in Panes : Covers(ToSet(all_blocks), q, cp[q], flags) BY DEF Clean
<1>2. ASSUME NEW q \in Panes PROVE Offsets(pane'[q], cp'[q], flags')
  <2>1. Offsets(pane'[q], cp[q], flags) /\ cp' = cp OBVIOUS
  <2>2. Holding(cp[q], flags') => Holding(cp[q], flags) BY DEF Holding
  <2>3. Offsets(pane'[q], cp[q], flags') BY ONLY <2>1, <2>2, OffsetsKept
  <2> QED BY <2>1, <2>3
<1>3. ASSUME NEW q \in Panes PROVE Covers(ToSet(all_blocks'), q, cp'[q], flags')
  <2>1. CASE \A b : BlockOf(b, {q}) => (b \in ToSet(all_blocks') <=> b \in ToSet(all_blocks))
    <3>1. Covers(ToSet(all_blocks'), q, cp[q], flags') BY <1>1, <2>1, CoversSame
    <3> QED BY <3>1
  <2>2. CASE \A b \in ToSet(all_blocks') : ~BlockOf(b, {q}) BY <2>2, CoversNone
  <2> QED BY <2>1, <2>2
<1>4. BlockQueue(all_blocks', lines') OBVIOUS
<1> QED BY <1>2, <1>3, <1>4, CleanFrom

LEMMA OutsideClean ==
  ASSUME Always, Clean, faults' = {},
         \/ Notify \/ \E p \in Panes : LinkWindow(p) \/ PaneDies(p) \/ PaneRespawns(p)
         \/ \E f \in {"NOOUTPUT", "PAUSEAFTER"} : server_client_set_flags(f)
         \/ \E error \in BOOLEAN : ClientExits(error)
         \/ TimePasses \/ write_error \/ server_client_loop
  PROVE  Clean'
<1>1. ControlTypes /\ all_blocks \in Seq(Block) /\ cp \in [Panes -> ControlPane] /\ lines \in Nat
      /\ pane \in [Panes -> PaneType]
  BY DEF Always, ControlTypes
<1>2. /\ \A q \in Panes : Offsets(pane[q], cp[q], flags) /\ Covers(ToSet(all_blocks), q, cp[q], flags)
      /\ BlockQueue(all_blocks, lines) /\ MessageGood
  BY DEF Clean
<1>3. w.pc = "idle" /\ w' = w
  BY DEF Notify, LinkWindow, PaneDies, PaneRespawns, server_client_set_flags, ClientExits, TimePasses, write_error,
         server_client_loop, Command, Idle
<1>4. w'.msg = <<>> BY <1>2, <1>3, NoMessage
<1>5. ASSUME UNCHANGED <<cp, all_blocks, lines>>, "NOOUTPUT" \in flags' <=> "NOOUTPUT" \in flags,
             \A p \in Panes : Offsets(pane'[p], cp[p], flags)
      PROVE  Clean'
  BY <1>2, <1>4, <1>5, PanesClean
<1>6. CASE Notify
  <2>1. control_write(all_blocks) /\ UNCHANGED <<pane, cp, flags>> BY <1>6 DEF Notify
  <2>2. BlockQueue(all_blocks', lines')
        /\ \A q \in Panes : \A b : BlockOf(b, {q}) => (b \in ToSet(all_blocks') <=> b \in ToSet(all_blocks))
    BY <1>1, <1>2, <2>1, WriteClean
  <2>3. \A q \in Panes : Covers(ToSet(all_blocks'), q, cp'[q], flags') BY <1>2, <2>1, <2>2, CoversSame
  <2> QED BY <1>2, <1>4, <2>1, <2>2, <2>3, CleanFrom
<1>7. ASSUME NEW p \in Panes, LinkWindow(p) PROVE Clean'
  <2>1. UNCHANGED <<cp, all_blocks, flags, lines>> /\ pane' = [pane EXCEPT ![p].linked = ~@] BY <1>7 DEF LinkWindow, Quiet
  <2>2. pane[p] \in PaneType BY <1>1
  <2>3. /\ pane'[p].base = pane[p].base /\ pane'[p].len = pane[p].len /\ pane'[p].offset = pane[p].offset
        /\ pane'[p].fd = pane[p].fd /\ \A q \in Panes : q # p => pane'[q] = pane[q]
    BY <1>1, <2>1, <2>2 DEF PaneType
  <2>4. Offsets(pane'[p], cp[p], flags) BY <1>2, <2>3 DEF Offsets
  <2>5. \A q \in Panes : Offsets(pane'[q], cp[q], flags) BY <1>2, <2>3, <2>4
  <2> QED BY <1>5, <2>1, <2>5
<1>8. ASSUME NEW p \in Panes, PaneDies(p) PROVE Clean'
  <2>1. UNCHANGED <<cp, all_blocks, flags, lines>> /\ pane' = [pane EXCEPT ![p].fd = FALSE, ![p].len = 0]
    BY <1>8 DEF PaneDies, Quiet
  <2>2. pane[p] \in PaneType BY <1>1
  <2>3. /\ pane'[p].base = pane[p].base /\ pane'[p].len = 0 /\ pane'[p].offset = pane[p].offset
        /\ pane'[p].fd = FALSE /\ \A q \in Panes : q # p => pane'[q] = pane[q]
    BY <1>1, <2>1, <2>2 DEF PaneType
  <2>4. Offsets(pane'[p], cp[p], flags) BY <1>2, <2>3 DEF Offsets
  <2>5. \A q \in Panes : Offsets(pane'[q], cp[q], flags) BY <1>2, <2>3, <2>4
  <2> QED BY <1>5, <2>1, <2>5
<1>9. ASSUME NEW p \in Panes, PaneRespawns(p) PROVE Clean'
  <2>1. UNCHANGED <<cp, all_blocks, flags, lines>> /\ pane' = [pane EXCEPT ![p].fd = TRUE, ![p].reading = TRUE]
        /\ ~pane[p].fd /\ pane[p].offset = pane[p].base
    BY <1>9 DEF PaneRespawns, Quiet, Fault
  <2>2. pane[p] \in PaneType BY <1>1
  <2>3. /\ pane'[p].base = pane[p].base /\ pane'[p].len = pane[p].len /\ pane'[p].offset = pane[p].offset
        /\ pane'[p].fd = TRUE /\ \A q \in Panes : q # p => pane'[q] = pane[q]
    BY <1>1, <2>1, <2>2 DEF PaneType
  <2>4. pane[p].len = 0 /\ pane[p].base \in Nat BY <1>2, <2>1 DEF Offsets
  <2>5. pane[p].base + pane[p].len = pane[p].offset BY <2>1, <2>4
  <2>6. Offsets(pane'[p], cp[p], flags) BY <1>2, <2>3, <2>5 DEF Offsets
  <2>7. \A q \in Panes : Offsets(pane'[q], cp[q], flags) BY <1>2, <2>3, <2>6
  <2> QED BY <1>5, <2>1, <2>7
<1>10. ASSUME NEW f \in {"NOOUTPUT", "PAUSEAFTER"}, server_client_set_flags(f) PROVE Clean'
  <2>1. UNCHANGED <<pane, lines>> /\ flags' = (IF f \in flags THEN flags \ {f} ELSE flags \cup {f})
    BY <1>10 DEF server_client_set_flags, Quiet
  <2>2. CASE f = "NOOUTPUT"
    <3>1. /\ cp' = [p \in Panes |-> NoPane]
          /\ all_blocks' = [i \in DOMAIN all_blocks |-> [all_blocks[i] EXCEPT !.orphan = all_blocks[i].of # Line]]
          /\ \A i \in DOMAIN all_blocks : all_blocks[i].of = Line
      BY <1>10, <2>2 DEF server_client_set_flags, Fault
    <3>2. ASSUME NEW i \in DOMAIN all_blocks
          PROVE  [all_blocks[i] EXCEPT !.orphan = all_blocks[i].of # Line] = all_blocks[i]
      <4>1. all_blocks[i] \in Block /\ Good(all_blocks[i], lines) BY <1>1, <1>2 DEF BlockQueue, ToSet
      <4>2. all_blocks[i].orphan = FALSE BY <4>1 DEF Good, Block
      <4>3. (all_blocks[i].of # Line) = FALSE BY <3>1
      <4> QED BY <4>1, <4>2, <4>3 DEF Block
    <3>3. all_blocks' = all_blocks
      <4>1. all_blocks = [i \in DOMAIN all_blocks |-> all_blocks[i]] BY <1>1
      <4> QED BY <3>1, <3>2, <4>1
    <3>4. \A b \in ToSet(all_blocks) : b.of = Line BY <3>1 DEF ToSet
    <3>5. \A q \in Panes : \A b \in ToSet(all_blocks) : ~BlockOf(b, {q}) BY <3>4, PanesAssumption DEF BlockOf
    <3>6. \A q \in Panes : Covers(ToSet(all_blocks'), q, cp'[q], flags') BY <3>3, <3>5, CoversNone
    <3>7. ASSUME NEW q \in Panes PROVE Offsets(pane'[q], cp'[q], flags')
      <4>1. cp'[q] = NoPane /\ pane'[q] = pane[q] BY <2>1, <3>1
      <4>2. Offsets(pane[q], NoPane, flags') BY <1>2 DEF Offsets, NoPane, Holding
      <4> QED BY <4>1, <4>2
    <3> QED BY <1>2, <1>4, <2>1, <3>3, <3>6, <3>7, CleanFrom
  <2>3. CASE f = "PAUSEAFTER"
    <3>1. UNCHANGED <<cp, all_blocks>> BY <1>10, <2>3 DEF server_client_set_flags
    <3>2. "NOOUTPUT" \in flags' <=> "NOOUTPUT" \in flags BY <2>1, <2>3
    <3> QED BY <1>2, <1>5, <2>1, <3>1, <3>2
  <2> QED BY <2>2, <2>3
<1>11. ASSUME NEW error \in BOOLEAN, ClientExits(error) PROVE Clean'
  <2>1. UNCHANGED <<pane, cp, all_blocks, lines>> /\ flags' = flags \cup {"EXIT"} BY <1>11 DEF ClientExits, Quiet
  <2> QED BY <1>2, <1>5, <2>1
<1>12. CASE TimePasses
  <2>1. all_blocks' = [i \in DOMAIN all_blocks |-> [all_blocks[i] EXCEPT !.old = TRUE]]
        /\ UNCHANGED <<pane, cp, flags, lines>>
    BY <1>12 DEF TimePasses, Quiet
  <2>2. BlockQueue(all_blocks, lines) /\ lines \in Nat BY <1>1, <1>2
  <2>3. BlockQueue(all_blocks', lines) /\ ToSet(all_blocks') = {[b EXCEPT !.old = TRUE] : b \in ToSet(all_blocks)}
    BY ONLY <2>1, <2>2, BlocksAged
  <2>4. \A b \in ToSet(all_blocks) : b \in Block BY <1>1, BlocksTyped
  <2>5. ASSUME NEW q \in Panes PROVE Covers(ToSet(all_blocks'), q, cp'[q], flags')
    <3> DEFINE S == ToSet(all_blocks)
               T == ToSet(all_blocks')
               h(b) == [b EXCEPT !.old = TRUE]
    <3>1. \A b \in S : /\ h(b).of = b.of /\ h(b).orphan = b.orphan /\ h(b).from = b.from /\ h(b).size = b.size
                       /\ BlockOf(h(b), {q}) <=> BlockOf(b, {q})
      BY <2>4 DEF Block, BlockOf
    <3>2. (\A b \in S : h(b) \in T) /\ (\A d \in T : \E b \in S : d = h(b)) BY <2>3
    <3>3. Covers(S, q, cp[q], flags) BY <1>2
    <3> HIDE DEF S, T, h
    <3>4. Covers(T, q, cp[q], flags)
      <4>1. SUFFICES ASSUME NEW e \in T, BlockOf(e, {q})
                     PROVE  /\ Holding(cp[q], flags) /\ cp[q].pending
                            /\ \A d \in T : BlockOf(d, {q}) => cp[q].offset < d.from /\ d.from + d.size <= cp[q].queued + 1
                            /\ \A n \in cp[q].offset + 1 .. cp[q].queued :
                                  \E d \in T : BlockOf(d, {q}) /\ d.from <= n /\ n < d.from + d.size
        BY DEF Covers
      <4>2. PICK b \in S : e = h(b) BY <3>2
      <4>3. /\ Holding(cp[q], flags) /\ cp[q].pending
            /\ \A d \in S : BlockOf(d, {q}) => cp[q].offset < d.from /\ d.from + d.size <= cp[q].queued + 1
            /\ \A n \in cp[q].offset + 1 .. cp[q].queued :
                  \E d \in S : BlockOf(d, {q}) /\ d.from <= n /\ n < d.from + d.size
        BY <3>1, <3>3, <4>1, <4>2 DEF Covers
      <4>4. \A d \in T : BlockOf(d, {q}) => cp[q].offset < d.from /\ d.from + d.size <= cp[q].queued + 1
        <5> SUFFICES ASSUME NEW d \in T, BlockOf(d, {q})
                     PROVE  cp[q].offset < d.from /\ d.from + d.size <= cp[q].queued + 1
          OBVIOUS
        <5>1. PICK c \in S : d = h(c) BY <3>2
        <5>2. BlockOf(c, {q}) /\ d.from = c.from /\ d.size = c.size BY <3>1, <5>1
        <5> QED BY <4>3, <5>2
      <4>5. ASSUME NEW n \in cp[q].offset + 1 .. cp[q].queued
            PROVE  \E d \in T : BlockOf(d, {q}) /\ d.from <= n /\ n < d.from + d.size
        <5>1. PICK d \in S : BlockOf(d, {q}) /\ d.from <= n /\ n < d.from + d.size BY <4>3
        <5>2. h(d) \in T /\ BlockOf(h(d), {q}) /\ h(d).from <= n /\ n < h(d).from + h(d).size BY <3>1, <3>2, <5>1
        <5> QED BY <5>2
      <4> QED BY <4>3, <4>4, <4>5
    <3> QED BY <2>1, <3>4 DEF T
  <2> QED BY <1>2, <1>4, <2>1, <2>3, <2>5, CleanFrom
<1>13. CASE write_error
  <2>1. FALSE BY <1>13 DEF write_error
  <2> QED BY <2>1
<1>14. CASE server_client_loop
  <2>1. all_blocks' = AfterExit /\ pane' = [p \in Panes |-> server_client_check_pane_buffer(p)]
        /\ UNCHANGED <<cp, lines>>
    BY <1>14 DEF server_client_loop, Quiet
  <2>2. "NOOUTPUT" \in flags' <=> "NOOUTPUT" \in flags
    <3>1. \E S \in {{}, {"EXITED"}} : flags' = flags \cup S BY <1>14 DEF server_client_loop
    <3> QED BY <3>1
  <2>3. BlockQueue(all_blocks', lines)
        /\ \A p \in Panes : \/ \A b : BlockOf(b, {p}) => (b \in ToSet(all_blocks') <=> b \in ToSet(all_blocks))
                            \/ \A b \in ToSet(all_blocks') : ~BlockOf(b, {p})
    <3>1. CASE "EXIT" \in flags
      <4>1. all_blocks' = Discarded(all_blocks, Panes) BY <2>1, <3>1 DEF AfterExit
      <4>2. BlockQueue(all_blocks', lines) /\ \A b : b \in ToSet(all_blocks') => ~BlockOf(b, Panes)
        BY <1>1, <1>2, <4>1, DiscardClean
      <4>3. \A p \in Panes : \A b \in ToSet(all_blocks') : ~BlockOf(b, {p}) BY <4>2 DEF BlockOf
      <4> QED BY <4>2, <4>3
    <3>2. CASE "EXIT" \notin flags BY <1>2, <2>1, <3>2 DEF AfterExit
    <3> QED BY <3>1, <3>2
  <2>4. ASSUME NEW p \in Panes PROVE Offsets(pane'[p], cp[p], flags)
    <3>1. pane[p] \in PaneType /\ cp[p] \in ControlPane /\ Offsets(pane[p], cp[p], flags) BY <1>1, <1>2
    <3>2. Holds(p) <=> Holding(cp[p], flags) BY DEF Holds, Holding
    <3> DEFINE m == IF Holds(p) THEN Smaller(pane[p].offset, cp[p].offset) ELSE pane[p].offset
               v == OtherClient \/ ~Stops(p)
    <3>3. pane'[p] = IF ~pane[p].fd THEN pane[p]
                     ELSE [pane[p] EXCEPT !.base = m, !.len = pane[p].len - (m - pane[p].base), !.reading = v]
      BY <2>1 DEF server_client_check_pane_buffer
    <3>4. pane[p].base \in Nat /\ pane[p].len \in Nat /\ pane[p].offset \in Nat /\ cp[p].offset \in Nat
      BY <3>1 DEF Offsets
    <3>5. m \in Nat /\ m <= pane[p].offset /\ (Holding(cp[p], flags) => m <= cp[p].offset) /\ pane[p].base <= m
      BY <3>1, <3>2, <3>4 DEF Offsets, Smaller
    <3> HIDE DEF m, v
    <3>6. CASE ~pane[p].fd BY <3>1, <3>3, <3>6
    <3>7. CASE pane[p].fd
      <4> DEFINE n == pane[p].len - (m - pane[p].base)
      <4>1. pane[p].base + pane[p].len = pane[p].offset BY <3>1, <3>7 DEF Offsets
      <4>2. n \in Nat /\ m + n = pane[p].offset BY <3>4, <3>5, <4>1
      <4>3. pane'[p] = [pane[p] EXCEPT !.base = m, !.len = n, !.reading = v] BY <3>3, <3>7
      <4> HIDE DEF n
      <4>4. pane'[p].base = m /\ pane'[p].len = n /\ pane'[p].offset = pane[p].offset /\ pane'[p].fd = pane[p].fd
        BY <3>1, <4>3 DEF PaneType
      <4> QED BY <3>1, <3>4, <3>5, <3>7, <4>2, <4>4 DEF Offsets
    <3> QED BY <3>6, <3>7
  <2> QED BY <1>4, <2>1, <2>2, <2>3, <2>4, PanesClean
<1> QED BY <1>6, <1>7, <1>8, <1>9, <1>10, <1>11, <1>12, <1>13, <1>14

(* The write callback.                                                     *)
LEMMA WriterClean ==
  ASSUME Always, Clean, faults' = {},
         \/ control_flush_all_blocks \/ control_write_callback \/ NextPane \/ PaneGone \/ PaneTooOld
         \/ control_write_data \/ PaneDone \/ \E n \in 0 .. ev.out : write_ready(n)
  PROVE  Clean'
<1>1. ControlTypes /\ all_blocks \in Seq(Block) /\ cp \in [Panes -> ControlPane] /\ lines \in Nat
      /\ pane \in [Panes -> PaneType] /\ w \in WriterType /\ WriterGood(w)
  BY DEF Always, ControlTypes
<1>2. /\ \A q \in Panes : Offsets(pane[q], cp[q], flags) /\ Covers(ToSet(all_blocks), q, cp[q], flags)
      /\ BlockQueue(all_blocks, lines) /\ MessageGood
  BY DEF Clean
<1>3. ASSUME UNCHANGED <<pane, cp, all_blocks, lines>>, flags' = flags, w'.msg = <<>>
      PROVE  Clean'
  BY <1>2, <1>3, PanesClean
<1>4. CASE control_flush_all_blocks
  <2>1. w.pc = "flush" /\ UNCHANGED <<pane, cp, flags>> BY <1>4 DEF control_flush_all_blocks, At
  <2>2. w.msg = <<>> BY <1>2, <2>1, NoMessage
  <2>3. CASE all_blocks # <<>> /\ Head(all_blocks).of = Line
    <3>1. all_blocks' = Tail(all_blocks) /\ UNCHANGED <<lines, w>> BY <1>4, <2>3 DEF control_flush_all_blocks
    <3>2. BlockQueue(Tail(all_blocks), lines) /\ ToSet(Tail(all_blocks)) = ToSet(all_blocks) \ {Head(all_blocks)}
      BY <1>1, <1>2, <2>3, BlocksTaken
    <3>3. \A q \in Panes : \A b : BlockOf(b, {q}) => (b \in ToSet(all_blocks') <=> b \in ToSet(all_blocks))
      BY <2>3, <3>1, <3>2, PanesAssumption DEF BlockOf
    <3>4. "NOOUTPUT" \in flags' <=> "NOOUTPUT" \in flags BY <2>1
    <3> QED BY <1>2, <2>1, <2>2, <3>1, <3>2, <3>3, <3>4, PanesClean
  <2>4. CASE ~(all_blocks # <<>> /\ Head(all_blocks).of = Line)
    <3>1. w' = [w EXCEPT !.pc = w.ret] /\ UNCHANGED <<all_blocks, lines>>
      BY <1>4, <2>4 DEF control_flush_all_blocks, Quiet
    <3>2. w'.msg = <<>> BY <1>1, <2>2, <3>1 DEF WriterType
    <3> QED BY <1>3, <2>1, <3>1, <3>2
  <2> QED BY <2>3, <2>4
<1>5. CASE control_write_callback
  <2>1. w.pc = "loop" /\ UNCHANGED <<pane, cp, all_blocks, flags, lines>> BY <1>5 DEF control_write_callback, At, Quiet
  <2>2. w.msg = <<>> BY <1>2, <2>1, NoMessage
  <2> DEFINE share == ((High - ev.out) \div Len(pending_list)) \div 3
             limit == IF share < Minimum THEN Minimum ELSE share
  <2>3. w' = [w EXCEPT !.pc = "walk", !.walk = pending_list, !.limit = limit] \/ w' = NoWriter
    BY <1>5 DEF control_write_callback
  <2> HIDE DEF limit
  <2>4. w'.msg = <<>>
    <3>1. CASE w' = NoWriter BY <3>1 DEF NoWriter
    <3>2. CASE w' = [w EXCEPT !.pc = "walk", !.walk = pending_list, !.limit = limit]
      <4>1. w'.msg = w.msg BY ONLY <1>1, <3>2 DEF WriterType
      <4> QED BY <2>2, <4>1
    <3> QED BY <2>3, <3>1, <3>2
  <2> QED BY <1>3, <2>1, <2>4
<1>6. CASE NextPane
  <2>1. w.pc = "walk" /\ UNCHANGED <<pane, cp, all_blocks, flags, lines>>
        /\ (w' = [w EXCEPT !.pc = "loop"] \/ w' = [w EXCEPT !.pc = "pane", !.used = 0])
    BY <1>6 DEF NextPane, At, Quiet
  <2>2. w.msg = <<>> BY <1>2, <2>1, NoMessage
  <2>3. w'.msg = <<>> BY <1>1, <2>1, <2>2 DEF WriterType
  <2> QED BY <1>3, <2>1, <2>3
<1>7. CASE PaneGone
  <2>1. /\ w.pc = "pane" /\ Gone(Head(w.walk)) /\ all_blocks' = Discarded(all_blocks, {Head(w.walk)})
        /\ w' = [w EXCEPT !.pc = "flush", !.ret = "done"] /\ UNCHANGED <<pane, cp, flags, lines>>
    BY <1>7 DEF PaneGone, At, Quiet
  <2>2. w.msg = <<>> BY <1>2, <2>1 DEF MessageGood
  <2>3. w'.msg = <<>> BY <1>1, <2>1, <2>2 DEF WriterType
  <2>4. BlockQueue(all_blocks', lines)
        /\ \A b : b \in ToSet(all_blocks') <=> b \in ToSet(all_blocks) /\ ~BlockOf(b, {Head(w.walk)})
    BY <1>1, <1>2, <2>1, DiscardClean
  <2>5. ASSUME NEW q \in Panes
        PROVE  \/ \A b : BlockOf(b, {q}) => (b \in ToSet(all_blocks') <=> b \in ToSet(all_blocks))
               \/ \A b \in ToSet(all_blocks') : ~BlockOf(b, {q})
    <3>1. CASE q = Head(w.walk) BY <2>4, <3>1
    <3>2. CASE q # Head(w.walk) BY <2>4, <3>2 DEF BlockOf
    <3> QED BY <3>1, <3>2
  <2>6. "NOOUTPUT" \in flags' <=> "NOOUTPUT" \in flags BY <2>1
  <2> QED BY <1>2, <2>1, <2>3, <2>4, <2>5, <2>6, PanesClean
<1>8. CASE PaneTooOld
  <2> DEFINE p == Head(w.walk)
  <2>1. /\ w.pc = "pane" /\ control_check_age(p) /\ pane' = pane
        /\ w' = [w EXCEPT !.pc = "done", !.msg = <<>>]
    BY <1>8 DEF PaneTooOld, At
  <2>2. p \in Panes BY <1>1, <2>1, AtHead DEF AtPane
  <2>3. w'.msg = <<>> BY <1>1, <2>1 DEF WriterType
  <2> HIDE DEF p
  <2>4. /\ BlockQueue(all_blocks', lines')
        /\ \A q \in Panes : (Covers(ToSet(all_blocks), q, cp[q], flags) => Covers(ToSet(all_blocks'), q, cp'[q], flags'))
        /\ \A q \in Panes : /\ cp'[q].exists = cp[q].exists /\ cp'[q].offset = cp[q].offset /\ cp'[q].queued = cp[q].queued
                            /\ Holding(cp'[q], flags') => Holding(cp[q], flags)
    BY <1>1, <1>2, <2>1, <2>2, CheckAgeClean
  <2>5. \A q \in Panes : Offsets(pane'[q], cp'[q], flags') BY <1>2, <2>1, <2>4, OffsetsKept
  <2> QED BY <1>2, <2>3, <2>4, <2>5, CleanFrom
<1>9. CASE control_write_data
  <2>1. UNCHANGED <<pane, cp, all_blocks, flags, lines>>
        /\ (w' = [w EXCEPT !.pc = "flush", !.msg = <<>>] \/ w' = [w EXCEPT !.pc = "done", !.msg = <<>>])
    BY <1>9 DEF control_write_data
  <2>2. w'.msg = <<>> BY <1>1, <2>1 DEF WriterType
  <2> QED BY <1>3, <2>1, <2>2
<1>10. CASE PaneDone
  <2> DEFINE p == Head(w.walk)
             empty == Mine(p) = {}
             v == cp[p].pending /\ ~empty
             d == [cp[p] EXCEPT !.pending = v]
  <2>1. /\ w.pc = "done" /\ UNCHANGED <<pane, all_blocks, flags, lines>>
        /\ w' = [w EXCEPT !.pc = "walk", !.walk = Tail(@)] /\ cp' = [cp EXCEPT ![p] = d]
    BY <1>10 DEF PaneDone, At, Quiet
  <2>2. p \in Panes BY <1>1, <2>1, AtHead DEF AtPane
  <2>3. w.msg = <<>> BY <1>2, <2>1, NoMessage
  <2>4. w'.msg = <<>> BY <1>1, <2>1, <2>3 DEF WriterType
  <2>5. v \in BOOLEAN /\ (empty \/ v = cp[p].pending)
    <3>1. cp[p].pending \in BOOLEAN BY <1>1, <2>2 DEF ControlPane
    <3> QED BY <3>1
  <2>6. empty <=> \A b \in ToSet(all_blocks) : ~BlockOf(b, {p}) BY DEF Mine, ToSet
  <2> HIDE DEF v, empty
  <2>7. d.exists = cp[p].exists /\ d.offset = cp[p].offset /\ d.queued = cp[p].queued
        /\ (Holding(d, flags) => Holding(cp[p], flags)) /\ (v = cp[p].pending => d = cp[p])
    BY <1>1, <2>2 DEF ControlPane, Holding
  <2> HIDE DEF d, p
  <2>8. cp'[p] = d /\ \A q \in Panes : q # p => cp'[q] = cp[q] BY <1>1, <2>1, <2>2
  <2>9. Offsets(pane[p], d, flags)
    <3>1. Offsets(pane[p], cp[p], flags) BY <1>2, <2>2
    <3> QED BY ONLY <2>7, <3>1, OffsetsKept
  <2>10. \A q \in Panes : Offsets(pane'[q], cp'[q], flags') BY <1>2, <2>1, <2>8, <2>9
  <2>11. ASSUME NEW q \in Panes PROVE Covers(ToSet(all_blocks'), q, cp'[q], flags')
    <3>1. CASE q = p /\ empty BY <2>1, <2>6, <3>1, CoversNone
    <3>2. CASE q # p \/ v = cp[p].pending
      <4>1. cp'[q] = cp[q] BY <2>7, <2>8, <3>2
      <4> QED BY <1>2, <2>1, <4>1
    <3> QED BY <2>5, <3>1, <3>2
  <2> QED BY <1>2, <2>1, <2>4, <2>10, <2>11, CleanFrom
<1>11. ASSUME NEW n \in 0 .. ev.out, write_ready(n) PROVE Clean'
  <2>1. UNCHANGED <<pane, cp, all_blocks, flags, lines>> /\ w.pc = "idle"
        /\ (w' = [NoWriter EXCEPT !.pc = "flush", !.ret = "loop"] \/ w' = w)
    BY <1>11 DEF write_ready, Quiet, Idle
  <2>2. w.msg = <<>> BY <1>2, <2>1, NoMessage
  <2>3. w'.msg = <<>> BY <2>1, <2>2 DEF NoWriter
  <2> QED BY <1>3, <2>1, <2>3
<1> QED BY <1>4, <1>5, <1>6, <1>7, <1>8, <1>9, <1>10, <1>11

(* The oldest block of a pane starts at its offset.                        *)
LEMMA OldestIs ==
  ASSUME Always, Clean, NEW p \in Panes, NEW i \in DOMAIN all_blocks, NEW cb, cb = all_blocks[i], BlockOf(cb, {p}),
         \A j \in DOMAIN all_blocks : BlockOf(all_blocks[j], {p}) => i <= j
  PROVE  /\ cb.from = cp[p].offset + 1 /\ cb.size >= 1 /\ cb.from + cb.size <= cp[p].queued + 1
         /\ \A b \in ToSet(all_blocks) : BlockOf(b, {p}) /\ b # cb => cb.from + cb.size <= b.from
<1>1. all_blocks \in Seq(Block) /\ cp[p] \in ControlPane BY DEF Always, ControlTypes
<1>2. \A b \in ToSet(all_blocks) : b \in Block /\ b.from \in Int /\ b.size \in Int /\ Good(b, lines)
  BY <1>1, BlocksTyped DEF Clean, BlockQueue, Block
<1>3. cb \in ToSet(all_blocks) BY DEF ToSet
<1>4. cb.of # Line /\ cb.of = p BY PanesAssumption DEF BlockOf
<1>5. cb.size >= 1 BY <1>2, <1>3, <1>4 DEF Good
<1>6. /\ \A b \in ToSet(all_blocks) : BlockOf(b, {p}) => cp[p].offset < b.from /\ b.from + b.size <= cp[p].queued + 1
      /\ \A n \in cp[p].offset + 1 .. cp[p].queued :
            \E b \in ToSet(all_blocks) : BlockOf(b, {p}) /\ b.from <= n /\ n < b.from + b.size
  BY <1>3 DEF Clean, Covers
<1>7. ASSUME NEW b \in ToSet(all_blocks), BlockOf(b, {p}), b # cb PROVE cb.from + cb.size <= b.from /\ cb.from < b.from
  <2>1. PICK j \in DOMAIN all_blocks : b = all_blocks[j] BY DEF ToSet
  <2>0. i \in Int /\ j \in Int BY <1>1
  <2>2. i <= j /\ i # j
    <3>1. i # j BY <1>7, <2>1
    <3>2. BlockOf(all_blocks[j], {p}) BY <1>7, <2>1
    <3> QED BY <3>1, <3>2
  <2>3. i < j BY <2>0, <2>2
  <2>4. <<cb, b>> \in Ahead(all_blocks) BY <2>1, <2>3, AheadIs
  <2>5. b.of = cb.of BY <1>4, <1>7 DEF BlockOf
  <2>6. Later(cb, b) BY <2>4, <2>5 DEF Clean, BlockQueue, Ordered
  <2> QED BY <1>4, <2>6 DEF Later
<1>8. cp[p].offset \in Int /\ cp[p].queued \in Int /\ cb.from \in Int /\ cb.size \in Int BY <1>1, <1>2, <1>3 DEF ControlPane
<1>9. cp[p].offset < cb.from /\ cb.from + cb.size <= cp[p].queued + 1 BY <1>3, <1>6
<1>10. cp[p].offset + 1 \in cp[p].offset + 1 .. cp[p].queued BY <1>5, <1>8, <1>9
<1>11. PICK b \in ToSet(all_blocks) : BlockOf(b, {p}) /\ b.from <= cp[p].offset + 1 BY <1>6, <1>10
<1>12. b.from \in Int /\ cp[p].offset < b.from BY <1>2, <1>6, <1>11
<1>13. b.from = cp[p].offset + 1 BY <1>8, <1>11, <1>12
<1>14. b = cb
  <2>1. SUFFICES ASSUME b # cb PROVE FALSE OBVIOUS
  <2>2. cb.from < b.from BY <1>7, <1>11, <2>1
  <2> QED BY <1>8, <1>9, <1>13, <2>2
<1> QED BY <1>5, <1>7, <1>9, <1>13, <1>14

(* What is left after some of the oldest block was taken.                  *)
LEMMA CoversTaken ==
  ASSUME NEW p, NEW S, NEW c \in ControlPane, NEW f, Covers(S, p, c, f), \A b \in S : b \in Block,
         NEW cb \in S, BlockOf(cb, {p}), cb.from = c.offset + 1, cb.from + cb.size <= c.queued + 1,
         \A b \in S : BlockOf(b, {p}) /\ b # cb => cb.from + cb.size <= b.from,
         NEW size \in Int, size <= cb.size, 1 <= size,
         NEW d, d.offset = c.offset + size, d.queued = c.queued, c.pending => d.pending, Holding(c, f) => Holding(d, f),
         NEW T, size = cb.size => T = S \ {cb}, size # cb.size => T = (S \ {cb}) \cup {Shrunk(cb, size)}
  PROVE  Covers(T, p, d, f)
<1> DEFINE x == Shrunk(cb, size)
<1>1. c.offset \in Int /\ c.queued \in Int /\ \A b \in S : b.from \in Int /\ b.size \in Int BY DEF ControlPane, Block
<1>2. cb \in Block OBVIOUS
<1>3. /\ x.of = cb.of /\ x.orphan = cb.orphan /\ x.from = cb.from + size /\ x.size = cb.size - size
  BY <1>2, ShrunkIs
<1>4. BlockOf(x, {p}) BY <1>3 DEF BlockOf
<1> HIDE DEF x
<1>5. /\ Holding(c, f) /\ c.pending
      /\ \A b \in S : BlockOf(b, {p}) => c.offset < b.from /\ b.from + b.size <= c.queued + 1
      /\ \A n \in c.offset + 1 .. c.queued :
            \E b \in S : BlockOf(b, {p}) /\ b.from <= n /\ n < b.from + b.size
  BY DEF Covers
<1>6. \A b : b \in T => (b \in S /\ b # cb) \/ (b = x /\ size # cb.size) BY DEF x
<1>7. ASSUME NEW b \in T, BlockOf(b, {p}) PROVE d.offset < b.from /\ b.from + b.size <= d.queued + 1
  <2>1. CASE b \in S /\ b # cb
    <3>1. cb.from + cb.size <= b.from /\ b.from + b.size <= c.queued + 1 BY <1>5, <1>7, <2>1
    <3> QED BY <1>1, <2>1, <3>1
  <2>2. CASE b = x /\ size # cb.size
    <3>1. x.from + x.size = cb.from + cb.size BY <1>1, <1>3
    <3>2. d.offset < x.from BY <1>1, <1>3
    <3> QED BY <2>2, <3>1, <3>2
  <2> QED BY <1>6, <2>1, <2>2
<1>8. ASSUME NEW n \in d.offset + 1 .. d.queued
      PROVE  \E b \in T : BlockOf(b, {p}) /\ b.from <= n /\ n < b.from + b.size
  <2>1. n \in Int /\ cb.from + size <= n /\ n \in c.offset + 1 .. c.queued BY <1>1, <1>8
  <2>2. PICK b \in S : BlockOf(b, {p}) /\ b.from <= n /\ n < b.from + b.size BY <1>5, <2>1
  <2>3. CASE b # cb
    <3>1. b \in T BY <2>3
    <3> QED BY <2>2, <3>1
  <2>4. CASE b = cb
    <3>1. size # cb.size BY <1>1, <2>1, <2>2, <2>4
    <3>2. x \in T BY <3>1 DEF x
    <3>3. x.from <= n /\ n < x.from + x.size BY <1>1, <1>3, <2>1, <2>2, <2>4
    <3> QED BY <1>4, <3>2, <3>3
  <2> QED BY <2>3, <2>4
<1>9. Holding(d, f) /\ d.pending BY <1>5
<1> QED BY <1>7, <1>8, <1>9 DEF Covers

LEMMA ConcatAt ==
  ASSUME NEW T, NEW s \in Seq(T), NEW t \in Seq(T)
  PROVE  /\ Len(s \o t) = Len(s) + Len(t)
         /\ \A k \in 1 .. Len(s) + Len(t) : (s \o t)[k] = IF k <= Len(s) THEN s[k] ELSE t[k - Len(s)]
  OBVIOUS

LEMMA AppendDataClean ==
  ASSUME Always, Clean, control_append_data
  PROVE  Clean'
<1>1. /\ ControlTypes /\ all_blocks \in Seq(Block) /\ cp \in [Panes -> ControlPane] /\ lines \in Nat
      /\ pane \in [Panes -> PaneType] /\ w \in WriterType /\ WriterGood(w)
  BY DEF Always, ControlTypes
<1>2. /\ \A q \in Panes : Offsets(pane[q], cp[q], flags) /\ Covers(ToSet(all_blocks), q, cp[q], flags)
      /\ BlockQueue(all_blocks, lines) /\ MessageGood
  BY DEF Clean
<1>3. PICK p, i, cb, size : p = Head(w.walk) /\ cb = all_blocks[i] /\ AppendEffect(p, i, cb, size) BY AppendFacts
<1>4. /\ w.pc = "pane" /\ p \in Panes /\ ~Gone(p) /\ p = Head(w.walk)
      /\ i \in DOMAIN all_blocks /\ cb \in Block /\ cb \in ToSet(all_blocks) /\ BlockOf(cb, {p}) /\ cb = all_blocks[i]
      /\ \A j \in DOMAIN all_blocks : BlockOf(all_blocks[j], {p}) => i <= j
      /\ size \in Int /\ size <= cb.size /\ (size >= 1 \/ cb.size < 1)
      /\ IF size = cb.size THEN all_blocks' = RemoveAt(all_blocks, i)
         ELSE all_blocks' = [all_blocks EXCEPT ![i] = Shrunk(cb, size)]
      /\ cp' = [cp EXCEPT ![p].offset = @ + size]
      /\ w'.pc \in {"pane", "write"} /\ w'.walk = w.walk
      /\ w'.msg = w.msg \o [k \in 1 .. size |-> <<p, cp[p].offset + k>>]
      /\ UNCHANGED <<pane, flags, lines>>
  BY <1>3 DEF AppendEffect
<1>5. /\ cb.from = cp[p].offset + 1 /\ cb.size >= 1 /\ cb.from + cb.size <= cp[p].queued + 1
      /\ \A b \in ToSet(all_blocks) : BlockOf(b, {p}) /\ b # cb => cb.from + cb.size <= b.from
  BY <1>4, OldestIs
<1>6. cb.size \in Int /\ size \in Nat /\ 1 <= size /\ 0 < size
  <2>1. cb.size \in Int BY <1>4 DEF Block
  <2> QED BY <1>4, <1>5, <2>1
<1>7. /\ BlockQueue(all_blocks', lines)
      /\ ToSet(all_blocks') = IF size = cb.size THEN ToSet(all_blocks) \ {cb}
                              ELSE (ToSet(all_blocks) \ {cb}) \cup {Shrunk(cb, size)}
  <2>0. lines \in Nat /\ BlockQueue(all_blocks, lines) /\ i \in DOMAIN all_blocks BY <1>1, <1>2, <1>4
  <2>1. CASE size = cb.size
    <3>1. BlockQueue(RemoveAt(all_blocks, i), lines) /\ ToSet(RemoveAt(all_blocks, i)) = ToSet(all_blocks) \ {all_blocks[i]}
      BY ONLY <2>0, BlocksRemoved
    <3> QED BY <1>4, <2>1, <3>1
  <2>2. CASE size # cb.size
    <3>1. size < cb.size BY <1>4, <1>6, <2>2
    <3>2. all_blocks[i].of # Line /\ size < all_blocks[i].size BY <1>4, <3>1, PanesAssumption DEF BlockOf
    <3>4. /\ BlockQueue(ShrunkAt(all_blocks, i, size), lines)
          /\ ToSet(ShrunkAt(all_blocks, i, size))
                = (ToSet(all_blocks) \ {all_blocks[i]}) \cup {Shrunk(all_blocks[i], size)}
      BY ONLY <1>6, <2>0, <3>2, BlocksShrunk
    <3> QED BY <1>4, <2>2, <3>4 DEF ShrunkAt
  <2> QED BY <2>1, <2>2
<1> DEFINE d == [cp[p] EXCEPT !.offset = @ + size]
<1>8. cp[p] \in ControlPane /\ cp[p].offset \in Int /\ cp[p].queued \in Int BY <1>1, <1>4 DEF ControlPane
<1>9. /\ d.offset = cp[p].offset + size /\ d.queued = cp[p].queued /\ d.pending = cp[p].pending /\ d.exists = cp[p].exists
      /\ d.off = cp[p].off /\ d.paused = cp[p].paused
  BY <1>8 DEF ControlPane
<1> HIDE DEF d
<1>10. cp'[p] = d /\ \A q \in Panes : q # p => cp'[q] = cp[q] BY <1>1, <1>4 DEF d
<1>11. Holding(d, flags) <=> Holding(cp[p], flags) BY <1>9 DEF Holding
<1>12. Offsets(pane[p], d, flags)
  <2>1. Offsets(pane[p], cp[p], flags) /\ cb.from \in Int BY <1>2, <1>4 DEF Block
  <2>2. cp[p].offset \in Nat /\ cp[p].queued \in Nat /\ pane[p].base \in Nat BY <2>1 DEF Offsets
  <2>3. d.offset \in Nat /\ d.offset <= d.queued /\ cp[p].offset <= d.offset
    <3>1. cp[p].offset + size \in Nat /\ cp[p].offset <= cp[p].offset + size BY <1>6, <2>2
    <3>2. size <= cb.size /\ cb.from = cp[p].offset + 1 /\ cb.from + cb.size <= cp[p].queued + 1 BY <1>4, <1>5
    <3>3. cp[p].offset + size <= cp[p].queued BY ONLY <1>6, <1>8, <3>2
    <3> QED BY <1>9, <3>1, <3>3
  <2>4. Holding(d, flags) => pane[p].base <= d.offset BY <1>11, <2>1, <2>2, <2>3 DEF Offsets
  <2> QED BY <1>9, <2>1, <2>3, <2>4 DEF Offsets
<1>13. \A q \in Panes : Offsets(pane'[q], cp'[q], flags') BY <1>2, <1>4, <1>10, <1>12
<1>14. Covers(ToSet(all_blocks'), p, d, flags)
  <2>1. Covers(ToSet(all_blocks), p, cp[p], flags) /\ \A b \in ToSet(all_blocks) : b \in Block
    BY <1>1, <1>2, <1>4, BlocksTyped
  <2>2. cb \in ToSet(all_blocks) /\ BlockOf(cb, {p}) /\ size \in Int /\ size <= cb.size BY <1>4
  <2>3. /\ size = cb.size => ToSet(all_blocks') = ToSet(all_blocks) \ {cb}
        /\ size # cb.size => ToSet(all_blocks') = (ToSet(all_blocks) \ {cb}) \cup {Shrunk(cb, size)}
    BY <1>7
  <2>4. cp[p].pending => d.pending BY <1>9
  <2> QED BY ONLY <1>5, <1>6, <1>8, <1>9, <1>11, <2>1, <2>2, <2>3, <2>4, CoversTaken
<1>15. ASSUME NEW q \in Panes PROVE Covers(ToSet(all_blocks'), q, cp'[q], flags')
  <2>1. CASE q = p BY <1>4, <1>10, <1>14, <2>1
  <2>2. CASE q # p
    <3>1. ~BlockOf(cb, {q}) /\ ~BlockOf(Shrunk(cb, size), {q}) BY <1>4, <2>2, ShrunkIs DEF BlockOf
    <3>2. \A b : BlockOf(b, {q}) => (b \in ToSet(all_blocks') <=> b \in ToSet(all_blocks)) BY <1>7, <3>1
    <3>3. Covers(ToSet(all_blocks'), q, cp[q], flags) BY <1>2, <3>2, CoversSame
    <3> QED BY <1>4, <1>10, <2>2, <3>3
  <2> QED BY <2>1, <2>2
<1>16. MessageGood'
  <2> DEFINE piece == [k \in 1 .. size |-> <<p, cp[p].offset + k>>]
             L == Len(w.msg)
  <2>1. w.msg \in Seq(Panes \X Int) /\ L \in Nat BY <1>1 DEF WriterType
  <2>2. piece \in [1 .. size -> Panes \X Int]
    <3>1. \A k \in 1 .. size : cp[p].offset + k \in Int BY <1>6, <1>8
    <3> QED BY <1>4, <3>1
  <2>3. piece \in Seq(Panes \X Int) /\ Len(piece) = size /\ \A k \in 1 .. size : piece[k] = <<p, cp[p].offset + k>>
    BY <1>6, <2>2, IntSeq
  <2>4. w'.msg = w.msg \o piece BY <1>4
  <2>5. \A k \in 1 .. L : w.msg[k] = <<p, cp[p].offset - L + k>>
    <3>1. CASE w.msg = <<>>
      <4>1. 1 .. L = {} BY <3>1
      <4> QED BY <4>1
    <3>2. CASE w.msg # <<>> BY <1>2, <1>4, <3>2 DEF MessageGood
    <3> QED BY <3>1, <3>2
  <2> HIDE DEF piece
  <2>6. Len(w'.msg) = L + size /\ \A k \in 1 .. L + size : w'.msg[k] = IF k <= L THEN w.msg[k] ELSE piece[k - L]
    <3>1. /\ Len(w.msg \o piece) = Len(w.msg) + Len(piece)
          /\ \A k \in 1 .. Len(w.msg) + Len(piece) :
                (w.msg \o piece)[k] = IF k <= Len(w.msg) THEN w.msg[k] ELSE piece[k - Len(w.msg)]
      BY ONLY <2>1, <2>3, ConcatAt
    <3> QED BY ONLY <2>3, <2>4, <3>1
  <2> HIDE DEF L
  <2>7. ASSUME NEW k \in 1 .. L + size PROVE w'.msg[k] = <<p, d.offset - (L + size) + k>>
    <3>1. CASE k <= L
      <4>1. k \in 1 .. L BY <1>6, <2>1, <3>1
      <4>2. cp[p].offset - L + k = d.offset - (L + size) + k BY <1>6, <1>8, <1>9, <2>1
      <4> QED BY <2>5, <2>6, <3>1, <4>1, <4>2
    <3>2. CASE ~(k <= L)
      <4>1. k - L \in 1 .. size BY <1>6, <2>1, <3>2
      <4>2. cp[p].offset + (k - L) = d.offset - (L + size) + k BY <1>6, <1>8, <1>9, <2>1
      <4> QED BY <2>3, <2>6, <3>2, <4>1, <4>2
    <3> QED BY <3>1, <3>2
  <2>8. w'.pc \in {"pane", "write"} /\ ~(Gone(Head(w.walk)))' /\ Head(w'.walk) = p
    BY <1>4 DEF Gone
  <2>9. \A k \in 1 .. Len(w'.msg) : w'.msg[k] = <<Head(w'.walk), cp'[Head(w'.walk)].offset - Len(w'.msg) + k>>
    BY <1>10, <2>6, <2>7, <2>8
  <2>10. ~(Gone(Head(w.walk)))'
    BY <1>4 DEF Gone
  <2> QED BY <2>8, <2>9, <2>10 DEF MessageGood
<1> QED BY <1>4, <1>7, <1>13, <1>15, <1>16 DEF Clean

(* A fault is not forgotten.                                               *)
LEMMA FaultsKept == [Next]_vars => faults \subseteq faults'
<1>1. ASSUME Next PROVE faults \subseteq faults'
  <2>1. ASSUME NEW p \in Panes, NEW k \in 1 .. 2, window_pane_read_callback(p, k) PROVE faults \subseteq faults'
    BY <2>1 DEF window_pane_read_callback, NotOffered, Skipped, Queued
  <2>2. ASSUME NEW p \in Panes, \/ control_set_pane_off(p) \/ control_set_pane_on(p)
                               \/ control_continue_pane(p) \/ control_pause_pane(p)
                               \/ LinkWindow(p) \/ PaneDies(p) \/ PaneRespawns(p)
        PROVE  faults \subseteq faults'
    BY <2>2 DEF control_set_pane_off, control_set_pane_on, control_continue_pane, control_pause_pane, LinkWindow,
                PaneDies, PaneRespawns
  <2>3. CASE \/ Notify \/ \E f \in {"NOOUTPUT", "PAUSEAFTER"} : server_client_set_flags(f)
             \/ \E error \in BOOLEAN : ClientExits(error)
             \/ TimePasses \/ write_error \/ server_client_loop \/ \E n \in 0 .. ev.out : write_ready(n)
    BY ZenonT(60), <2>3 DEF Notify, server_client_set_flags, ClientExits, TimePasses, write_error, server_client_loop, write_ready
  <2>4. CASE Writer
    BY <2>4 DEF Writer, control_flush_all_blocks, control_write_callback, NextPane, PaneGone, PaneTooOld,
                control_append_data, control_write_data, PaneDone
  <2> QED BY <1>1, <2>1, <2>2, <2>3, <2>4 DEF Next
<1> QED BY <1>1 DEF vars

LEMMA CleanStep == Always /\ Clean /\ [Next]_vars /\ faults' = {} => Clean'
<1>1. ASSUME Clean, UNCHANGED vars PROVE Clean'
  <2>1. /\ \A q \in Panes : Offsets(pane[q], cp[q], flags) /\ Covers(ToSet(all_blocks), q, cp[q], flags)
        /\ BlockQueue(all_blocks, lines) /\ MessageGood
    BY <1>1 DEF Clean
  <2>2. UNCHANGED <<pane, cp, flags, all_blocks, lines, w>> BY <1>1 DEF vars
  <2>3. MessageGood' BY <2>1, <2>2 DEF MessageGood, Gone
  <2> QED BY <2>1, <2>2, <2>3 DEF Clean
<1>2. ASSUME Always, Clean, faults' = {}, Next PROVE Clean'
  <2>1. ASSUME NEW p \in Panes, NEW k \in 1 .. 2, window_pane_read_callback(p, k) PROVE Clean'
    BY <1>2, <2>1, ReadClean
  <2>2. ASSUME NEW p \in Panes, \/ control_set_pane_off(p) \/ control_set_pane_on(p)
                               \/ control_continue_pane(p) \/ control_pause_pane(p)
        PROVE  Clean'
    BY <1>2, <2>2, CommandsClean
  <2>3. CASE \/ Notify \/ \E p \in Panes : LinkWindow(p) \/ PaneDies(p) \/ PaneRespawns(p)
             \/ \E f \in {"NOOUTPUT", "PAUSEAFTER"} : server_client_set_flags(f)
             \/ \E error \in BOOLEAN : ClientExits(error)
             \/ TimePasses \/ write_error \/ server_client_loop
    BY <1>2, <2>3, OutsideClean
  <2>4. CASE \/ control_flush_all_blocks \/ control_write_callback \/ NextPane \/ PaneGone \/ PaneTooOld
             \/ control_write_data \/ PaneDone \/ \E n \in 0 .. ev.out : write_ready(n)
    BY <1>2, <2>4, WriterClean
  <2>5. CASE control_append_data BY <1>2, <2>5, AppendDataClean
  <2> QED BY <1>2, <2>1, <2>2, <2>3, <2>4, <2>5 DEF Next, Writer
<1> QED BY <1>1, <1>2

LEMMA ControlStep == ControlInv /\ [Next]_vars => ControlInv'
<1> SUFFICES ASSUME ControlInv, [Next]_vars PROVE ControlInv' OBVIOUS
<1>1. Always' BY AlwaysStep DEF ControlInv
<1>2. ASSUME faults' = {} PROVE Clean'
  <2>1. faults = {} BY <1>2, FaultsKept
  <2> QED BY <1>2, <2>1, CleanStep DEF ControlInv
<1> QED BY <1>1, <1>2 DEF ControlInv

LEMMA ControlStart == Init => ControlInv
<1> SUFFICES ASSUME Init PROVE ControlInv OBVIOUS
<1>1. NoPane \in ControlPane /\ ~NoPane.pending /\ ~NoPane.exists /\ NoPane.offset = 0 /\ NoPane.queued = 0
  BY DEF NoPane, ControlPane
<1>2. cp \in [Panes -> ControlPane] /\ \A p \in Panes : cp[p] = NoPane BY <1>1 DEF Init
<1> DEFINE q == [base |-> 0, len |-> 0, offset |-> 0, reading |-> TRUE, fd |-> TRUE, linked |-> TRUE]
<1>3. q \in PaneType /\ q.base = 0 /\ q.len = 0 /\ q.offset = 0 /\ q.fd = TRUE BY DEF PaneType
<1>4. pane = [p \in Panes |-> q] BY DEF Init
<1> HIDE DEF q
<1>5. pane \in [Panes -> PaneType] /\ \A p \in Panes : pane[p] = q BY <1>3, <1>4
<1>6. NoWriter \in WriterType
  <2>1. w \in {NoWriter} BY DEF Init
  <2> DEFINE empty == <<>>
  <2>2. empty \in Seq(Panes \X Int) /\ empty \in Seq(Panes) OBVIOUS
  <2> HIDE DEF empty
  <2>3. [pc |-> "idle", ret |-> "idle", walk |-> empty, limit |-> 0, used |-> 0, msg |-> empty] \in WriterType
    BY <2>2 DEF WriterType
  <2> QED BY <2>3 DEF NoWriter, empty
<1>7. w = NoWriter /\ w.msg = <<>> /\ w.pc = "idle" BY DEF Init, NoWriter
<1>8. WriterGood(w) BY <1>7 DEF WriterGood, AtPane
<1>9. ev \in Event BY DEF Init, Event
<1>10. all_blocks = <<>> /\ pending_list = <<>> /\ flags \subseteq ControlFlags /\ lines = 0 /\ faults = {}
  BY DEF Init, ControlFlags
<1>11. ToSet(all_blocks) = {} /\ all_blocks \in Seq(Block) /\ pending_list \in Seq(Panes) BY <1>10, EmptyQueue
<1>12. PendingOnce BY <1>1, <1>2, <1>10, EmptyQueue DEF PendingOnce
<1>13. Always
  <2>1. \A p \in Panes : ~cp[p].exists => ~cp[p].pending BY <1>1, <1>2
  <2> QED BY <1>2, <1>5, <1>6, <1>7, <1>8, <1>9, <1>10, <1>11, <1>12, <2>1 DEF Always, ControlTypes
<1>14. \A p \in Panes : Offsets(pane[p], cp[p], flags) BY <1>1, <1>2, <1>3, <1>5 DEF Offsets, Holding
<1>15. \A p \in Panes : Covers(ToSet(all_blocks), p, cp[p], flags) BY <1>11, CoversNone
<1>16. BlockQueue(all_blocks, lines) BY <1>11, InAhead DEF BlockQueue, Ordered
<1> QED BY <1>7, <1>13, <1>14, <1>15, <1>16 DEF ControlInv, Clean, MessageGood

(* What is true of control mode in every state.                            *)
THEOREM ControlInductive == Spec => []ControlInv
<1>1. ControlInv /\ [Next]_vars => ControlInv' BY ControlStep
<1> QED BY <1>1, ControlStart, PTL DEF Spec

(* What was queued for a pane is in its blocks, once and in order, and     *)
(* still in its buffer (control_append_data).                              *)
LEMMA ControlInvMatches == ControlInv => BlocksMatch
<1> SUFFICES ASSUME ControlInv PROVE BlocksMatch OBVIOUS
<1>1. Always /\ PendingOnce /\ ControlTypes BY DEF ControlInv, Always
<1>2. all_blocks \in Seq(Block) /\ \A p \in Panes : cp[p] \in ControlPane /\ pane[p] \in PaneType BY <1>1 DEF ControlTypes
<1>3. ASSUME faults = {}, NEW p \in Panes, Mine(p) # {}
      PROVE  /\ UNION {Bytes(all_blocks[i]) : i \in Mine(p)} = cp[p].offset + 1 .. cp[p].queued
             /\ \A i, j \in Mine(p) : i < j => all_blocks[i].from + all_blocks[i].size <= all_blocks[j].from
             /\ pane[p].base <= cp[p].offset
             /\ pane[p].fd => cp[p].queued <= Total(p)
             /\ p \in ToSet(pending_list) /\ cp[p].pending
  <2>1. /\ Offsets(pane[p], cp[p], flags) /\ Covers(ToSet(all_blocks), p, cp[p], flags)
        /\ BlockQueue(all_blocks, lines)
    BY <1>3 DEF ControlInv, Clean
  <2>2. \A i : i \in Mine(p) <=> i \in DOMAIN all_blocks /\ BlockOf(all_blocks[i], {p}) BY DEF Mine
  <2>3. \E b \in ToSet(all_blocks) : BlockOf(b, {p}) BY <1>3, <2>2 DEF ToSet
  <2>4. /\ Holding(cp[p], flags) /\ cp[p].pending
        /\ \A b \in ToSet(all_blocks) : BlockOf(b, {p}) => cp[p].offset < b.from /\ b.from + b.size <= cp[p].queued + 1
        /\ \A n \in cp[p].offset + 1 .. cp[p].queued :
              \E b \in ToSet(all_blocks) : BlockOf(b, {p}) /\ b.from <= n /\ n < b.from + b.size
    BY <2>1, <2>3 DEF Covers
  <2>5. cp[p].offset \in Int /\ cp[p].queued \in Int BY <1>2 DEF ControlPane
  <2>6. \A i \in DOMAIN all_blocks : all_blocks[i] \in ToSet(all_blocks) /\ all_blocks[i].from \in Int /\ all_blocks[i].size \in Int
    <3>1. \A i \in DOMAIN all_blocks : all_blocks[i] \in ToSet(all_blocks) BY DEF ToSet
    <3>2. \A b \in ToSet(all_blocks) : b.from \in Int /\ b.size \in Int BY <1>2, BlocksTyped DEF Block
    <3> QED BY <3>1, <3>2
  <2>7. UNION {Bytes(all_blocks[i]) : i \in Mine(p)} = cp[p].offset + 1 .. cp[p].queued
    <3>1. ASSUME NEW i \in Mine(p), NEW n \in Bytes(all_blocks[i]) PROVE n \in cp[p].offset + 1 .. cp[p].queued
      <4>1. all_blocks[i].from \in Int /\ all_blocks[i].size \in Int
            /\ cp[p].offset < all_blocks[i].from /\ all_blocks[i].from + all_blocks[i].size <= cp[p].queued + 1
        BY <2>2, <2>4, <2>6
      <4>2. n \in Int /\ all_blocks[i].from <= n /\ n <= all_blocks[i].from + all_blocks[i].size - 1 BY <4>1 DEF Bytes
      <4> QED BY <2>5, <4>1, <4>2
    <3>2. ASSUME NEW n \in cp[p].offset + 1 .. cp[p].queued PROVE \E i \in Mine(p) : n \in Bytes(all_blocks[i])
      <4>1. PICK b \in ToSet(all_blocks) : BlockOf(b, {p}) /\ b.from <= n /\ n < b.from + b.size BY <2>4
      <4>2. PICK i \in DOMAIN all_blocks : b = all_blocks[i] BY <4>1 DEF ToSet
      <4>3. b.from \in Int /\ b.size \in Int /\ n \in Int BY <2>5, <2>6, <4>2
      <4>4. n \in Bytes(b) BY <4>1, <4>3 DEF Bytes
      <4> QED BY <2>2, <4>1, <4>2, <4>4
    <3> QED BY <3>1, <3>2
  <2>8. ASSUME NEW i \in Mine(p), NEW j \in Mine(p), i < j
        PROVE  all_blocks[i].from + all_blocks[i].size <= all_blocks[j].from
    <3>1. <<all_blocks[i], all_blocks[j]>> \in Ahead(all_blocks) BY <2>2, <2>8, AheadIs
    <3>2. all_blocks[i].of = p /\ all_blocks[j].of = p /\ p # Line BY <2>2, PanesAssumption DEF BlockOf
    <3> QED BY <2>1, <3>1, <3>2 DEF BlockQueue, Ordered, Later
  <2>9. pane[p].base <= cp[p].offset BY <2>1, <2>4 DEF Offsets
  <2>10. pane[p].fd => cp[p].queued <= Total(p)
    <3>1. cp[p].exists BY <2>4 DEF Holding
    <3> QED BY <2>1, <3>1 DEF Offsets, Total
  <2>11. p \in ToSet(pending_list) BY <1>1, <2>4 DEF PendingOnce
  <2> QED BY <2>4, <2>7, <2>8, <2>9, <2>10, <2>11
<1> QED BY <1>1, <1>3 DEF BlocksMatch, PendingOnce

(* The blocks of a pane refer to bytes it has, so that control_append_data *)
(* never ends the server, and whoever has blocks is pending.               *)
THEOREM BlocksAreExact == Spec => []BlocksMatch
BY ControlInductive, ControlInvMatches, PTL

-----------------------------------------------------------------------------
(* What waits, seen from the promise: HeldUp and Waiting as operators.      *)
Waits(all, msg) == ToSet(msg) \cup UNION {Items(b) : b \in ToSet(all)}
Held(all, msg) ==
    (ToSet(msg) \X UNION {Items(b) : b \in {c \in ToSet(all) : c.of = Line}})
        \cup UNION {Items(bc[1]) \X Items(bc[2]) : bc \in {x \in Ahead(all) : x[2] \in {c \in ToSet(all) : c.of = Line}}}

(* x has to come before the line c.                                        *)
InFront(all, msg, x, c) == x \in ToSet(msg) \/ \E b : <<b, c>> \in Ahead(all) /\ x \in Items(b)

LEMMA ItemsAre ==
  ASSUME NEW b \in Block
  PROVE  /\ \A x \in Items(b) : x = <<x[1], x[2]>> /\ x[1] = b.of /\ x[2] \in Int
         /\ b.of = Line => Items(b) = {<<Line, b.from>>}
         /\ b.of # Line => \A x : x \in Items(b) <=> \E k \in Int : b.from <= k /\ k < b.from + b.size /\ x = <<b.of, k>>
         /\ b.size >= 1 => Items(b) # {}
<1>1. b.from \in Int /\ b.size \in Int BY DEF Block
<1>2. CASE b.of = Line
  <2>1. Items(b) = {<<Line, b.from>>} BY <1>2 DEF Items
  <2> QED BY <1>1, <1>2, <2>1
<1>3. CASE b.of # Line
  <2>1. Items(b) = {b.of} \X Bytes(b) BY <1>3 DEF Items
  <2>2. \A k : k \in Bytes(b) <=> k \in Int /\ b.from <= k /\ k < b.from + b.size BY <1>1 DEF Bytes
  <2>3. \A x : x \in Items(b) <=> \E k \in Int : b.from <= k /\ k < b.from + b.size /\ x = <<b.of, k>> BY <2>1, <2>2
  <2>4. b.size >= 1 => <<b.of, b.from>> \in Items(b) BY <1>1, <2>3
  <2>5. \A x \in Items(b) : x = <<x[1], x[2]>> /\ x[1] = b.of /\ x[2] \in Int BY <2>3
  <2> QED BY <1>3, <2>3, <2>4, <2>5
<1> QED BY <1>2, <1>3

LEMMA WaitsAre ==
  ASSUME NEW all, NEW msg
  PROVE  \A x : x \in Waits(all, msg) <=> x \in ToSet(msg) \/ \E b \in ToSet(all) : x \in Items(b)
  BY DEF Waits

LEMMA HeldAre ==
  ASSUME NEW all \in Seq(Block), NEW msg
  PROVE  /\ \A x, y : <<x, y>> \in Held(all, msg) <=>
              \E c \in ToSet(all) : c.of = Line /\ y = <<Line, c.from>> /\ InFront(all, msg, x, c)
         /\ \A z \in Held(all, msg) : \E x, y \in Waits(all, msg) : z = <<x, y>>
<1> DEFINE L == {b \in ToSet(all) : b.of = Line}
           A == UNION {Items(bc[1]) \X Items(bc[2]) : bc \in {x \in Ahead(all) : x[2] \in L}}
           B == ToSet(msg) \X UNION {Items(b) : b \in L}
<1>1. Held(all, msg) = B \cup A BY DEF Held
<1>2. \A b \in L : b \in ToSet(all) /\ b.of = Line /\ Items(b) = {<<Line, b.from>>} BY BlocksTyped, ItemsAre
<1>3. \A b, c : <<b, c>> \in Ahead(all) => b \in ToSet(all) /\ c \in ToSet(all) BY InAhead
<1>4. \A z \in Ahead(all) : \E b, c \in ToSet(all) : z = <<b, c>> BY AheadIs
<1>5. ASSUME NEW z \in A PROVE \E x, y, b, c : z = <<x, y>> /\ <<b, c>> \in Ahead(all) /\ c \in L /\ x \in Items(b) /\ y \in Items(c)
  <2>1. PICK bc \in Ahead(all) : bc[2] \in L /\ z \in Items(bc[1]) \X Items(bc[2]) BY <1>5
  <2>2. PICK b, c \in ToSet(all) : bc = <<b, c>> BY <1>4
  <2>3. c \in L /\ z \in Items(b) \X Items(c) BY <2>1, <2>2
  <2>4. PICK x \in Items(b), y \in Items(c) : z = <<x, y>> BY <2>3
  <2>5. <<b, c>> \in Ahead(all) BY <2>1, <2>2
  <2> HIDE DEF L
  <2> QED BY <2>3, <2>4, <2>5
<1>6. ASSUME NEW x, NEW y, NEW b, NEW c \in L, <<b, c>> \in Ahead(all), x \in Items(b), y \in Items(c)
      PROVE  <<x, y>> \in A
  <2> DEFINE bc == <<b, c>>
  <2>1. bc[1] = b /\ bc[2] = c /\ bc \in Ahead(all) BY <1>6
  <2>2. <<x, y>> \in Items(bc[1]) \X Items(bc[2]) BY <1>6, <2>1
  <2>3. bc \in {e \in Ahead(all) : e[2] \in L} BY <2>1
  <2> QED BY <2>2, <2>3
<1>7. \A z \in B : \E x, y : z = <<x, y>> /\ x \in ToSet(msg) /\ \E c \in L : y \in Items(c) OBVIOUS
<1>8. \A x, y : x \in ToSet(msg) /\ (\E c \in L : y \in Items(c)) => <<x, y>> \in B OBVIOUS
<1>9. \A c : c \in L <=> c \in ToSet(all) /\ c.of = Line OBVIOUS
<1> HIDE DEF A, B, L
<1>10. ASSUME NEW x, NEW y, <<x, y>> \in Held(all, msg)
       PROVE  \E c \in ToSet(all) : c.of = Line /\ y = <<Line, c.from>> /\ InFront(all, msg, x, c)
  <2>1. CASE <<x, y>> \in A
    <3>1. PICK x1, y1, b, c : <<x, y>> = <<x1, y1>> /\ <<b, c>> \in Ahead(all) /\ c \in L /\ x1 \in Items(b) /\ y1 \in Items(c)
      BY <1>5, <2>1
    <3>2. x = x1 /\ y = y1 BY <3>1
    <3> QED BY <1>2, <1>9, <3>1, <3>2 DEF InFront
  <2>2. CASE <<x, y>> \in B
    <3>1. PICK x1, y1 : <<x, y>> = <<x1, y1>> /\ x1 \in ToSet(msg) /\ \E c \in L : y1 \in Items(c) BY <1>7, <2>2
    <3>2. x = x1 /\ y = y1 BY <3>1
    <3> QED BY <1>2, <1>9, <3>1, <3>2 DEF InFront
  <2> QED BY <1>1, <1>10, <2>1, <2>2
<1>11. ASSUME NEW x, NEW y, NEW c \in ToSet(all), c.of = Line, y = <<Line, c.from>>, InFront(all, msg, x, c)
       PROVE  <<x, y>> \in Held(all, msg)
  <2>1. c \in L /\ y \in Items(c) BY <1>2, <1>9, <1>11
  <2>2. CASE x \in ToSet(msg) BY <1>1, <1>8, <2>1, <2>2
  <2>3. CASE \E b : <<b, c>> \in Ahead(all) /\ x \in Items(b) BY <1>1, <1>6, <2>1, <2>3
  <2> QED BY <1>11, <2>2, <2>3 DEF InFront
<1>12. ASSUME NEW z \in Held(all, msg) PROVE \E x, y : z = <<x, y>>
  <2>1. CASE z \in A
    <3>1. PICK x, y, b, c : z = <<x, y>> /\ <<b, c>> \in Ahead(all) BY <1>5, <2>1
    <3> QED BY <3>1
  <2>2. CASE z \in B BY <1>7, <2>2
  <2> QED BY <1>1, <2>1, <2>2
<1>13. ASSUME NEW x, NEW y, <<x, y>> \in Held(all, msg) PROVE x \in Waits(all, msg) /\ y \in Waits(all, msg)
  <2>1. PICK c \in ToSet(all) : c.of = Line /\ y = <<Line, c.from>> /\ InFront(all, msg, x, c)
    BY <1>10, <1>13
  <2>2. y \in Items(c) BY <1>2, <1>9, <2>1
  <2> QED BY <1>3, <2>1, <2>2, WaitsAre DEF InFront
<1> QED BY <1>10, <1>11, <1>12, <1>13

LEMMA WaitingIs == Waiting = Waits(all_blocks, w.msg) /\ HeldUp = Held(all_blocks, w.msg)
  BY DEF Waiting, HeldUp, Lines, Waits, Held

(* Two sets of pairs.                                                      *)
LEMMA SamePairs ==
  ASSUME NEW S, NEW T, \A z \in S : \E x, y : z = <<x, y>>, \A z \in T : \E x, y : z = <<x, y>>,
         \A x, y : <<x, y>> \in S <=> <<x, y>> \in T
  PROVE  S = T
  OBVIOUS

(* Restricting what is held up to what still waits.                        *)
LEMMA PairsAmong ==
  ASSUME NEW S, NEW H, NEW R, \A z \in S : \E x, y \in R : z = <<x, y>>, \A z \in H : \E x, y : z = <<x, y>>,
         \A x, y : <<x, y>> \in S <=> <<x, y>> \in H /\ x \in R /\ y \in R
  PROVE  S = H \cap (R \X R)
<1> DEFINE T == H \cap (R \X R)
<1>1. \A x, y : <<x, y>> \in T <=> <<x, y>> \in H /\ x \in R /\ y \in R OBVIOUS
<1>2. (\A z \in S : \E x, y : z = <<x, y>>) /\ (\A z \in T : \E x, y : z = <<x, y>>) OBVIOUS
<1>3. \A x, y : <<x, y>> \in S <=> <<x, y>> \in T BY <1>1
<1> HIDE DEF T
<1>4. S = T BY <1>2, <1>3, SamePairs
<1> QED BY <1>4 DEF T

LEMMA HeldAmong ==
  ASSUME NEW all \in Seq(Block), NEW msg, NEW t \in Seq(Block),
         \A x, y : <<x, y>> \in Held(t, <<>>) <=>
            <<x, y>> \in Held(all, msg) /\ x \in Waits(t, <<>>) /\ y \in Waits(t, <<>>)
  PROVE  Held(t, <<>>) = Held(all, msg) \cap (Waits(t, <<>>) \X Waits(t, <<>>))
<1> DEFINE S == Held(t, <<>>)
           H == Held(all, msg)
           R == Waits(t, <<>>)
<1>1. \A z \in S : \E x, y \in R : z = <<x, y>> BY HeldAre
<1>2. \A z \in H : \E x, y : z = <<x, y>>
  <2>1. \A z \in H : \E x, y \in Waits(all, msg) : z = <<x, y>> BY HeldAre
  <2> QED BY <2>1
<1>3. \A x, y : <<x, y>> \in S <=> <<x, y>> \in H /\ x \in R /\ y \in R OBVIOUS
<1> HIDE DEF S, H, R
<1>4. S = H \cap (R \X R) BY <1>1, <1>2, <1>3, PairsAmong
<1> QED BY <1>4 DEF S, H, R

(* The output of some panes is given up.                                   *)
LEMMA WaitsDiscarded ==
  ASSUME NEW n \in Nat, NEW all, BlockQueue(all, n), NEW P \in SUBSET Panes, NEW msg, \A x \in ToSet(msg) : x[1] \in P
  PROVE  /\ Waits(Discarded(all, P), <<>>) = {x \in Waits(all, msg) : x[1] \notin P}
         /\ Held(Discarded(all, P), <<>>)
               = Held(all, msg) \cap (Waits(Discarded(all, P), <<>>) \X Waits(Discarded(all, P), <<>>))
<1> DEFINE t == Discarded(all, P)
           R == Waits(t, <<>>)
<1>1. all \in Seq(Block) /\ \A b \in ToSet(all) : b \in Block /\ Good(b, n) BY BlocksTyped DEF BlockQueue
<1>2. /\ BlockQueue(t, n) /\ t \in Seq(Block)
      /\ ToSet(t) = {b \in ToSet(all) : ~BlockOf(b, P)}
      /\ \A b, c : <<b, c>> \in Ahead(t) <=> <<b, c>> \in Ahead(all) /\ ~BlockOf(b, P) /\ ~BlockOf(c, P)
  BY BlocksDiscarded DEF BlockQueue
<1>3. \A b \in ToSet(all) : BlockOf(b, P) <=> b.of \in P BY <1>1 DEF BlockOf, Good
<1>4. \A b \in ToSet(all) : \A x \in Items(b) : x[1] = b.of BY <1>1, ItemsAre
<1>5. ToSet(<<>>) = {} BY EmptyQueue
<1>6. Line \notin P BY PanesAssumption
<1>7. \A b \in ToSet(all) : b.of = Line => Items(b) = {<<Line, b.from>>} BY <1>1, ItemsAre
<1> HIDE DEF t
<1>8. \A x : x \in R <=> \E b \in ToSet(t) : x \in Items(b) BY <1>5, WaitsAre
<1>9. \A x : x \in Waits(all, msg) <=> x \in ToSet(msg) \/ \E b \in ToSet(all) : x \in Items(b) BY WaitsAre
<1> HIDE DEF R
<1>10. R = {x \in Waits(all, msg) : x[1] \notin P}
  <2>1. ASSUME NEW x \in R PROVE x \in Waits(all, msg) /\ x[1] \notin P
    <3>1. PICK b \in ToSet(t) : x \in Items(b) BY <1>8
    <3> QED BY <1>2, <1>3, <1>4, <1>9, <3>1
  <2>2. ASSUME NEW x \in Waits(all, msg), x[1] \notin P PROVE x \in R
    <3>1. PICK b \in ToSet(all) : x \in Items(b) BY <1>9, <2>2
    <3> QED BY <1>2, <1>3, <1>4, <1>8, <2>2, <3>1
  <2> QED BY <2>1, <2>2
<1>11. ASSUME NEW x, NEW y, <<x, y>> \in Held(t, <<>>)
       PROVE  <<x, y>> \in Held(all, msg) /\ x \in R /\ y \in R
  <2>1. PICK c \in ToSet(t) : c.of = Line /\ y = <<Line, c.from>> /\ InFront(t, <<>>, x, c)
    BY <1>2, <1>11, HeldAre
  <2>2. PICK b : <<b, c>> \in Ahead(t) /\ x \in Items(b) BY <1>5, <2>1 DEF InFront
  <2>3. b \in ToSet(t) BY <2>2, InAhead
  <2>4. c \in ToSet(all) /\ <<b, c>> \in Ahead(all) BY <1>2, <2>1, <2>2
  <2>5. <<x, y>> \in Held(all, msg)
    <3>1. InFront(all, msg, x, c) BY <2>2, <2>4 DEF InFront
    <3> QED BY <1>1, <2>1, <2>4, <3>1, HeldAre
  <2>6. y \in Items(c) BY <1>7, <2>1, <2>4
  <2> QED BY <1>8, <2>1, <2>2, <2>3, <2>5, <2>6
<1>12. ASSUME NEW x, NEW y, <<x, y>> \in Held(all, msg), x \in R, y \in R
       PROVE  <<x, y>> \in Held(t, <<>>)
  <2>1. PICK c \in ToSet(all) : c.of = Line /\ y = <<Line, c.from>> /\ InFront(all, msg, x, c)
    BY <1>1, <1>12, HeldAre
  <2>2. x \notin ToSet(msg) BY <1>10, <1>12
  <2>3. PICK b : <<b, c>> \in Ahead(all) /\ x \in Items(b) BY <2>1, <2>2 DEF InFront
  <2>4. b \in ToSet(all) BY <2>3, InAhead
  <2>5. x[1] = b.of /\ x[1] \notin P BY <1>4, <1>10, <1>12, <2>3, <2>4
  <2>6. ~BlockOf(b, P) /\ ~BlockOf(c, P) BY <1>3, <1>6, <2>1, <2>4, <2>5
  <2>7. c \in ToSet(t) /\ <<b, c>> \in Ahead(t) BY <1>2, <2>1, <2>3, <2>6
  <2>8. InFront(t, <<>>, x, c) BY <2>3, <2>7 DEF InFront
  <2> QED BY <1>2, <2>1, <2>7, <2>8, HeldAre
<1>13. \A x, y : <<x, y>> \in Held(t, <<>>) <=> <<x, y>> \in Held(all, msg) /\ x \in Waits(t, <<>>) /\ y \in Waits(t, <<>>)
  BY <1>11, <1>12 DEF R
<1>14. Held(t, <<>>) = Held(all, msg) \cap (Waits(t, <<>>) \X Waits(t, <<>>)) BY ONLY <1>1, <1>2, <1>13, HeldAmong
<1> QED BY <1>10, <1>14 DEF R, t

(* A line is queued behind everything.                                     *)
LEMMA WaitsLine ==
  ASSUME NEW n \in Nat, NEW all, BlockQueue(all, n)
  PROVE  /\ Waits(Append(all, LineBlock(n + 1)), <<>>) = Waits(all, <<>>) \cup {<<Line, n + 1>>}
         /\ Held(Append(all, LineBlock(n + 1)), <<>>) = Held(all, <<>>) \cup (Waits(all, <<>>) \X {<<Line, n + 1>>})
<1> DEFINE line == <<Line, n + 1>>
           l == LineBlock(n + 1)
           t == Append(all, l)
<1>1. all \in Seq(Block) /\ \A b \in ToSet(all) : b \in Block /\ Good(b, n) BY BlocksTyped DEF BlockQueue
<1>2. l \in Block /\ l.of = Line /\ l.from = n + 1 BY DEF LineBlock, Block
<1>3. /\ BlockQueue(t, n + 1) /\ ToSet(t) = ToSet(all) \cup {l}
      /\ \A b, c : <<b, c>> \in Ahead(t) <=> <<b, c>> \in Ahead(all) \/ (b \in ToSet(all) /\ c = l)
  <2>1. n \in Nat /\ BlockQueue(all, n) OBVIOUS
  <2> QED BY ONLY <2>1, LineAppended
<1>4. t \in Seq(Block) BY <1>1, <1>2
<1>5. ToSet(<<>>) = {} BY EmptyQueue
<1>6. Items(l) = {line} BY <1>2, ItemsAre
<1>11. line = <<Line, l.from>> BY <1>2
<1> HIDE DEF l, t, line
<1>7. /\ \A x : x \in Waits(all, <<>>) <=> \E b \in ToSet(all) : x \in Items(b)
      /\ \A x : x \in Waits(t, <<>>) <=> \E b \in ToSet(t) : x \in Items(b)
  BY <1>5, WaitsAre
<1>8. Waits(t, <<>>) = Waits(all, <<>>) \cup {line}
  <2>1. \A x : x \in Waits(t, <<>>) <=> x \in Waits(all, <<>>) \/ x = line BY <1>3, <1>6, <1>7
  <2> QED BY <2>1
<1>9. Held(t, <<>>) = Held(all, <<>>) \cup (Waits(all, <<>>) \X {line})
  <2> DEFINE U == Held(all, <<>>) \cup (Waits(all, <<>>) \X {line})
  <2>1. ASSUME NEW x, NEW y, <<x, y>> \in Held(t, <<>>) PROVE <<x, y>> \in U
    <3>1. PICK c \in ToSet(t) : c.of = Line /\ y = <<Line, c.from>> /\ InFront(t, <<>>, x, c)
      BY <1>4, <2>1, HeldAre
    <3>2. PICK b : <<b, c>> \in Ahead(t) /\ x \in Items(b) BY <1>5, <3>1 DEF InFront
    <3>3. CASE <<b, c>> \in Ahead(all)
      <4>1. c \in ToSet(all) BY <3>3, InAhead
      <4>2. InFront(all, <<>>, x, c) BY <3>2, <3>3 DEF InFront
      <4>3. <<x, y>> \in Held(all, <<>>) BY <1>1, <3>1, <4>1, <4>2, HeldAre
      <4> QED BY <4>3
    <3>4. CASE b \in ToSet(all) /\ c = l
      <4>1. x \in Waits(all, <<>>) /\ y = line BY <1>11, <1>7, <3>1, <3>2, <3>4
      <4> QED BY <4>1
    <3> QED BY <1>3, <3>2, <3>3, <3>4
  <2>2. ASSUME NEW x, NEW y, <<x, y>> \in U PROVE <<x, y>> \in Held(t, <<>>)
    <3>1. CASE <<x, y>> \in Held(all, <<>>)
      <4>1. PICK c \in ToSet(all) : c.of = Line /\ y = <<Line, c.from>> /\ InFront(all, <<>>, x, c)
        BY <1>1, <3>1, HeldAre
      <4>2. c \in ToSet(t) /\ InFront(t, <<>>, x, c) BY <1>3, <1>5, <4>1 DEF InFront
      <4> QED BY <1>4, <4>1, <4>2, HeldAre
    <3>2. CASE <<x, y>> \in Waits(all, <<>>) \X {line}
      <4>1. x \in Waits(all, <<>>) /\ y = line BY <3>2
      <4>2. PICK b \in ToSet(all) : x \in Items(b) BY <1>7, <4>1
      <4>3. l \in ToSet(t) /\ InFront(t, <<>>, x, l) BY <1>3, <4>2 DEF InFront
      <4>4. y = <<Line, l.from>> BY <1>11, <4>1
      <4> QED BY <1>2, <1>4, <4>3, <4>4, HeldAre
    <3> QED BY <2>2, <3>1, <3>2
  <2>3. \A z \in Held(t, <<>>) : \E x, y : z = <<x, y>>
    <3>1. \A z \in Held(t, <<>>) : \E x, y \in Waits(t, <<>>) : z = <<x, y>> BY <1>4, HeldAre
    <3> QED BY <3>1
  <2>4. \A z \in U : \E x, y : z = <<x, y>>
    <3>1. \A z \in Held(all, <<>>) : \E x, y \in Waits(all, <<>>) : z = <<x, y>> BY <1>1, HeldAre
    <3> QED BY <3>1
  <2> HIDE DEF U
  <2>5. Held(t, <<>>) = U BY <2>1, <2>2, <2>3, <2>4, SamePairs
  <2> QED BY <2>5 DEF U
<1> QED BY <1>8, <1>9 DEF l, t, line

(* Something waits in every block.                                         *)
LEMMA WaitsEmpty ==
  ASSUME NEW n \in Nat, NEW all, BlockQueue(all, n)
  PROVE  Waits(all, <<>>) = {} <=> all = <<>>
<1>1. all \in Seq(Block) /\ \A b \in ToSet(all) : b \in Block /\ Good(b, n) BY BlocksTyped DEF BlockQueue
<1>2. ToSet(<<>>) = {} BY EmptyQueue
<1>3. \A x : x \in Waits(all, <<>>) <=> \E b \in ToSet(all) : x \in Items(b) BY <1>2, WaitsAre
<1>4. Waits(all, <<>>) = {} <=> all = <<>>
  <2>1. CASE all = <<>> BY <1>2, <1>3, <2>1
  <2>2. CASE all # <<>>
    <3>1. Head(all) \in ToSet(all) /\ Head(all) \in Block /\ Good(Head(all), n) BY <1>1, <2>2, BlocksTaken
    <3>2. Items(Head(all)) # {}
      <4>1. CASE Head(all).of = Line BY <3>1, <4>1, ItemsAre
      <4>2. CASE Head(all).of # Line BY <3>1, <4>2, ItemsAre DEF Good
      <4> QED BY <4>1, <4>2
    <3> QED BY <1>3, <2>2, <3>1, <3>2
  <2> QED BY <2>1, <2>2
<1> QED BY <1>4

(* A block of a pane is queued.                                            *)
LEMMA WaitsBlock ==
  ASSUME NEW all \in Seq(Block), NEW msg, NEW x \in Block, x.of # Line
  PROVE  /\ Waits(Append(all, x), msg) = Waits(all, msg) \cup Items(x)
         /\ Held(Append(all, x), msg) = Held(all, msg)
<1> DEFINE t == Append(all, x)
<1>1. t \in Seq(Block) OBVIOUS
<1>2. ToSet(t) = ToSet(all) \cup {x} BY AppendSet
<1>3. \A b, c : <<b, c>> \in Ahead(t) <=> <<b, c>> \in Ahead(all) \/ (b \in ToSet(all) /\ c = x) BY AheadAppend
<1> HIDE DEF t
<1>4. Waits(t, msg) = Waits(all, msg) \cup Items(x)
  <2>1. \A z : z \in Waits(t, msg) <=> z \in Waits(all, msg) \/ z \in Items(x) BY <1>2, WaitsAre
  <2> QED BY <2>1
<1>5. Held(t, msg) = Held(all, msg)
  <2>1. ASSUME NEW y, NEW z PROVE <<y, z>> \in Held(t, msg) <=> <<y, z>> \in Held(all, msg)
    <3>1. <<y, z>> \in Held(t, msg) <=>
              \E c \in ToSet(t) : c.of = Line /\ z = <<Line, c.from>> /\ InFront(t, msg, y, c)
      BY <1>1, HeldAre
    <3>2. <<y, z>> \in Held(all, msg) <=>
              \E c \in ToSet(all) : c.of = Line /\ z = <<Line, c.from>> /\ InFront(all, msg, y, c)
      BY HeldAre
    <3>3. \A c : c.of = Line => (c \in ToSet(t) <=> c \in ToSet(all)) /\ \A b : <<b, c>> \in Ahead(t) <=> <<b, c>> \in Ahead(all)
      BY <1>2, <1>3
    <3>4. \A c : c.of = Line => (InFront(t, msg, y, c) <=> InFront(all, msg, y, c)) BY <3>3 DEF InFront
    <3>5. \A c : c.of = Line => (c \in ToSet(t) <=> c \in ToSet(all)) BY <3>3
    <3> QED BY <3>1, <3>2, <3>4, <3>5
  <2>2. \A z \in Held(t, msg) : \E e, f : z = <<e, f>>
    <3>1. \A z \in Held(t, msg) : \E e, f \in Waits(t, msg) : z = <<e, f>> BY <1>1, HeldAre
    <3> QED BY <3>1
  <2>3. \A z \in Held(all, msg) : \E e, f : z = <<e, f>>
    <3>1. \A z \in Held(all, msg) : \E e, f \in Waits(all, msg) : z = <<e, f>> BY HeldAre
    <3> QED BY <3>1
  <2> QED BY <2>1, <2>2, <2>3, SamePairs
<1> QED BY <1>4, <1>5 DEF t

(* The line in front of the queue is sent.                                 *)
LEMMA WaitsTaken ==
  ASSUME NEW n \in Nat, NEW all, BlockQueue(all, n), all # <<>>, Head(all).of = Line, NEW line, line = <<Line, Head(all).from>>
  PROVE  /\ line \in Waits(all, <<>>) /\ Head(all).from \in Int
         /\ Waits(Tail(all), <<>>) = Waits(all, <<>>) \ {line}
         /\ Held(Tail(all), <<>>) = Held(all, <<>>) \cap (Waits(Tail(all), <<>>) \X Waits(Tail(all), <<>>))
         /\ \A x \in Waits(all, <<>>) : <<x, line>> \notin Held(all, <<>>) /\ ~(x[1] = Line /\ x[2] < Head(all).from)
<1> DEFINE h == Head(all)
           t == Tail(all)
           R == Waits(t, <<>>)
<1>1. all \in Seq(Block) /\ Ordered(all) /\ \A b \in ToSet(all) : b \in Block /\ b.from \in Int BY BlocksTyped DEF BlockQueue, Block
<1>2. /\ BlockQueue(t, n) /\ t \in Seq(Block) /\ h \in Block /\ h \in ToSet(all)
      /\ ToSet(t) = ToSet(all) \ {h}
      /\ \A b, c : <<b, c>> \in Ahead(all) <=> <<b, c>> \in Ahead(t) \/ (b = h /\ c \in ToSet(t))
  BY BlocksTaken DEF BlockQueue
<1>3. h.of = Line /\ line = <<Line, h.from>> /\ h.from \in Int BY <1>2 DEF Block
<1> HIDE DEF h, t
<1>4. \A c \in ToSet(t) : c.of = Line => h.from < c.from
  <2> TAKE c \in ToSet(t)
  <2> HAVE c.of = Line
  <2>1. <<h, c>> \in Ahead(all) BY <1>2
  <2> QED BY <1>1, <1>3, <2>1 DEF Ordered, Later
<1>5. \A b \in ToSet(all) : b.of = Line => Items(b) = {<<Line, b.from>>} BY <1>1, ItemsAre
<1>6. \A b \in ToSet(all) : \A x \in Items(b) : x[1] = b.of BY <1>1, ItemsAre
<1>7. ToSet(<<>>) = {} BY EmptyQueue
<1>8. /\ \A x : x \in R <=> \E b \in ToSet(t) : x \in Items(b)
      /\ \A x : x \in Waits(all, <<>>) <=> \E b \in ToSet(all) : x \in Items(b)
  BY <1>7, WaitsAre
<1> HIDE DEF R
<1>9. \A x : x \in Items(h) <=> x = line BY <1>2, <1>3, <1>5
<1>10. line \notin R
  <2> SUFFICES ASSUME line \in R PROVE FALSE OBVIOUS
  <2>1. PICK b \in ToSet(t) : line \in Items(b) BY <1>8
  <2>2. b \in ToSet(all) /\ line[1] = Line /\ line[2] = h.from BY <1>2, <1>3
  <2>3. b.of = Line BY <1>6, <2>1, <2>2
  <2>4. line = <<Line, b.from>> BY <1>5, <2>1, <2>2, <2>3
  <2>5. h.from = b.from BY <2>2, <2>4
  <2> QED BY <1>1, <1>3, <1>4, <2>2, <2>3, <2>5
<1>11. \A x : x \in Waits(all, <<>>) <=> x \in R \/ x = line BY <1>2, <1>8, <1>9
<1>12. R = Waits(all, <<>>) \ {line} BY <1>10, <1>11
<1>13. ASSUME NEW x, NEW y, <<x, y>> \in Held(t, <<>>)
       PROVE  <<x, y>> \in Held(all, <<>>) /\ x \in R /\ y \in R
  <2>1. PICK c \in ToSet(t) : c.of = Line /\ y = <<Line, c.from>> /\ InFront(t, <<>>, x, c) BY <1>2, <1>13, HeldAre
  <2>2. PICK b : <<b, c>> \in Ahead(t) /\ x \in Items(b) BY <1>7, <2>1 DEF InFront
  <2>3. b \in ToSet(t) BY <2>2, InAhead
  <2>4. c \in ToSet(all) /\ InFront(all, <<>>, x, c) BY <1>2, <2>1, <2>2 DEF InFront
  <2>5. <<x, y>> \in Held(all, <<>>) BY <1>1, <2>1, <2>4, HeldAre
  <2>6. y \in Items(c) BY <1>5, <2>1, <2>4
  <2> QED BY <1>8, <2>2, <2>3, <2>5, <2>6
<1>14. ASSUME NEW x, NEW y, <<x, y>> \in Held(all, <<>>), x \in R, y \in R
       PROVE  <<x, y>> \in Held(t, <<>>)
  <2>1. PICK c \in ToSet(all) : c.of = Line /\ y = <<Line, c.from>> /\ InFront(all, <<>>, x, c) BY <1>1, <1>14, HeldAre
  <2>2. PICK b : <<b, c>> \in Ahead(all) /\ x \in Items(b) BY <1>7, <2>1 DEF InFront
  <2>3. c # h BY <1>3, <1>10, <1>14, <2>1
  <2>4. b # h BY <1>9, <1>10, <1>14, <2>2
  <2>5. c \in ToSet(t) /\ InFront(t, <<>>, x, c) BY <1>2, <2>1, <2>2, <2>3, <2>4 DEF InFront
  <2> QED BY <1>2, <2>1, <2>5, HeldAre
<1>15. Held(t, <<>>) = Held(all, <<>>) \cap (Waits(t, <<>>) \X Waits(t, <<>>))
  <2>1. \A x, y : <<x, y>> \in Held(t, <<>>) <=> <<x, y>> \in Held(all, <<>>) /\ x \in Waits(t, <<>>) /\ y \in Waits(t, <<>>)
    BY <1>13, <1>14 DEF R
  <2> QED BY ONLY <1>1, <1>2, <2>1, HeldAmong
<1>16. ASSUME NEW x \in Waits(all, <<>>) PROVE <<x, line>> \notin Held(all, <<>>)
  <2> SUFFICES ASSUME <<x, line>> \in Held(all, <<>>) PROVE FALSE OBVIOUS
  <2>1. PICK c \in ToSet(all) : c.of = Line /\ line = <<Line, c.from>> /\ InFront(all, <<>>, x, c) BY <1>1, HeldAre
  <2>2. PICK b : <<b, c>> \in Ahead(all) BY <1>7, <2>1 DEF InFront
  <2>3. c \in ToSet(t) BY <1>2, <2>2, InAhead
  <2>4. c.from = h.from BY <1>3, <2>1
  <2> QED BY <1>1, <1>3, <1>4, <2>1, <2>3, <2>4
<1>17. ASSUME NEW x \in Waits(all, <<>>), x[1] = Line PROVE ~(x[2] < h.from)
  <2>1. PICK b \in ToSet(all) : x \in Items(b) BY <1>8
  <2>2. x = <<Line, b.from>> BY <1>5, <1>6, <1>17, <2>1
  <2>3. b = h \/ h.from < b.from BY <1>2, <1>4, <1>6, <1>17, <2>1
  <2>4. x[2] = b.from /\ b.from \in Int BY <1>1, <2>2
  <2> QED BY <1>3, <2>3, <2>4
<1> QED BY <1>3, <1>11, <1>12, <1>15, <1>16, <1>17 DEF h, t, R

(* The message is sent.                                                    *)
Consecutive(msg, p, o) == \A k \in 1 .. Len(msg) : msg[k] = <<p, o - Len(msg) + k>>

LEMMA MessageIs ==
  ASSUME NEW msg \in Seq(Panes \X Int), NEW p \in Panes, NEW o \in Int, Consecutive(msg, p, o)
  PROVE  /\ IsInjective(msg)
         /\ \A z : z \in ToSet(msg) <=> \E k \in 1 .. Len(msg) : z = <<p, o - Len(msg) + k>>
         /\ \A z \in ToSet(msg) : z = <<z[1], z[2]>> /\ z[1] = p /\ z[2] \in Int /\ z[2] <= o
         /\ \A i \in DOMAIN msg, z \in ToSet(msg) : z[2] < msg[i][2] => \E j \in DOMAIN msg : j < i /\ msg[j] = z
<1> DEFINE L == Len(msg)
<1>1. L \in Nat /\ DOMAIN msg = 1 .. L /\ \A k \in 1 .. L : msg[k] = <<p, o - L + k>> BY DEF Consecutive
<1> HIDE DEF L
<1>2. \A z : z \in ToSet(msg) <=> \E k \in 1 .. L : z = <<p, o - L + k>>
  <2>1. ToSet(msg) = {msg[k] : k \in DOMAIN msg} BY DEF ToSet
  <2> QED BY <1>1, <2>1
<1>3. \A i, j \in 1 .. L : msg[i] = msg[j] => i = j
  <2> TAKE i, j \in 1 .. L
  <2> HAVE msg[i] = msg[j]
  <2>1. o - L + i = o - L + j BY <1>1
  <2> QED BY <1>1, <2>1
<1>4. IsInjective(msg) BY <1>1, <1>3 DEF IsInjective
<1>5. ASSUME NEW z \in ToSet(msg) PROVE z = <<z[1], z[2]>> /\ z[1] = p /\ z[2] \in Int /\ z[2] <= o
  <2>1. PICK k \in 1 .. L : z = <<p, o - L + k>> BY <1>2
  <2>2. o - L + k \in Int /\ o - L + k <= o BY <1>1
  <2> QED BY <2>1, <2>2
<1>6. ASSUME NEW i \in DOMAIN msg, NEW z \in ToSet(msg), z[2] < msg[i][2] PROVE \E j \in DOMAIN msg : j < i /\ msg[j] = z
  <2>1. PICK k \in 1 .. L : z = <<p, o - L + k>> BY <1>2
  <2>2. z[2] = o - L + k /\ msg[i][2] = o - L + i /\ i \in 1 .. L BY <1>1, <2>1
  <2>3. k < i BY <1>1, <1>6, <2>2
  <2> QED BY <1>1, <2>1, <2>3
<1> QED BY <1>2, <1>4, <1>5, <1>6 DEF L

LEMMA WaitsSent ==
  ASSUME NEW n \in Nat, NEW all, BlockQueue(all, n), NEW msg \in Seq(Panes \X Int), NEW p \in Panes, NEW o \in Int,
         Consecutive(msg, p, o), \A b \in ToSet(all) : b.of = p => o < b.from
  PROVE  /\ ToSet(msg) \subseteq Waits(all, msg)
         /\ Waits(all, <<>>) = Waits(all, msg) \ ToSet(msg)
         /\ Held(all, <<>>) = Held(all, msg) \cap (Waits(all, <<>>) \X Waits(all, <<>>))
         /\ \A i \in DOMAIN msg, x \in Waits(all, msg) :
               <<x, msg[i]>> \in Held(all, msg) \/ (x[1] = msg[i][1] /\ x[2] < msg[i][2])
                  => \E j \in DOMAIN msg : j < i /\ msg[j] = x
<1> DEFINE R == Waits(all, <<>>)
<1>1. all \in Seq(Block) /\ \A b \in ToSet(all) : b \in Block /\ b.from \in Int BY BlocksTyped DEF BlockQueue, Block
<1>2. /\ \A z \in ToSet(msg) : z[1] = p /\ z[2] \in Int /\ z[2] <= o
      /\ \A i \in DOMAIN msg, z \in ToSet(msg) : z[2] < msg[i][2] => \E j \in DOMAIN msg : j < i /\ msg[j] = z
  BY MessageIs
<1>3. ToSet(<<>>) = {} BY EmptyQueue
<1>4. /\ \A x : x \in R <=> \E b \in ToSet(all) : x \in Items(b)
      /\ \A x : x \in Waits(all, msg) <=> x \in ToSet(msg) \/ \E b \in ToSet(all) : x \in Items(b)
  BY <1>3, WaitsAre
<1> HIDE DEF R
<1>5. p # Line BY PanesAssumption
<1>6. ASSUME NEW x \in R, x[1] = p PROVE o < x[2] /\ x[2] \in Int
  <2>1. PICK b \in ToSet(all) : x \in Items(b) BY <1>4
  <2>2. b.of = p /\ b \in Block /\ o < b.from BY <1>1, <1>6, <2>1, ItemsAre
  <2>3. PICK k \in Int : b.from <= k /\ x = <<b.of, k>> BY <1>5, <2>1, <2>2, ItemsAre
  <2>4. x[2] = k BY <2>3
  <2> QED BY <1>1, <2>2, <2>3, <2>4
<1>7. \A x \in R : x \notin ToSet(msg)
  <2> SUFFICES ASSUME NEW x \in R, x \in ToSet(msg) PROVE FALSE OBVIOUS
  <2>1. x[1] = p /\ x[2] \in Int /\ x[2] <= o BY <1>2
  <2>2. o < x[2] BY <1>6, <2>1
  <2> QED BY <2>1, <2>2
<1>8. R = Waits(all, msg) \ ToSet(msg) BY <1>4, <1>7
<1>9. ASSUME NEW x, NEW y, <<x, y>> \in Held(all, <<>>) PROVE <<x, y>> \in Held(all, msg) /\ x \in R /\ y \in R
  <2>1. PICK c \in ToSet(all) : c.of = Line /\ y = <<Line, c.from>> /\ InFront(all, <<>>, x, c) BY <1>1, <1>9, HeldAre
  <2>2. InFront(all, msg, x, c) BY <1>3, <2>1 DEF InFront
  <2>3. <<x, y>> \in Held(all, msg) BY <1>1, <2>1, <2>2, HeldAre
  <2>4. \A z \in Held(all, <<>>) : \E d, e \in R : z = <<d, e>> BY <1>1, HeldAre DEF R
  <2>5. x \in R /\ y \in R
    <3>1. PICK d, e \in R : <<x, y>> = <<d, e>> BY <1>9, <2>4
    <3> QED BY <3>1
  <2> QED BY <2>3, <2>5
<1>10. ASSUME NEW x, NEW y, <<x, y>> \in Held(all, msg), x \in R, y \in R PROVE <<x, y>> \in Held(all, <<>>)
  <2>1. PICK c \in ToSet(all) : c.of = Line /\ y = <<Line, c.from>> /\ InFront(all, msg, x, c) BY <1>1, <1>10, HeldAre
  <2>2. InFront(all, <<>>, x, c) BY <1>7, <1>10, <2>1 DEF InFront
  <2> QED BY <1>1, <2>1, <2>2, HeldAre
<1>11. Held(all, <<>>) = Held(all, msg) \cap (R \X R)
  <2> DEFINE S == Held(all, <<>>)
             H == Held(all, msg)
  <2>1. \A z \in S : \E x, y \in R : z = <<x, y>> BY <1>1, HeldAre DEF R
  <2>2. \A z \in H : \E x, y : z = <<x, y>>
    <3>1. \A z \in H : \E x, y \in Waits(all, msg) : z = <<x, y>> BY <1>1, HeldAre
    <3> QED BY <3>1
  <2>3. \A x, y : <<x, y>> \in S <=> <<x, y>> \in H /\ x \in R /\ y \in R BY <1>9, <1>10
  <2> HIDE DEF S, H
  <2>4. S = H \cap (R \X R) BY <2>1, <2>2, <2>3, PairsAmong
  <2> QED BY <2>4 DEF S, H
<1>12. ASSUME NEW i \in DOMAIN msg, NEW x \in Waits(all, msg),
              <<x, msg[i]>> \in Held(all, msg) \/ (x[1] = msg[i][1] /\ x[2] < msg[i][2])
       PROVE  \E j \in DOMAIN msg : j < i /\ msg[j] = x
  <2>1. msg[i] \in ToSet(msg) BY DEF ToSet
  <2>2. msg[i][1] = p /\ msg[i][2] \in Int /\ msg[i][2] <= o BY <1>2, <2>1
  <2>3. <<x, msg[i]>> \notin Held(all, msg)
    <3> SUFFICES ASSUME <<x, msg[i]>> \in Held(all, msg) PROVE FALSE OBVIOUS
    <3>1. PICK c \in ToSet(all) : msg[i] = <<Line, c.from>> BY <1>1, HeldAre
    <3>2. msg[i][1] = Line BY <3>1
    <3> QED BY <1>5, <2>2, <3>2
  <2>4. x[1] = p /\ x[2] < msg[i][2] BY <1>12, <2>2, <2>3
  <2>5. x \in ToSet(msg)
    <3> SUFFICES ASSUME x \notin ToSet(msg) PROVE FALSE OBVIOUS
    <3>1. x \in R BY <1>8
    <3>2. o < x[2] /\ x[2] \in Int BY <1>6, <2>4, <3>1
    <3> QED BY <2>2, <2>4, <3>2
  <2> QED BY <1>2, <2>4, <2>5
<1> QED BY <1>4, <1>8, <1>11, <1>12 DEF R

(* The bytes M of the block y, which are of p, move to the message; D is   *)
(* what is left of y.                                                      *)
Moved(t, all, msg, to, y, D, M, p) ==
    /\ y \in ToSet(all) /\ y.of # Line /\ \A z \in M : z[1] = p
    /\ ToSet(t) = (ToSet(all) \ {y}) \cup D
    /\ ToSet(to) = ToSet(msg) \cup M
    /\ \A z : z \in Items(y) <=> z \in M \/ \E b \in D : z \in Items(b)
    /\ \A b \in D : b.of # Line
    /\ \A b, c : <<b, c>> \in Ahead(t) /\ c.of = Line
          => \E d : <<d, c>> \in Ahead(all) /\ \A z : z \in Items(b) => z \in Items(d)
    /\ \A d, c : <<d, c>> \in Ahead(all) /\ c.of = Line /\ d # y => <<d, c>> \in Ahead(t)
    /\ \A c : <<y, c>> \in Ahead(all) /\ c.of = Line => \A b \in D : <<b, c>> \in Ahead(t)

LEMMA WaitsMoved ==
  ASSUME NEW all \in Seq(Block), NEW t \in Seq(Block), NEW msg, NEW to, NEW y, NEW D, NEW M, NEW p,
         Moved(t, all, msg, to, y, D, M, p)
  PROVE  /\ Waits(t, to) = Waits(all, msg)
         /\ Held(all, msg) \subseteq Held(t, to)
         /\ Held(t, to) \ Held(all, msg) \subseteq {x \in Waits(all, msg) : x[1] = p} \X {x \in Waits(all, msg) : x[1] = Line}
<1>1. /\ y \in ToSet(all) /\ y.of # Line /\ \A z \in M : z[1] = p
      /\ ToSet(t) = (ToSet(all) \ {y}) \cup D
      /\ ToSet(to) = ToSet(msg) \cup M
      /\ \A z : z \in Items(y) <=> z \in M \/ \E b \in D : z \in Items(b)
      /\ \A b \in D : b.of # Line
  BY DEF Moved
<1>2. \A c : c.of = Line => (c \in ToSet(t) <=> c \in ToSet(all)) BY <1>1
<1>3. /\ \A x : x \in Waits(t, to) <=> x \in ToSet(to) \/ \E b \in ToSet(t) : x \in Items(b)
      /\ \A x : x \in Waits(all, msg) <=> x \in ToSet(msg) \/ \E b \in ToSet(all) : x \in Items(b)
  BY WaitsAre
<1>4. \A x : x \in Waits(t, to) <=> x \in Waits(all, msg)
  <2>1. ASSUME NEW x \in Waits(t, to) PROVE x \in Waits(all, msg) BY <1>1, <1>3
  <2>2. ASSUME NEW x \in Waits(all, msg) PROVE x \in Waits(t, to) BY <1>1, <1>3
  <2> QED BY <2>1, <2>2
<1>5. ASSUME NEW x, NEW v, <<x, v>> \in Held(all, msg) PROVE <<x, v>> \in Held(t, to)
  <2>1. PICK c \in ToSet(all) : c.of = Line /\ v = <<Line, c.from>> /\ InFront(all, msg, x, c) BY <1>5, HeldAre
  <2>2. InFront(t, to, x, c)
    <3>1. CASE x \in ToSet(msg) BY <1>1, <3>1 DEF InFront
    <3>2. CASE \E b : <<b, c>> \in Ahead(all) /\ x \in Items(b)
      <4>1. PICK b : <<b, c>> \in Ahead(all) /\ x \in Items(b) BY <3>2
      <4>2. CASE b # y
        <5>1. <<b, c>> \in Ahead(t) BY <2>1, <4>1, <4>2 DEF Moved
        <5> QED BY <4>1, <5>1 DEF InFront
      <4>3. CASE b = y
        <5>1. CASE x \in M BY <1>1, <5>1 DEF InFront
        <5>2. CASE x \notin M
          <6>1. PICK d \in D : x \in Items(d) BY <1>1, <4>1, <4>3, <5>2
          <6>2. <<d, c>> \in Ahead(t) BY <2>1, <4>1, <4>3 DEF Moved
          <6> QED BY <6>1, <6>2 DEF InFront
        <5> QED BY <5>1, <5>2
      <4> QED BY <4>2, <4>3
    <3> QED BY <2>1, <3>1, <3>2 DEF InFront
  <2>3. c \in ToSet(t) BY <1>2, <2>1
  <2> QED BY <2>1, <2>2, <2>3, HeldAre
<1>6. ASSUME NEW x, NEW v, <<x, v>> \in Held(t, to), <<x, v>> \notin Held(all, msg)
      PROVE  x \in Waits(all, msg) /\ x[1] = p /\ v \in Waits(all, msg) /\ v[1] = Line
  <2>1. PICK c \in ToSet(t) : c.of = Line /\ v = <<Line, c.from>> /\ InFront(t, to, x, c) BY <1>6, HeldAre
  <2>2. c \in ToSet(all) BY <1>2, <2>1
  <2>3. ~InFront(all, msg, x, c) BY <1>6, <2>1, <2>2, HeldAre
  <2>4. x \in M
    <3>1. CASE x \in ToSet(to) BY <1>1, <2>3, <3>1 DEF InFront
    <3>2. CASE \E b : <<b, c>> \in Ahead(t) /\ x \in Items(b)
      <4>1. PICK b : <<b, c>> \in Ahead(t) /\ x \in Items(b) BY <3>2
      <4>2. \E d : <<d, c>> \in Ahead(all) /\ \A z : z \in Items(b) => z \in Items(d) BY <2>1, <4>1 DEF Moved
      <4> QED BY <2>3, <4>1, <4>2 DEF InFront
    <3> QED BY <2>1, <3>1, <3>2 DEF InFront
  <2>5. \A z \in Held(t, to) : \E d, e \in Waits(t, to) : z = <<d, e>> BY HeldAre
  <2>6. x \in Waits(t, to) /\ v \in Waits(t, to)
    <3>1. PICK d, e \in Waits(t, to) : <<x, v>> = <<d, e>> BY <1>6, <2>5
    <3> QED BY <3>1
  <2>7. v[1] = Line BY <2>1
  <2> QED BY <1>1, <1>4, <2>4, <2>6, <2>7
<1>7. \A z \in Held(all, msg) \cup Held(t, to) : \E d, e : z = <<d, e>>
  <2>1. \A z \in Held(t, to) : \E d, e \in Waits(t, to) : z = <<d, e>> BY HeldAre
  <2>2. \A z \in Held(all, msg) : \E d, e \in Waits(all, msg) : z = <<d, e>> BY HeldAre
  <2> QED BY <2>1, <2>2
<1>8. Waits(t, to) = Waits(all, msg) BY <1>4
<1>9. Held(all, msg) \subseteq Held(t, to) BY <1>5, <1>7
<1>10. ASSUME NEW z \in Held(t, to), z \notin Held(all, msg)
       PROVE  z \in {x \in Waits(all, msg) : x[1] = p} \X {x \in Waits(all, msg) : x[1] = Line}
  <2>1. PICK d, e : z = <<d, e>> BY <1>7
  <2>2. d \in {x \in Waits(all, msg) : x[1] = p} /\ e \in {x \in Waits(all, msg) : x[1] = Line} BY <1>6, <1>10, <2>1
  <2> QED BY <2>1, <2>2
<1> QED BY <1>8, <1>9, <1>10

(* The blocks change, but not what they hold.                              *)
LEMMA WaitsKept ==
  ASSUME NEW all \in Seq(Block), NEW t \in Seq(Block), NEW msg, DOMAIN t = DOMAIN all,
         \A i \in DOMAIN all : t[i].of = all[i].of /\ t[i].from = all[i].from /\ t[i].size = all[i].size
  PROVE  Waits(t, msg) = Waits(all, msg) /\ Held(t, msg) = Held(all, msg)
<1>1. \A i \in DOMAIN all : Items(t[i]) = Items(all[i]) BY DEF Items, Bytes
<1>2. \A b : b \in ToSet(all) <=> \E i \in DOMAIN all : b = all[i] BY DEF ToSet
<1>3. \A b : b \in ToSet(t) <=> \E i \in DOMAIN all : b = t[i] BY DEF ToSet
<1>4. /\ \A x : x \in Waits(t, msg) <=> x \in ToSet(msg) \/ \E b \in ToSet(t) : x \in Items(b)
      /\ \A x : x \in Waits(all, msg) <=> x \in ToSet(msg) \/ \E b \in ToSet(all) : x \in Items(b)
  BY WaitsAre
<1>5. Waits(t, msg) = Waits(all, msg)
  <2>1. ASSUME NEW x PROVE x \in Waits(t, msg) => x \in Waits(all, msg) BY <1>1, <1>2, <1>3, <1>4
  <2>2. ASSUME NEW x PROVE x \in Waits(all, msg) => x \in Waits(t, msg) BY <1>1, <1>2, <1>3, <1>4
  <2> QED BY <2>1, <2>2
<1>6. /\ \A b, c : <<b, c>> \in Ahead(all) <=> \E i, j \in DOMAIN all : i < j /\ b = all[i] /\ c = all[j]
      /\ \A b, c : <<b, c>> \in Ahead(t) <=> \E i, j \in DOMAIN all : i < j /\ b = t[i] /\ c = t[j]
  BY AheadIs
<1>7. ASSUME NEW j \in DOMAIN all, NEW x
      PROVE  /\ (\E i \in DOMAIN all : i < j /\ x \in Items(all[i])) => InFront(all, msg, x, all[j])
             /\ (\E i \in DOMAIN all : i < j /\ x \in Items(t[i])) => InFront(t, msg, x, t[j])
  BY <1>6 DEF InFront
<1>8. ASSUME NEW x, NEW y, <<x, y>> \in Held(all, msg) PROVE <<x, y>> \in Held(t, msg)
  <2>1. PICK c \in ToSet(all) : c.of = Line /\ y = <<Line, c.from>> /\ InFront(all, msg, x, c) BY <1>8, HeldAre
  <2>2. CASE x \in ToSet(msg)
    <3>1. PICK j \in DOMAIN all : c = all[j] BY <1>2
    <3>2. t[j] \in ToSet(t) /\ t[j].of = Line /\ y = <<Line, t[j].from>> BY <1>3, <2>1, <3>1
    <3>3. InFront(t, msg, x, t[j]) BY <2>2 DEF InFront
    <3> QED BY <3>2, <3>3, HeldAre
  <2>3. CASE x \notin ToSet(msg)
    <3>1. PICK b : <<b, c>> \in Ahead(all) /\ x \in Items(b) BY <2>1, <2>3 DEF InFront
    <3>2. PICK i, j \in DOMAIN all : i < j /\ b = all[i] /\ c = all[j] BY <1>6, <3>1
    <3>3. t[j] \in ToSet(t) /\ t[j].of = Line /\ y = <<Line, t[j].from>> BY <1>3, <2>1, <3>2
    <3>4. InFront(t, msg, x, t[j]) BY <1>1, <1>7, <3>1, <3>2
    <3> QED BY <3>3, <3>4, HeldAre
  <2> QED BY <2>2, <2>3
<1>9. ASSUME NEW x, NEW y, <<x, y>> \in Held(t, msg) PROVE <<x, y>> \in Held(all, msg)
  <2>1. PICK c \in ToSet(t) : c.of = Line /\ y = <<Line, c.from>> /\ InFront(t, msg, x, c) BY <1>9, HeldAre
  <2>2. CASE x \in ToSet(msg)
    <3>1. PICK j \in DOMAIN all : c = t[j] BY <1>3
    <3>2. all[j] \in ToSet(all) /\ all[j].of = Line /\ y = <<Line, all[j].from>> BY <1>2, <2>1, <3>1
    <3>3. InFront(all, msg, x, all[j]) BY <2>2 DEF InFront
    <3> QED BY <3>2, <3>3, HeldAre
  <2>3. CASE x \notin ToSet(msg)
    <3>1. PICK b : <<b, c>> \in Ahead(t) /\ x \in Items(b) BY <2>1, <2>3 DEF InFront
    <3>2. PICK i, j \in DOMAIN all : i < j /\ b = t[i] /\ c = t[j] BY <1>6, <3>1
    <3>3. all[j] \in ToSet(all) /\ all[j].of = Line /\ y = <<Line, all[j].from>> BY <1>2, <2>1, <3>2
    <3>4. InFront(all, msg, x, all[j]) BY <1>1, <1>7, <3>1, <3>2
    <3> QED BY <3>3, <3>4, HeldAre
  <2> QED BY <2>2, <2>3
<1>10. (\A z \in Held(all, msg) : \E d, e : z = <<d, e>>) /\ (\A z \in Held(t, msg) : \E d, e : z = <<d, e>>)
  <2>1. \A z \in Held(t, msg) : \E d, e \in Waits(t, msg) : z = <<d, e>> BY HeldAre
  <2>2. \A z \in Held(all, msg) : \E d, e \in Waits(all, msg) : z = <<d, e>> BY HeldAre
  <2> QED BY <2>1, <2>2
<1>11. \A x, y : <<x, y>> \in Held(t, msg) <=> <<x, y>> \in Held(all, msg) BY <1>8, <1>9
<1> QED BY <1>5, <1>10, <1>11, SamePairs

-----------------------------------------------------------------------------
(* Steps of the promise.                                                   *)
LEMMA WaitingNext == Waiting' = Waits(all_blocks', w'.msg) /\ HeldUp' = Held(all_blocks', w'.msg)
  BY DEF Waiting, HeldUp, Lines, Waits, Held

LEMMA HeldWithin ==
  ASSUME NEW all \in Seq(Block), NEW msg
  PROVE  Held(all, msg) = Held(all, msg) \cap (Waits(all, msg) \X Waits(all, msg))
<1>1. \A z \in Held(all, msg) : \E x, y \in Waits(all, msg) : z = <<x, y>> BY HeldAre
<1> DEFINE H == Held(all, msg)
           R == Waits(all, msg)
<1>2. \A z \in H : \E x, y \in R : z = <<x, y>> BY <1>1
<1> HIDE DEF H, R
<1>3. H = H \cap (R \X R) BY <1>2
<1> QED BY <1>3 DEF H, R

LEMMA WaitsNone == Waits(<<>>, <<>>) = {} /\ Held(<<>>, <<>>) = {}
<1>1. ToSet(<<>>) = {} BY EmptyQueue
<1>2. Waits(<<>>, <<>>) = {} BY <1>1, WaitsAre
<1>3. <<>> \in Seq(Block) OBVIOUS
<1>4. Held(<<>>, <<>>) = Held(<<>>, <<>>) \cap (Waits(<<>>, <<>>) \X Waits(<<>>, <<>>)) BY <1>3, HeldWithin
<1> QED BY <1>2, <1>4

LEMMA AsGiveUp ==
  ASSUME NEW P \in SUBSET Panes, Waiting' = {x \in Waiting : x[1] \notin P}, HeldUp' = HeldUp \cap (Waiting' \X Waiting'), Quiet
  PROVE  Promise!GiveUp(P)
  BY DEF Promise!GiveUp, Promise!Rest, Promise!Among, Quiet

LEMMA AsQuiet ==
  ASSUME all_blocks \in Seq(Block), Waiting' = Waiting, HeldUp' = HeldUp, Quiet
  PROVE  Promise!GiveUp({})
<1>1. HeldUp = HeldUp \cap (Waiting \X Waiting) BY HeldWithin, WaitingIs
<1>2. {} \in SUBSET Panes /\ {x \in Waiting : x[1] \notin {}} = Waiting OBVIOUS
<1> QED BY <1>1, <1>2 DEF Promise!GiveUp, Promise!Rest, Promise!Among, Quiet

LEMMA AsOutput ==
  ASSUME NEW p \in Panes, NEW I, Waiting' = Waiting \cup I, HeldUp' = HeldUp, Quiet,
         \A x \in I : \E k \in Newest[p] + 1 .. Newest'[p] : x = <<p, k>>
  PROVE  Promise!Output(p)
<1>1. Waiting' \ Waiting \subseteq {p} \X (Newest[p] + 1 .. Newest'[p]) OBVIOUS
<1> QED BY <1>1 DEF Promise!Output, Quiet

LEMMA AsOvertake ==
  ASSUME NEW p \in Panes, Waiting' = Waiting, HeldUp \subseteq HeldUp', Quiet,
         HeldUp' \ HeldUp \subseteq {x \in Waiting : x[1] = p} \X {x \in Waiting : x[1] = Line}
  PROVE  Promise!Overtake(p)
  BY DEF Promise!Overtake, Promise!Line, Line, Quiet

LEMMA AsSend ==
  ASSUME IsInjective(sent'), ToSet(sent') \subseteq Waiting, lines' = lines,
         Waiting' = Waiting \ ToSet(sent'), HeldUp' = HeldUp \cap (Waiting' \X Waiting'),
         \A i \in DOMAIN sent', x \in Waiting :
            <<x, sent'[i]>> \in HeldUp \/ (x[1] = sent'[i][1] /\ x[2] < sent'[i][2])
               => \E j \in DOMAIN sent' : j < i /\ sent'[j] = x
  PROVE  Promise!Send
  BY DEF Promise!Send, Promise!Before, Promise!Among, IsInjective, Promise!IsInjective, ToSet, Promise!ToSet

LEMMA AsWrite ==
  ASSUME lines \in Nat, NEW all, BlockQueue(all, lines), control_write(all), w'.msg = <<>>, NEW P \in SUBSET Panes,
         Waits(all, <<>>) = {x \in Waiting : x[1] \notin P},
         Held(all, <<>>) = HeldUp \cap (Waits(all, <<>>) \X Waits(all, <<>>))
  PROVE  Promise!Write(P)
<1> DEFINE line == <<Line, lines + 1>>
           R == Waits(all, <<>>)
           H == Held(all, <<>>)
<1>1. Waiting' = Waits(all_blocks', <<>>) /\ HeldUp' = Held(all_blocks', <<>>) BY WaitingNext
<1>2. lines' = lines + 1 BY DEF control_write
<1>3. R = Promise!Rest(P) /\ H = Promise!Among(Promise!Rest(P)) BY DEF Promise!Rest, Promise!Among
<1>4. line = <<Promise!Line, lines + 1>> BY DEF Line, Promise!Line
<1>5. R = {} <=> all = <<>> BY WaitsEmpty
<1>6. CASE all = <<>>
  <2>1. all_blocks' = <<>> /\ sent' = <<line>> BY <1>6 DEF control_write
  <2>2. Waiting' = {} /\ HeldUp' = {} BY <1>1, <2>1, WaitsNone
  <2> HIDE DEF R, H, line
  <2> QED BY <1>2, <1>3, <1>4, <1>5, <1>6, <2>1, <2>2 DEF Promise!Write
<1>7. CASE all # <<>>
  <2>1. all_blocks' = Append(all, LineBlock(lines + 1)) /\ sent' = <<>> BY <1>7 DEF control_write, LineBlock
  <2>2. /\ Waits(Append(all, LineBlock(lines + 1)), <<>>) = R \cup {line}
        /\ Held(Append(all, LineBlock(lines + 1)), <<>>) = H \cup (R \X {line})
    <3>1. lines \in Nat /\ BlockQueue(all, lines) OBVIOUS
    <3> QED BY ONLY <3>1, WaitsLine
  <2>3. Waits(all_blocks', <<>>) = R \cup {line} /\ Held(all_blocks', <<>>) = H \cup (R \X {line}) BY <2>1, <2>2
  <2> HIDE DEF R, H, line
  <2> QED BY <1>1, <1>2, <1>3, <1>4, <1>5, <1>7, <2>1, <2>3 DEF Promise!Write
<1> QED BY <1>6, <1>7

(* Blocks of some panes are discarded, and perhaps a line is written.      *)
LEMMA DiscardsPromised ==
  ASSUME lines \in Nat, BlockQueue(all_blocks, lines), NEW P \in SUBSET Panes, \A x \in ToSet(w.msg) : x[1] \in P, w'.msg = <<>>
  PROVE  /\ all_blocks' = Discarded(all_blocks, P) /\ Quiet => Promise!GiveUp(P)
         /\ control_write(Discarded(all_blocks, P)) => Promise!Write(P)
<1> DEFINE t == Discarded(all_blocks, P)
<1>1. BlockQueue(t, lines) BY BlocksDiscarded
<1>2. Waits(t, <<>>) = {x \in Waits(all_blocks, w.msg) : x[1] \notin P}
      /\ Held(t, <<>>) = Held(all_blocks, w.msg) \cap (Waits(t, <<>>) \X Waits(t, <<>>))
  BY WaitsDiscarded
<1> HIDE DEF t
<1>3. Waits(t, <<>>) = {x \in Waiting : x[1] \notin P} /\ Held(t, <<>>) = HeldUp \cap (Waits(t, <<>>) \X Waits(t, <<>>))
  BY <1>2, WaitingIs
<1>4. ASSUME all_blocks' = t, Quiet PROVE Promise!GiveUp(P)
  <2>1. Waiting' = Waits(t, <<>>) /\ HeldUp' = Held(t, <<>>) BY <1>4, WaitingNext
  <2> QED BY <1>3, <1>4, <2>1, AsGiveUp
<1>5. ASSUME control_write(t) PROVE Promise!Write(P) BY <1>1, <1>3, <1>5, AsWrite
<1> QED BY <1>4, <1>5 DEF t

LEMMA WritesPromised ==
  ASSUME lines \in Nat, BlockQueue(all_blocks, lines), w.msg = <<>>, w'.msg = <<>>, control_write(all_blocks)
  PROVE  Promise!Write({})
<1>1. all_blocks \in Seq(Block) BY DEF BlockQueue
<1>2. HeldUp = HeldUp \cap (Waiting \X Waiting) BY <1>1, HeldWithin, WaitingIs
<1>3. Waiting = Waits(all_blocks, <<>>) /\ HeldUp = Held(all_blocks, <<>>) BY WaitingIs
<1>4. {} \in SUBSET Panes /\ {x \in Waiting : x[1] \notin {}} = Waiting OBVIOUS
<1> QED BY <1>2, <1>3, <1>4, AsWrite

(* No byte of a pane comes back.                                           *)
LEMMA NewestGrows ==
  ASSUME ControlTypes, NEW p \in Panes, Offsets(pane[p], cp[p], flags), pane'[p].offset \in Int, pane'[p].offset >= pane[p].offset,
         cp'[p].exists => \/ cp[p].exists /\ cp'[p].queued = cp[p].queued
                          \/ cp'[p].queued \in Int /\ cp'[p].queued >= pane[p].offset
  PROVE  Newest'[p] >= Newest[p]
<1>1. pane[p] \in PaneType /\ cp[p] \in ControlPane BY DEF ControlTypes
<1>2. pane[p].offset \in Int /\ cp[p].queued \in Int /\ (cp[p].exists => cp[p].queued <= pane[p].offset)
  BY <1>1 DEF PaneType, ControlPane, Offsets
<1>3. Newest[p] = (IF cp[p].exists THEN cp[p].queued ELSE pane[p].offset) BY DEF Newest
<1>4. Newest'[p] = (IF cp'[p].exists THEN cp'[p].queued ELSE pane'[p].offset) BY DEF Newest
<1>5. Newest[p] \in Int /\ Newest[p] <= pane[p].offset BY <1>2, <1>3
<1>6. CASE ~cp'[p].exists BY <1>2, <1>4, <1>5, <1>6
<1>7. CASE cp'[p].exists /\ cp[p].exists /\ cp'[p].queued = cp[p].queued BY <1>2, <1>3, <1>4, <1>7
<1>8. CASE cp'[p].exists /\ cp'[p].queued \in Int /\ cp'[p].queued >= pane[p].offset BY <1>2, <1>4, <1>5, <1>8
<1> QED BY <1>6, <1>7, <1>8

LEMMA NewestKept ==
  ASSUME ControlTypes, \A p \in Panes : Offsets(pane[p], cp[p], flags) /\ pane'[p].offset = pane[p].offset,
         \A p \in Panes : cp'[p].exists => cp[p].exists /\ cp'[p].queued = cp[p].queued
  PROVE  Promise!Onward
<1>1. ASSUME NEW p \in Panes PROVE Newest'[p] >= Newest[p]
  <2>1. pane'[p].offset \in Int /\ pane'[p].offset >= pane[p].offset BY DEF ControlTypes, PaneType
  <2> QED BY <2>1, NewestGrows
<1> QED BY <1>1 DEF Promise!Onward

LEMMA ReadOnward ==
  ASSUME Always, Clean, NEW p \in Panes, NEW k \in 1 .. 2, window_pane_read_callback(p, k)
  PROVE  Promise!Onward
<1>1. ControlTypes /\ pane \in [Panes -> PaneType] /\ cp \in [Panes -> ControlPane]
      /\ \A q \in Panes : Offsets(pane[q], cp[q], flags)
  BY DEF Always, ControlTypes, Clean
<1> DEFINE total == Total(p) + k
           c == control_add_pane(p)
<1>2. c \in ControlPane /\ c.exists BY <1>1, AddPane
<1>3. pane[p].offset \in Int /\ pane[p].base \in Int /\ pane[p].len \in Int BY <1>1 DEF PaneType
<1>4. total \in Int /\ total >= pane[p].offset
  <2>1. pane[p].fd /\ pane[p].base + pane[p].len = pane[p].offset BY <1>1 DEF window_pane_read_callback, Offsets
  <2> QED BY <1>3, <2>1 DEF Total
<1>5. pane'[p].offset = total /\ \A q \in Panes : q # p => pane'[q] = pane[q]
  <2>1. pane' = [pane EXCEPT ![p].len = @ + k, ![p].offset = total, ![p].reading = FALSE] BY DEF window_pane_read_callback
  <2> HIDE DEF total
  <2> QED BY <1>1, <2>1 DEF PaneType
<1>6. NotOffered(p) \/ Skipped(p, total) \/ Queued(p, total) BY DEF window_pane_read_callback
<1> HIDE DEF total, c
<1>7. \A q \in Panes : pane'[q].offset \in Int /\ pane'[q].offset >= pane[q].offset
  <2> TAKE q \in Panes
  <2>1. CASE q = p BY <1>3, <1>4, <1>5, <2>1
  <2>2. CASE q # p BY <1>1, <1>5, <2>2 DEF PaneType
  <2> QED BY <2>1, <2>2
<1>8. \A q \in Panes : cp'[q].exists => \/ cp[q].exists /\ cp'[q].queued = cp[q].queued
                                        \/ cp'[q].queued \in Int /\ cp'[q].queued >= pane[q].offset
  <2>1. CASE NotOffered(p) BY <2>1 DEF NotOffered
  <2>2. CASE Skipped(p, total)
    <3>1. cp' = [cp EXCEPT ![p] = [c EXCEPT !.offset = total, !.queued = total]] BY <2>2 DEF Skipped, c
    <3>2. cp'[p].queued = total /\ \A q \in Panes : q # p => cp'[q] = cp[q] BY <1>1, <1>2, <3>1 DEF ControlPane
    <3> QED BY <1>4, <3>2
  <2>3. CASE Queued(p, total) /\ TooOld(p)
    <3>1. control_check_age(p) BY <2>3 DEF Queued
    <3>2. \A q \in Panes : cp'[q].exists = cp[q].exists /\ cp'[q].queued = cp[q].queued
      BY <1>1, <3>1, CheckAgeClean DEF Clean
    <3> QED BY <3>2
  <2>4. CASE Queued(p, total) /\ ~TooOld(p)
    <3>1. cp' = [cp EXCEPT ![p] = [c EXCEPT !.queued = total, !.pending = TRUE]] BY <2>4 DEF Queued, c
    <3> DEFINE d == [c EXCEPT !.queued = total, !.pending = TRUE]
    <3>2. d.queued = total BY <1>2 DEF ControlPane
    <3>3. cp'[p] = d /\ \A q \in Panes : q # p => cp'[q] = cp[q] BY <1>1, <3>1
    <3> HIDE DEF d
    <3> QED BY <1>4, <3>2, <3>3
  <2> QED BY <1>6, <2>1, <2>2, <2>3, <2>4
<1>9. \A q \in Panes : Newest'[q] >= Newest[q] BY <1>1, <1>7, <1>8, NewestGrows
<1> QED BY <1>9 DEF Promise!Onward

LEMMA CommandsOnward ==
  ASSUME Always, Clean, NEW p \in Panes,
         \/ control_set_pane_off(p) \/ control_set_pane_on(p)
         \/ control_continue_pane(p) \/ control_pause_pane(p)
  PROVE  Promise!Onward
<1>1. ControlTypes /\ pane \in [Panes -> PaneType] /\ cp \in [Panes -> ControlPane]
      /\ \A q \in Panes : Offsets(pane[q], cp[q], flags)
  BY DEF Always, ControlTypes, Clean
<1> DEFINE c == control_add_pane(p)
           a == AtEnd(cp[p], p)
<1>2. c \in ControlPane /\ (cp[p].exists => c = cp[p]) /\ (~cp[p].exists => c.queued = pane[p].offset) BY <1>1, AddPane
<1>3. a \in ControlPane /\ a.queued = pane[p].offset BY <1>1, AtEndTyped
<1>4. pane[p].offset \in Int /\ pane' = pane
  BY <1>1 DEF PaneType, control_set_pane_off, control_set_pane_on, control_continue_pane, control_pause_pane
<1>5. \/ cp' = [cp EXCEPT ![p] = [c EXCEPT !.off = TRUE]]
      \/ cp' = [cp EXCEPT ![p] = [c EXCEPT !.paused = TRUE]]
      \/ cp' = [cp EXCEPT ![p] = [a EXCEPT !.off = FALSE]]
      \/ cp' = [cp EXCEPT ![p] = [a EXCEPT !.paused = FALSE]]
  <2>1. CASE control_set_pane_off(p) BY <2>1 DEF control_set_pane_off
  <2>2. CASE control_pause_pane(p) BY <2>2 DEF control_pause_pane
  <2>3. CASE control_set_pane_on(p) BY <1>1, <2>3 DEF control_set_pane_on
  <2>4. CASE control_continue_pane(p) BY <1>1, <2>4 DEF control_continue_pane
  <2> QED BY <2>1, <2>2, <2>3, <2>4
<1> HIDE DEF c, a
<1>6. /\ \A q \in Panes : q # p => cp'[q] = cp[q]
      /\ cp'[p].queued = c.queued \/ cp'[p].queued = a.queued
  BY <1>1, <1>2, <1>3, <1>5 DEF ControlPane
<1>7. \A q \in Panes : cp'[q].exists => \/ cp[q].exists /\ cp'[q].queued = cp[q].queued
                                        \/ cp'[q].queued \in Int /\ cp'[q].queued >= pane[q].offset
  BY <1>2, <1>3, <1>4, <1>6
<1>8. \A q \in Panes : pane'[q].offset \in Int /\ pane'[q].offset >= pane[q].offset BY <1>1, <1>4 DEF PaneType
<1>9. \A q \in Panes : Newest'[q] >= Newest[q] BY <1>1, <1>7, <1>8, NewestGrows
<1> QED BY <1>9 DEF Promise!Onward

LEMMA OthersOnward ==
  ASSUME Always, Clean,
         \/ Notify \/ \E p \in Panes : LinkWindow(p) \/ PaneDies(p) \/ PaneRespawns(p)
         \/ \E f \in {"NOOUTPUT", "PAUSEAFTER"} : server_client_set_flags(f)
         \/ \E error \in BOOLEAN : ClientExits(error)
         \/ TimePasses \/ write_error \/ server_client_loop
         \/ \E n \in 0 .. ev.out : write_ready(n)
         \/ control_flush_all_blocks \/ control_write_callback \/ NextPane \/ PaneGone \/ PaneTooOld
         \/ control_write_data \/ PaneDone \/ control_append_data
  PROVE  Promise!Onward
<1>1. ControlTypes /\ pane \in [Panes -> PaneType] /\ cp \in [Panes -> ControlPane]
      /\ \A q \in Panes : Offsets(pane[q], cp[q], flags)
  BY DEF Always, ControlTypes, Clean
<1>2. SUFFICES /\ \A q \in Panes : pane'[q].offset = pane[q].offset
               /\ \A q \in Panes : cp'[q].exists => cp[q].exists /\ cp'[q].queued = cp[q].queued
  BY <1>1, NewestKept
<1>3. CASE \/ Notify \/ \E error \in BOOLEAN : ClientExits(error)
           \/ TimePasses \/ write_error \/ \E n \in 0 .. ev.out : write_ready(n)
           \/ control_flush_all_blocks \/ control_write_callback \/ NextPane \/ PaneGone \/ control_write_data
  <2>1. pane' = pane /\ cp' = cp
    BY <1>3 DEF Notify, ClientExits, TimePasses, write_error, write_ready, control_flush_all_blocks,
                control_write_callback, NextPane, PaneGone, control_write_data
  <2> QED BY <2>1
<1>4. ASSUME NEW p \in Panes, LinkWindow(p) \/ PaneDies(p) \/ PaneRespawns(p)
      PROVE  /\ \A q \in Panes : pane'[q].offset = pane[q].offset
             /\ \A q \in Panes : cp'[q].exists => cp[q].exists /\ cp'[q].queued = cp[q].queued
  <2>1. cp' = cp BY <1>4 DEF LinkWindow, PaneDies, PaneRespawns
  <2>2. CASE LinkWindow(p)
    <3> DEFINE v == ~pane[p].linked
    <3>1. pane' = [pane EXCEPT ![p].linked = v] BY <2>2 DEF LinkWindow
    <3> HIDE DEF v
    <3> QED BY <1>1, <2>1, <3>1 DEF PaneType
  <2>3. CASE PaneDies(p)
    <3> DEFINE no == FALSE
               none == 0
    <3>1. pane' = [pane EXCEPT ![p].fd = no, ![p].len = none] BY <2>3 DEF PaneDies
    <3> HIDE DEF no, none
    <3> QED BY <1>1, <2>1, <3>1 DEF PaneType
  <2>4. CASE PaneRespawns(p)
    <3> DEFINE yes == TRUE
    <3>1. pane' = [pane EXCEPT ![p].fd = yes, ![p].reading = yes] BY <2>4 DEF PaneRespawns
    <3> HIDE DEF yes
    <3> QED BY <1>1, <2>1, <3>1 DEF PaneType
  <2> QED BY <1>4, <2>2, <2>3, <2>4
<1>5. CASE \E f \in {"NOOUTPUT", "PAUSEAFTER"} : server_client_set_flags(f)
  <2>1. pane' = pane /\ (cp' = cp \/ cp' = [q \in Panes |-> NoPane]) BY <1>5 DEF server_client_set_flags
  <2>2. ~NoPane.exists BY DEF NoPane
  <2> QED BY <2>1, <2>2
<1>6. CASE server_client_loop
  <2>1. cp' = cp /\ pane' = [q \in Panes |-> server_client_check_pane_buffer(q)] BY <1>6 DEF server_client_loop
  <2>2. ASSUME NEW q \in Panes PROVE server_client_check_pane_buffer(q).offset = pane[q].offset
    <3> DEFINE m == IF Holds(q) THEN Smaller(pane[q].offset, cp[q].offset) ELSE pane[q].offset
               v == OtherClient \/ ~Stops(q)
    <3>1. server_client_check_pane_buffer(q)
            = IF ~pane[q].fd THEN pane[q]
              ELSE [pane[q] EXCEPT !.base = m, !.len = @ - (m - pane[q].base), !.reading = v]
      BY DEF server_client_check_pane_buffer
    <3> HIDE DEF m, v
    <3> QED BY <1>1, <3>1 DEF PaneType
  <2> QED BY <2>1, <2>2
<1>7. CASE PaneTooOld
  <2>1. control_check_age(Head(w.walk)) /\ pane' = pane /\ Head(w.walk) \in Panes
    BY <1>1, <1>7, AtHead DEF PaneTooOld, At, AtPane, Always
  <2>2. \A q \in Panes : cp'[q].exists = cp[q].exists /\ cp'[q].queued = cp[q].queued
    BY <1>1, <2>1, CheckAgeClean DEF Clean
  <2> QED BY <2>1, <2>2
<1>8. CASE PaneDone
  <2> DEFINE p == Head(w.walk)
             v == cp[p].pending /\ Mine(p) # {}
  <2>1. cp' = [cp EXCEPT ![p].pending = v] /\ pane' = pane BY <1>8 DEF PaneDone
  <2> HIDE DEF p, v
  <2> QED BY <1>1, <2>1 DEF ControlPane
<1>9. CASE control_append_data
  <2>1. PICK p, i, cb, size : AppendEffect(p, i, cb, size) BY <1>9, AppendFacts
  <2>2. cp' = [cp EXCEPT ![p].offset = @ + size] /\ pane' = pane BY <2>1 DEF AppendEffect
  <2> QED BY <1>1, <2>2 DEF ControlPane
<1> QED BY <1>3, <1>4, <1>5, <1>6, <1>7, <1>8, <1>9

(* Each step does what the promise allows.                                 *)
Promised ==
    \/ \E p \in Panes : Promise!Output(p) \/ Promise!Overtake(p)
    \/ \E P \in SUBSET Panes : Promise!GiveUp(P) \/ Promise!Write(P)
    \/ Promise!Send

LEMMA PromisedBy ==
  /\ \A p \in Panes : Promise!Output(p) \/ Promise!Overtake(p) => Promised
  /\ \A P \in SUBSET Panes : Promise!GiveUp(P) \/ Promise!Write(P) => Promised
  /\ Promise!Send => Promised
  BY DEF Promised

LEMMA NothingPromised ==
  ASSUME all_blocks \in Seq(Block), all_blocks' = all_blocks, w'.msg = w.msg, Quiet
  PROVE  Promised
<1>1. Waiting' = Waiting /\ HeldUp' = HeldUp BY WaitingIs, WaitingNext
<1>2. Promise!GiveUp({}) BY <1>1, AsQuiet
<1>3. {} \in SUBSET Panes OBVIOUS
<1> QED BY <1>2, <1>3, PromisedBy

LEMMA NoMessageIdle ==
  ASSUME Clean, w.pc \notin {"pane", "write"}
  PROVE  w.msg = <<>> /\ \A P : \A x \in ToSet(w.msg) : x[1] \in P
<1>1. w.msg = <<>> BY NoMessage DEF Clean
<1>2. ToSet(<<>>) = {} BY EmptyQueue
<1> QED BY <1>1, <1>2

LEMMA CheckAgePromised ==
  ASSUME lines \in Nat, BlockQueue(all_blocks, lines), NEW p \in Panes, control_check_age(p),
         \A x \in ToSet(w.msg) : x[1] = p, w'.msg = <<>>
  PROVE  Promised
<1>1. CASE "PAUSEAFTER" \in flags
  <2>1. control_write(Discarded(all_blocks, {p})) BY <1>1 DEF control_check_age
  <2>2. {p} \in SUBSET Panes /\ \A x \in ToSet(w.msg) : x[1] \in {p} OBVIOUS
  <2>3. Promise!Write({p}) BY <2>1, <2>2, DiscardsPromised
  <2> QED BY <2>2, <2>3, PromisedBy
<1>2. CASE "PAUSEAFTER" \notin flags
  <2>1. all_blocks' = Discarded(all_blocks, Panes) /\ Quiet BY <1>2 DEF control_check_age
  <2>2. Panes \in SUBSET Panes /\ \A x \in ToSet(w.msg) : x[1] \in Panes OBVIOUS
  <2>3. Promise!GiveUp(Panes) BY <2>1, <2>2, DiscardsPromised
  <2> QED BY <2>2, <2>3, PromisedBy
<1> QED BY <1>1, <1>2

LEMMA ReadPromised ==
  ASSUME Always, Clean, NEW p \in Panes, NEW k \in 1 .. 2, window_pane_read_callback(p, k)
  PROVE  Promised
<1>1. ControlTypes /\ pane \in [Panes -> PaneType] /\ cp \in [Panes -> ControlPane] /\ all_blocks \in Seq(Block)
      /\ lines \in Nat /\ BlockQueue(all_blocks, lines) /\ Offsets(pane[p], cp[p], flags)
  BY DEF Always, ControlTypes, Clean
<1> DEFINE total == Total(p) + k
           c == control_add_pane(p)
<1>2. c \in ControlPane /\ c.exists /\ (cp[p].exists => c = cp[p]) /\ (~cp[p].exists => c.queued = pane[p].offset)
  BY <1>1, AddPane
<1>3. w.msg = <<>> /\ w' = w /\ \A x \in ToSet(w.msg) : x[1] = p
  <2>1. w.pc = "idle" /\ w' = w BY DEF window_pane_read_callback, Idle
  <2>2. w.msg = <<>> /\ \A x \in ToSet(w.msg) : x[1] \in {p} BY <2>1, NoMessageIdle
  <2> QED BY <2>1, <2>2
<1>4. pane[p].offset \in Int /\ pane[p].base \in Int /\ pane[p].len \in Int /\ c.queued \in Int
  BY <1>1, <1>2 DEF PaneType, ControlPane
<1>5. total \in Int BY <1>4 DEF Total
<1>6. NotOffered(p) \/ Skipped(p, total) \/ Queued(p, total) BY DEF window_pane_read_callback
<1> HIDE DEF total, c
<1>7. CASE NotOffered(p) \/ Skipped(p, total)
  <2>1. all_blocks' = all_blocks /\ Quiet BY <1>7 DEF NotOffered, Skipped
  <2> QED BY <1>1, <1>3, <2>1, NothingPromised
<1>8. CASE Queued(p, total) /\ TooOld(p)
  <2>1. control_check_age(p) BY <1>8 DEF Queued
  <2>2. w'.msg = <<>> BY <1>3
  <2> QED BY <1>1, <1>3, <2>1, <2>2, CheckAgePromised
<1>9. CASE Queued(p, total) /\ ~TooOld(p)
  <2> DEFINE x == [of |-> p, size |-> total - c.queued, from |-> c.queued + 1, old |-> FALSE, orphan |-> FALSE]
             d == [c EXCEPT !.queued = total, !.pending = TRUE]
  <2>1. all_blocks' = Append(all_blocks, x) /\ cp' = [cp EXCEPT ![p] = d] /\ Quiet BY <1>9 DEF Queued, c
  <2>2. x \in Block /\ x.of = p /\ x.from = c.queued + 1 /\ x.size = total - c.queued BY <1>4, <1>5 DEF Block
  <2>3. d.queued = total /\ d.exists BY <1>2 DEF ControlPane
  <2> HIDE DEF x, d
  <2>4. cp'[p] = d BY <1>1, <2>1
  <2>5. Newest[p] = c.queued /\ Newest'[p] = total BY <1>2, <2>3, <2>4 DEF Newest
  <2>6. p # Line BY PanesAssumption
  <2>7. Waits(Append(all_blocks, x), <<>>) = Waits(all_blocks, <<>>) \cup Items(x)
        /\ Held(Append(all_blocks, x), <<>>) = Held(all_blocks, <<>>)
    BY <1>1, <2>2, <2>6, WaitsBlock
  <2>8. Waiting' = Waiting \cup Items(x) /\ HeldUp' = HeldUp BY <1>3, <2>1, <2>7, WaitingIs, WaitingNext
  <2>9. ASSUME NEW z \in Items(x) PROVE \E n \in Newest[p] + 1 .. Newest'[p] : z = <<p, n>>
    <3>1. PICK n \in Int : x.from <= n /\ n < x.from + x.size /\ z = <<x.of, n>> BY <2>2, <2>6, ItemsAre
    <3>2. n \in c.queued + 1 .. total BY <1>4, <1>5, <2>2, <3>1
    <3> QED BY <2>2, <2>5, <3>1, <3>2
  <2>10. Promise!Output(p) BY <2>1, <2>8, <2>9, AsOutput
  <2> QED BY <2>10, PromisedBy
<1> QED BY <1>6, <1>7, <1>8, <1>9

LEMMA CommandsPromised ==
  ASSUME Always, Clean, NEW p \in Panes,
         \/ control_set_pane_off(p) \/ control_set_pane_on(p)
         \/ control_continue_pane(p) \/ control_pause_pane(p)
  PROVE  Promised
<1>1. all_blocks \in Seq(Block) /\ lines \in Nat /\ BlockQueue(all_blocks, lines)
  BY DEF Always, ControlTypes, Clean
<1>2. w.msg = <<>> /\ w' = w /\ w'.msg = <<>> /\ \A P : \A x \in ToSet(w.msg) : x[1] \in P
  <2>1. w.pc = "idle" /\ w' = w
    BY DEF control_set_pane_off, control_set_pane_on, control_continue_pane, control_pause_pane, Command, Idle
  <2>2. w.msg = <<>> /\ \A P : \A x \in ToSet(w.msg) : x[1] \in P BY <2>1, NoMessageIdle
  <2> QED BY <2>1, <2>2
<1>3. CASE control_set_pane_off(p) \/ control_set_pane_on(p)
  <2>1. all_blocks' = all_blocks /\ Quiet BY <1>3 DEF control_set_pane_off, control_set_pane_on
  <2> QED BY <1>1, <1>2, <2>1, NothingPromised
<1>4. CASE control_continue_pane(p)
  <2>1. control_write(all_blocks) BY <1>4 DEF control_continue_pane
  <2>2. Promise!Write({}) /\ {} \in SUBSET Panes BY <1>1, <1>2, <2>1, WritesPromised
  <2> QED BY <2>2, PromisedBy
<1>5. CASE control_pause_pane(p)
  <2>1. control_write(Discarded(all_blocks, {p})) BY <1>5 DEF control_pause_pane
  <2>2. {p} \in SUBSET Panes OBVIOUS
  <2>3. Promise!Write({p}) BY <1>1, <1>2, <2>1, <2>2, DiscardsPromised
  <2> QED BY <2>2, <2>3, PromisedBy
<1> QED BY <1>3, <1>4, <1>5

LEMMA OutsidePromised ==
  ASSUME Always, Clean,
         \/ Notify \/ \E p \in Panes : LinkWindow(p) \/ PaneDies(p) \/ PaneRespawns(p)
         \/ \E f \in {"NOOUTPUT", "PAUSEAFTER"} : server_client_set_flags(f)
         \/ \E error \in BOOLEAN : ClientExits(error)
         \/ TimePasses \/ write_error \/ server_client_loop
         \/ \E n \in 0 .. ev.out : write_ready(n)
  PROVE  Promised
<1>1. all_blocks \in Seq(Block) /\ lines \in Nat /\ BlockQueue(all_blocks, lines)
  BY DEF Always, ControlTypes, Clean
<1>2. w.pc = "idle"
  BY DEF Notify, LinkWindow, PaneDies, PaneRespawns, server_client_set_flags, ClientExits, TimePasses, write_error,
         server_client_loop, write_ready, Command, Idle
<1>3. w.msg = <<>> /\ \A P : \A x \in ToSet(w.msg) : x[1] \in P BY <1>2, NoMessageIdle
<1>4. CASE Notify
  <2>1. control_write(all_blocks) /\ w'.msg = <<>> BY <1>3, <1>4 DEF Notify
  <2>2. Promise!Write({}) /\ {} \in SUBSET Panes BY <1>1, <1>3, <2>1, WritesPromised
  <2> QED BY <2>2, PromisedBy
<1>5. CASE \/ \E p \in Panes : LinkWindow(p) \/ PaneDies(p) \/ PaneRespawns(p)
           \/ \E error \in BOOLEAN : ClientExits(error)
           \/ write_error
  <2>1. all_blocks' = all_blocks /\ w'.msg = w.msg /\ Quiet
    BY <1>5 DEF LinkWindow, PaneDies, PaneRespawns, ClientExits, write_error
  <2> QED BY <1>1, <2>1, NothingPromised
<1>6. CASE \E f \in {"NOOUTPUT", "PAUSEAFTER"} : server_client_set_flags(f)
  <2>1. w'.msg = w.msg /\ Quiet BY <1>6 DEF server_client_set_flags
  <2>2. CASE all_blocks' = all_blocks BY <1>1, <2>1, <2>2, NothingPromised
  <2>3. CASE all_blocks' = [i \in DOMAIN all_blocks |-> [all_blocks[i] EXCEPT !.orphan = all_blocks[i].of # Line]]
    <3> DEFINE v(i) == all_blocks[i].of # Line
               t == [i \in DOMAIN all_blocks |-> [all_blocks[i] EXCEPT !.orphan = v(i)]]
    <3>1. \A i \in DOMAIN all_blocks : v(i) \in BOOLEAN OBVIOUS
    <3>2. \A i \in DOMAIN all_blocks : all_blocks[i] \in Block BY <1>1
    <3>3. all_blocks' = t /\ DOMAIN t = DOMAIN all_blocks /\ \A i \in DOMAIN all_blocks : t[i] = [all_blocks[i] EXCEPT !.orphan = v(i)]
      BY <2>3
    <3> HIDE DEF v, t
    <3>4. \A i \in DOMAIN all_blocks :
            /\ t[i] \in Block
            /\ t[i].of = all_blocks[i].of /\ t[i].from = all_blocks[i].from /\ t[i].size = all_blocks[i].size
      BY <3>1, <3>2, <3>3 DEF Block
    <3>5. t \in Seq(Block)
      <4>1. DOMAIN t = 1 .. Len(all_blocks) BY <1>1, <3>3
      <4>2. t \in [1 .. Len(all_blocks) -> Block] BY <3>3, <3>4, <4>1 DEF t
      <4> QED BY <1>1, <4>2, IntSeq
    <3>6. Waits(t, w.msg) = Waits(all_blocks, w.msg) /\ Held(t, w.msg) = Held(all_blocks, w.msg)
      BY <1>1, <3>3, <3>4, <3>5, WaitsKept
    <3>7. Waiting' = Waiting /\ HeldUp' = HeldUp BY <2>1, <3>3, <3>6, WaitingIs, WaitingNext
    <3>8. Promise!GiveUp({}) /\ {} \in SUBSET Panes BY <1>1, <2>1, <3>7, AsQuiet
    <3> QED BY <3>8, PromisedBy
  <2> QED BY <1>6, <2>2, <2>3 DEF server_client_set_flags
<1>7. CASE TimePasses
  <2> DEFINE t == [i \in DOMAIN all_blocks |-> [all_blocks[i] EXCEPT !.old = TRUE]]
  <2>1. all_blocks' = t /\ w'.msg = w.msg /\ Quiet BY <1>7 DEF TimePasses
  <2>2. DOMAIN t = DOMAIN all_blocks /\ \A i \in DOMAIN all_blocks : t[i] = [all_blocks[i] EXCEPT !.old = TRUE] OBVIOUS
  <2>3. \A i \in DOMAIN all_blocks : all_blocks[i] \in Block BY <1>1
  <2> HIDE DEF t
  <2>4. \A i \in DOMAIN all_blocks :
          /\ t[i] \in Block
          /\ t[i].of = all_blocks[i].of /\ t[i].from = all_blocks[i].from /\ t[i].size = all_blocks[i].size
    BY ZenonT(60), <2>2, <2>3 DEF Block
  <2>5. t \in Seq(Block)
    <3>1. DOMAIN t = 1 .. Len(all_blocks) BY <1>1, <2>2
    <3>2. t \in [1 .. Len(all_blocks) -> Block] BY <2>2, <2>4, <3>1 DEF t
    <3> QED BY <1>1, <3>2, IntSeq
  <2>6. Waits(t, w.msg) = Waits(all_blocks, w.msg) /\ Held(t, w.msg) = Held(all_blocks, w.msg)
    BY <1>1, <2>2, <2>4, <2>5, WaitsKept
  <2>7. Waiting' = Waiting /\ HeldUp' = HeldUp BY <2>1, <2>6, WaitingIs, WaitingNext
  <2>8. Promise!GiveUp({}) /\ {} \in SUBSET Panes BY <1>1, <2>1, <2>7, AsQuiet
  <2> QED BY <2>8, PromisedBy
<1>8. CASE server_client_loop
  <2>1. w'.msg = <<>> /\ Quiet /\ all_blocks' = (IF "EXIT" \in flags THEN Discarded(all_blocks, Panes) ELSE all_blocks)
    BY <1>3, <1>8 DEF server_client_loop, AfterExit
  <2>2. CASE all_blocks' = all_blocks BY <1>1, <1>3, <2>1, <2>2, NothingPromised
  <2>3. CASE all_blocks' = Discarded(all_blocks, Panes)
    <3>1. Promise!GiveUp(Panes) /\ Panes \in SUBSET Panes BY <1>1, <1>3, <2>1, <2>3, DiscardsPromised
    <3> QED BY <3>1, PromisedBy
  <2> QED BY <2>1, <2>2, <2>3
<1>9. CASE \E n \in 0 .. ev.out : write_ready(n)
  <2>1. all_blocks' = all_blocks /\ Quiet /\ (w' = w \/ w' = [NoWriter EXCEPT !.pc = "flush", !.ret = "loop"])
    BY <1>9 DEF write_ready
  <2>2. w'.msg = w.msg BY <1>3, <2>1 DEF NoWriter
  <2> QED BY <1>1, <2>1, <2>2, NothingPromised
<1> QED BY <1>4, <1>5, <1>6, <1>7, <1>8, <1>9

LEMMA MessageFacts ==
  ASSUME Always, Clean, w.pc \in {"pane", "write"}, NEW p, p = Head(w.walk)
  PROVE  /\ p \in Panes /\ w.msg \in Seq(Panes \X Int) /\ cp[p].offset \in Int
         /\ Consecutive(w.msg, p, cp[p].offset)
         /\ \A b \in ToSet(all_blocks) : b.of = p => cp[p].offset < b.from
         /\ \A x \in ToSet(w.msg) : x[1] = p
         /\ Gone(p) => w.msg = <<>>
<1>1. ControlTypes /\ WriterGood(w) /\ w \in WriterType /\ cp \in [Panes -> ControlPane] BY DEF Always, ControlTypes
<1>2. p \in Panes BY <1>1, AtHead DEF AtPane
<1>3. w.msg \in Seq(Panes \X Int) /\ cp[p].offset \in Int BY <1>1, <1>2 DEF WriterType, ControlPane
<1>4. Consecutive(w.msg, p, cp[p].offset)
  <2>1. CASE w.msg = <<>>
    <3>1. 1 .. Len(w.msg) = {} BY <2>1
    <3> QED BY <3>1 DEF Consecutive
  <2>2. CASE w.msg # <<>> BY <2>2 DEF Clean, MessageGood, Consecutive
  <2> QED BY <2>1, <2>2
<1>5. ASSUME NEW b \in ToSet(all_blocks), b.of = p PROVE cp[p].offset < b.from
  <2>1. BlockOf(b, {p}) BY <1>5 DEF Clean, BlockQueue, Good, BlockOf
  <2> QED BY <1>2, <2>1 DEF Clean, Covers
<1>6. \A x \in ToSet(w.msg) : x[1] = p BY <1>2, <1>3, <1>4, MessageIs
<1>7. Gone(p) => w.msg = <<>> BY DEF Clean, MessageGood
<1> QED BY <1>2, <1>3, <1>4, <1>5, <1>6, <1>7

LEMMA FlushPromised ==
  ASSUME Always, Clean, control_flush_all_blocks
  PROVE  Promised
<1>1. all_blocks \in Seq(Block) /\ lines \in Nat /\ BlockQueue(all_blocks, lines)
  BY DEF Always, ControlTypes, Clean
<1>2. w.msg = <<>>
  <2>1. w.pc = "flush" BY DEF control_flush_all_blocks, At
  <2> QED BY <2>1, NoMessageIdle
<1>3. CASE all_blocks # <<>> /\ Head(all_blocks).of = Line
  <2> DEFINE line == <<Line, Head(all_blocks).from>>
             t == Tail(all_blocks)
  <2>1. all_blocks' = t /\ sent' = <<line>> /\ lines' = lines /\ w' = w BY <1>3 DEF control_flush_all_blocks
  <2>2. /\ line \in Waits(all_blocks, <<>>)
        /\ Waits(t, <<>>) = Waits(all_blocks, <<>>) \ {line}
        /\ Held(t, <<>>) = Held(all_blocks, <<>>) \cap (Waits(t, <<>>) \X Waits(t, <<>>))
        /\ \A x \in Waits(all_blocks, <<>>) :
              <<x, line>> \notin Held(all_blocks, <<>>) /\ ~(x[1] = Line /\ x[2] < Head(all_blocks).from)
    BY <1>1, <1>3, WaitsTaken
  <2>3. line[1] = Line /\ line[2] = Head(all_blocks).from OBVIOUS
  <2> HIDE DEF line, t
  <2>4. Waiting = Waits(all_blocks, <<>>) /\ HeldUp = Held(all_blocks, <<>>) BY <1>2, WaitingIs
  <2>5. Waiting' = Waits(t, <<>>) /\ HeldUp' = Held(t, <<>>) BY <1>2, <2>1, WaitingNext
  <2>6. IsInjective(sent') /\ ToSet(sent') = {line} /\ DOMAIN sent' = {1} /\ sent'[1] = line
    <3>1. DOMAIN <<line>> = {1} /\ <<line>>[1] = line OBVIOUS
    <3>2. IsInjective(<<line>>) /\ ToSet(<<line>>) = {line} BY <3>1 DEF IsInjective, ToSet
    <3> QED BY <2>1, <3>1, <3>2
  <2>7. ASSUME NEW i \in DOMAIN sent', NEW x \in Waiting,
               <<x, sent'[i]>> \in HeldUp \/ (x[1] = sent'[i][1] /\ x[2] < sent'[i][2])
        PROVE  FALSE
    BY <2>2, <2>3, <2>4, <2>6, <2>7
  <2>8. ToSet(sent') \subseteq Waiting /\ Waiting' = Waiting \ ToSet(sent')
        /\ HeldUp' = HeldUp \cap (Waiting' \X Waiting')
    BY <2>2, <2>4, <2>5, <2>6
  <2>9. Promise!Send BY <2>1, <2>6, <2>7, <2>8, AsSend
  <2> QED BY <2>9, PromisedBy
<1>4. CASE ~(all_blocks # <<>> /\ Head(all_blocks).of = Line)
  <2>1. all_blocks' = all_blocks /\ Quiet /\ w' = [w EXCEPT !.pc = w.ret] BY <1>4 DEF control_flush_all_blocks
  <2>2. w'.msg = w.msg BY <2>1 DEF Always, ControlTypes, WriterType
  <2> QED BY <1>1, <2>1, <2>2, NothingPromised
<1> QED BY <1>3, <1>4

LEMMA WriteDataPromised ==
  ASSUME Always, Clean, control_write_data
  PROVE  Promised
<1> DEFINE p == Head(w.walk)
           msg == w.msg
           o == cp[p].offset
<1>1. all_blocks \in Seq(Block) /\ lines \in Nat /\ BlockQueue(all_blocks, lines) /\ w \in WriterType
  BY DEF Always, ControlTypes, Clean
<1>2. w.pc \in {"pane", "write"} BY DEF control_write_data, At
<1>3. /\ p \in Panes /\ msg \in Seq(Panes \X Int) /\ o \in Int /\ Consecutive(msg, p, o)
      /\ \A b \in ToSet(all_blocks) : b.of = p => o < b.from
  BY <1>2, MessageFacts
<1>4. sent' = msg /\ lines' = lines /\ all_blocks' = all_blocks BY DEF control_write_data
<1>5. w'.msg = <<>>
  <2> DEFINE empty == <<>>
  <2>1. w' = [w EXCEPT !.pc = "flush", !.msg = empty] \/ w' = [w EXCEPT !.pc = "done", !.msg = empty]
    BY DEF control_write_data
  <2> HIDE DEF empty
  <2>2. w'.msg = empty BY <1>1, <2>1 DEF WriterType
  <2> QED BY <2>2 DEF empty
<1> HIDE DEF p, msg, o
<1>6. /\ ToSet(msg) \subseteq Waits(all_blocks, msg)
      /\ Waits(all_blocks, <<>>) = Waits(all_blocks, msg) \ ToSet(msg)
      /\ Held(all_blocks, <<>>) = Held(all_blocks, msg) \cap (Waits(all_blocks, <<>>) \X Waits(all_blocks, <<>>))
      /\ \A i \in DOMAIN msg, x \in Waits(all_blocks, msg) :
            <<x, msg[i]>> \in Held(all_blocks, msg) \/ (x[1] = msg[i][1] /\ x[2] < msg[i][2])
               => \E j \in DOMAIN msg : j < i /\ msg[j] = x
  BY ONLY <1>1, <1>3, WaitsSent
<1>7. Waiting = Waits(all_blocks, msg) /\ HeldUp = Held(all_blocks, msg) BY WaitingIs DEF msg
<1>8. Waiting' = Waits(all_blocks, <<>>) /\ HeldUp' = Held(all_blocks, <<>>) BY <1>4, <1>5, WaitingNext
<1>9. IsInjective(msg) BY <1>3, MessageIs
<1>10. /\ IsInjective(sent') /\ ToSet(sent') \subseteq Waiting /\ lines' = lines
       /\ Waiting' = Waiting \ ToSet(sent') /\ HeldUp' = HeldUp \cap (Waiting' \X Waiting')
  BY <1>4, <1>6, <1>7, <1>8, <1>9
<1>11. \A i \in DOMAIN sent', x \in Waiting :
          <<x, sent'[i]>> \in HeldUp \/ (x[1] = sent'[i][1] /\ x[2] < sent'[i][2])
             => \E j \in DOMAIN sent' : j < i /\ sent'[j] = x
  BY <1>4, <1>6, <1>7
<1>12. Promise!Send BY <1>10, <1>11, AsSend
<1> QED BY <1>12, PromisedBy

LEMMA PiecesPromised ==
  ASSUME Always, Clean,
         control_write_callback \/ NextPane \/ PaneDone \/ PaneGone \/ PaneTooOld
  PROVE  Promised
<1>1. all_blocks \in Seq(Block) /\ lines \in Nat /\ BlockQueue(all_blocks, lines) /\ w \in WriterType
  BY DEF Always, ControlTypes, Clean
<1> DEFINE p == Head(w.walk)
<1>2. CASE control_write_callback
  <2>1. w.pc = "loop" /\ all_blocks' = all_blocks /\ Quiet BY <1>2 DEF control_write_callback, At
  <2>2. w.msg = <<>> BY <2>1, NoMessageIdle
  <2> DEFINE share == ((High - ev.out) \div Len(pending_list)) \div 3
             limit == IF share < Minimum THEN Minimum ELSE share
  <2>3. w' = [w EXCEPT !.pc = "walk", !.walk = pending_list, !.limit = limit] \/ w' = NoWriter
    BY <1>2 DEF control_write_callback
  <2> HIDE DEF limit
  <2>4. w'.msg = w.msg
    <3>1. CASE w' = NoWriter BY <2>2, <3>1 DEF NoWriter
    <3>2. CASE w' # NoWriter BY <1>1, <2>3, <3>2 DEF WriterType
    <3> QED BY <3>1, <3>2
  <2> QED BY <1>1, <2>1, <2>4, NothingPromised
<1>3. CASE NextPane
  <2> DEFINE zero == 0
  <2>1. all_blocks' = all_blocks /\ Quiet
        /\ (w' = [w EXCEPT !.pc = "loop"] \/ w' = [w EXCEPT !.pc = "pane", !.used = zero])
    BY <1>3 DEF NextPane
  <2> HIDE DEF zero
  <2>2. w'.msg = w.msg BY <1>1, <2>1 DEF WriterType
  <2> QED BY <1>1, <2>1, <2>2, NothingPromised
<1>4. CASE PaneDone
  <2> DEFINE rest == Tail(w.walk)
  <2>1. all_blocks' = all_blocks /\ Quiet /\ w' = [w EXCEPT !.pc = "walk", !.walk = rest] BY <1>4 DEF PaneDone
  <2> HIDE DEF rest
  <2>2. w'.msg = w.msg BY <1>1, <2>1 DEF WriterType
  <2> QED BY <1>1, <2>1, <2>2, NothingPromised
<1>5. CASE PaneGone
  <2>1. /\ w.pc = "pane" /\ Gone(p) /\ all_blocks' = Discarded(all_blocks, {p}) /\ Quiet
        /\ w' = [w EXCEPT !.pc = "flush", !.ret = "done"]
    BY <1>5 DEF PaneGone, At
  <2>2. p \in Panes /\ w.msg = <<>> /\ \A x \in ToSet(w.msg) : x[1] = p BY <2>1, MessageFacts
  <2>3. w'.msg = <<>> BY <1>1, <2>1, <2>2 DEF WriterType
  <2> HIDE DEF p
  <2>4. {p} \in SUBSET Panes /\ \A x \in ToSet(w.msg) : x[1] \in {p} BY <2>2
  <2>5. Promise!GiveUp({p}) BY <1>1, <2>1, <2>3, <2>4, DiscardsPromised
  <2> QED BY <2>4, <2>5, PromisedBy
<1>6. CASE PaneTooOld
  <2> DEFINE empty == <<>>
  <2>1. w.pc = "pane" /\ control_check_age(p) /\ w' = [w EXCEPT !.pc = "done", !.msg = empty]
    BY <1>6 DEF PaneTooOld, At
  <2>2. p \in Panes /\ \A x \in ToSet(w.msg) : x[1] = p BY <2>1, MessageFacts
  <2> HIDE DEF empty
  <2>3. w'.msg = empty BY <1>1, <2>1 DEF WriterType
  <2> HIDE DEF p
  <2> QED BY <1>1, <2>1, <2>2, <2>3, CheckAgePromised DEF empty
<1> QED BY <1>2, <1>3, <1>4, <1>5, <1>6

LEMMA MovesPromised ==
  ASSUME all_blocks \in Seq(Block), all_blocks' \in Seq(Block), NEW p \in Panes, NEW y, NEW D, NEW M,
         Moved(all_blocks', all_blocks, w.msg, w'.msg, y, D, M, p), Quiet
  PROVE  Promised
<1> DEFINE t == all_blocks'
           to == w'.msg
<1>1. all_blocks \in Seq(Block) /\ t \in Seq(Block) /\ Moved(t, all_blocks, w.msg, to, y, D, M, p) OBVIOUS
<1>2. Waiting' = Waits(t, to) /\ HeldUp' = Held(t, to) BY WaitingNext
<1> HIDE DEF t, to
<1>3. /\ Waits(t, to) = Waits(all_blocks, w.msg)
      /\ Held(all_blocks, w.msg) \subseteq Held(t, to)
      /\ Held(t, to) \ Held(all_blocks, w.msg)
            \subseteq {x \in Waits(all_blocks, w.msg) : x[1] = p} \X {x \in Waits(all_blocks, w.msg) : x[1] = Line}
  BY ONLY <1>1, WaitsMoved
<1>4. Promise!Overtake(p) BY <1>2, <1>3, WaitingIs, AsOvertake
<1> QED BY <1>4, PromisedBy

LEMMA AppendPromised ==
  ASSUME Always, Clean, control_append_data
  PROVE  Promised
<1>1. all_blocks \in Seq(Block) /\ lines \in Nat /\ BlockQueue(all_blocks, lines) /\ w \in WriterType
      /\ cp \in [Panes -> ControlPane]
  BY DEF Always, ControlTypes, Clean
<1>2. PICK p, i, cb, size : p = Head(w.walk) /\ cb = all_blocks[i] /\ AppendEffect(p, i, cb, size) BY AppendFacts
<1>3. /\ w.pc = "pane" /\ p \in Panes /\ i \in DOMAIN all_blocks /\ cb \in Block /\ cb \in ToSet(all_blocks) /\ BlockOf(cb, {p})
      /\ \A j \in DOMAIN all_blocks : BlockOf(all_blocks[j], {p}) => i <= j
      /\ size \in Int /\ size <= cb.size /\ (size >= 1 \/ cb.size < 1)
      /\ IF size = cb.size THEN all_blocks' = RemoveAt(all_blocks, i)
         ELSE all_blocks' = [all_blocks EXCEPT ![i] = Shrunk(cb, size)]
      /\ w'.msg = w.msg \o [k \in 1 .. size |-> <<p, cp[p].offset + k>>]
      /\ sent' = <<>> /\ lines' = lines
  BY <1>2 DEF AppendEffect
<1>4. cb.from = cp[p].offset + 1 /\ cb.size >= 1 BY <1>2, <1>3, OldestIs
<1>5. cb.size \in Int /\ cb.from \in Int /\ cb.of = p /\ size \in Nat /\ 1 <= size /\ 0 < size /\ p # Line
  <2>1. cb.size \in Int /\ cb.from \in Int BY <1>3 DEF Block
  <2>2. cb.of = p BY <1>3 DEF BlockOf
  <2> QED BY <1>3, <1>4, <2>1, <2>2, PanesAssumption
<1> DEFINE o == cp[p].offset
           M == {<<p, o + k>> : k \in 1 .. size}
           D == IF size = cb.size THEN {} ELSE {Shrunk(cb, size)}
           t == all_blocks'
<1>6. o \in Int BY <1>1, <1>3 DEF ControlPane
<1>7. ToSet(w'.msg) = ToSet(w.msg) \cup M
  <2> DEFINE piece == [k \in 1 .. size |-> <<p, o + k>>]
  <2>1. piece \in [1 .. size -> Panes \X Int]
    <3>1. \A k \in 1 .. size : o + k \in Int BY <1>5, <1>6
    <3> QED BY <1>3, <3>1
  <2>2. piece \in Seq(Panes \X Int) BY <1>5, <2>1, IntSeq
  <2>3. ToSet(piece) = M BY DEF ToSet
  <2>4. w.msg \in Seq(Panes \X Int) /\ w'.msg = w.msg \o piece BY <1>1, <1>3 DEF WriterType
  <2> HIDE DEF piece, M
  <2> QED BY <2>2, <2>3, <2>4, ConcatSet
<1>8. \A z : z \in Items(cb) <=> \E k \in Int : cb.from <= k /\ k < cb.from + cb.size /\ z = <<p, k>>
  BY <1>3, <1>5, ItemsAre
<1>9. \A z : z \in M <=> \E k \in Int : cb.from <= k /\ k < cb.from + size /\ z = <<p, k>>
  <2>1. ASSUME NEW z \in M PROVE \E k \in Int : cb.from <= k /\ k < cb.from + size /\ z = <<p, k>>
    <3>1. PICK k \in 1 .. size : z = <<p, o + k>> BY <2>1
    <3>2. o + k \in Int /\ cb.from <= o + k /\ o + k < cb.from + size BY <1>4, <1>5, <1>6
    <3> QED BY <3>1, <3>2
  <2>2. ASSUME NEW z, NEW k \in Int, cb.from <= k, k < cb.from + size, z = <<p, k>> PROVE z \in M
    <3>1. k - o \in 1 .. size /\ o + (k - o) = k BY <1>4, <1>5, <1>6, <2>2
    <3> QED BY <2>2, <3>1
  <2> HIDE DEF M
  <2> QED BY <2>1, <2>2
<1>10. \A z \in M : z[1] = p OBVIOUS
<1> HIDE DEF M
<1>11. lines \in Nat /\ BlockQueue(all_blocks, lines) /\ i \in DOMAIN all_blocks BY <1>1, <1>3
<1>12. CASE size = cb.size
  <2>1. /\ BlockQueue(RemoveAt(all_blocks, i), lines) /\ ToSet(RemoveAt(all_blocks, i)) = ToSet(all_blocks) \ {all_blocks[i]}
        /\ \A b, c : <<b, c>> \in Ahead(RemoveAt(all_blocks, i))
              <=> <<b, c>> \in Ahead(all_blocks) /\ b # all_blocks[i] /\ c # all_blocks[i]
    BY ONLY <1>11, BlocksRemoved
  <2>2. t = RemoveAt(all_blocks, i) /\ D = {} BY <1>3, <1>12
  <2> HIDE DEF t
  <2>3. t \in Seq(Block) /\ ToSet(t) = ToSet(all_blocks) \ {cb}
        /\ \A b, c : <<b, c>> \in Ahead(t) <=> <<b, c>> \in Ahead(all_blocks) /\ b # cb /\ c # cb
    BY <1>2, <2>1, <2>2 DEF BlockQueue
  <2>4. \A z : z \in Items(cb) <=> z \in M BY <1>8, <1>9, <1>12
  <2>5. Moved(t, all_blocks, w.msg, w'.msg, cb, D, M, p) BY <1>3, <1>5, <1>7, <1>10, <2>2, <2>3, <2>4 DEF Moved
  <2> QED BY <1>1, <1>3, <2>3, <2>5, MovesPromised DEF t, Quiet
<1>13. CASE size # cb.size
  <2> DEFINE x == Shrunk(cb, size)
  <2>1. all_blocks[i].of # Line /\ size < all_blocks[i].size BY <1>2, <1>3, <1>5, <1>13
  <2>2. /\ BlockQueue(ShrunkAt(all_blocks, i, size), lines)
        /\ ToSet(ShrunkAt(all_blocks, i, size)) = (ToSet(all_blocks) \ {all_blocks[i]}) \cup {Shrunk(all_blocks[i], size)}
        /\ Replaced(ShrunkAt(all_blocks, i, size), all_blocks, all_blocks[i], Shrunk(all_blocks[i], size))
    BY ONLY <1>5, <1>11, <2>1, BlocksShrunk
  <2>3. t = ShrunkAt(all_blocks, i, size) /\ D = {x} BY <1>2, <1>3, <1>13 DEF ShrunkAt
  <2>4. x \in Block /\ x.of = p /\ x.from = cb.from + size /\ x.size = cb.size - size BY <1>3, <1>5, ShrunkIs
  <2> HIDE DEF t
  <2>5. t \in Seq(Block) /\ ToSet(t) = (ToSet(all_blocks) \ {cb}) \cup {x} /\ Replaced(t, all_blocks, cb, x)
    BY <1>2, <2>2, <2>3 DEF BlockQueue
  <2> HIDE DEF x, D
  <2>6. \A z : z \in Items(x) <=> \E k \in Int : cb.from + size <= k /\ k < cb.from + cb.size /\ z = <<p, k>>
    <3>1. x.from + x.size = cb.from + cb.size BY <1>5, <2>4
    <3>2. \A z : z \in Items(x) <=> \E k \in Int : x.from <= k /\ k < x.from + x.size /\ z = <<x.of, k>>
      BY <1>5, <2>4, ItemsAre
    <3> QED BY <2>4, <3>1, <3>2
  <2>7. \A z : z \in Items(cb) <=> z \in M \/ z \in Items(x)
    <3>1. ASSUME NEW z \in Items(cb) PROVE z \in M \/ z \in Items(x)
      <4>1. PICK k \in Int : cb.from <= k /\ k < cb.from + cb.size /\ z = <<p, k>> BY <1>8
      <4>2. k < cb.from + size \/ cb.from + size <= k BY <1>5
      <4> QED BY <1>9, <2>6, <4>1, <4>2
    <3>2. ASSUME NEW z, z \in M \/ z \in Items(x) PROVE z \in Items(cb)
      <4>1. PICK k \in Int : cb.from <= k /\ k < cb.from + cb.size /\ z = <<p, k>>
        <5>1. CASE z \in M
          <6>1. PICK k \in Int : cb.from <= k /\ k < cb.from + size /\ z = <<p, k>> BY <1>9, <5>1
          <6>2. k < cb.from + cb.size BY <1>3, <1>5, <6>1
          <6> QED BY <6>1, <6>2
        <5>2. CASE z \in Items(x)
          <6>1. PICK k \in Int : cb.from + size <= k /\ k < cb.from + cb.size /\ z = <<p, k>> BY <2>6, <5>2
          <6>2. cb.from <= k BY <1>5, <6>1
          <6> QED BY <6>1, <6>2
        <5> QED BY <3>2, <5>1, <5>2
      <4> QED BY <1>8, <4>1
    <3> QED BY <3>1, <3>2
  <2>8. ASSUME NEW b, NEW c, <<b, c>> \in Ahead(t), c.of = Line
        PROVE  \E d : <<d, c>> \in Ahead(all_blocks) /\ \A z : z \in Items(b) => z \in Items(d)
    <3>1. c # x BY <1>5, <2>4, <2>8
    <3>2. PICK d : <<d, c>> \in Ahead(all_blocks) /\ b = (IF d = cb THEN x ELSE d) BY <2>5, <2>8, <3>1 DEF Replaced
    <3>3. \A z : z \in Items(b) => z \in Items(d) BY <2>7, <3>2
    <3> QED BY <3>2, <3>3
  <2>9. \A d, c : <<d, c>> \in Ahead(all_blocks) /\ c.of = Line => <<IF d = cb THEN x ELSE d, c>> \in Ahead(t)
    BY <1>5, <2>5 DEF Replaced
  <2>10. /\ \A d, c : <<d, c>> \in Ahead(all_blocks) /\ c.of = Line /\ d # cb => <<d, c>> \in Ahead(t)
         /\ \A c : <<cb, c>> \in Ahead(all_blocks) /\ c.of = Line => <<x, c>> \in Ahead(t)
    BY <2>9
  <2>11. Moved(t, all_blocks, w.msg, w'.msg, cb, D, M, p)
    <3>1. /\ ToSet(t) = (ToSet(all_blocks) \ {cb}) \cup D /\ ToSet(w'.msg) = ToSet(w.msg) \cup M
          /\ \A z : z \in Items(cb) <=> z \in M \/ \E b \in D : z \in Items(b)
          /\ \A b \in D : b.of # Line
      BY <1>5, <1>7, <2>3, <2>4, <2>5, <2>7
    <3> QED BY <1>3, <1>5, <1>10, <2>3, <2>8, <2>10, <3>1 DEF Moved
  <2> QED BY <1>1, <1>3, <2>5, <2>11, MovesPromised DEF t, Quiet
<1> QED BY <1>12, <1>13

LEMMA PromiseStep ==
  ASSUME Always, Clean, Next
  PROVE  Promise!Next
<1> SUFFICES Promise!Onward /\ Promised BY DEF Promise!Next, Promised
<1>1. ASSUME NEW p \in Panes, NEW k \in 1 .. 2, window_pane_read_callback(p, k) PROVE Promise!Onward /\ Promised
  BY <1>1, ReadOnward, ReadPromised
<1>2. ASSUME NEW p \in Panes, \/ control_set_pane_off(p) \/ control_set_pane_on(p)
                              \/ control_continue_pane(p) \/ control_pause_pane(p)
      PROVE  Promise!Onward /\ Promised
  BY <1>2, CommandsOnward, CommandsPromised
<1>3. CASE \/ Notify \/ \E p \in Panes : LinkWindow(p) \/ PaneDies(p) \/ PaneRespawns(p)
           \/ \E f \in {"NOOUTPUT", "PAUSEAFTER"} : server_client_set_flags(f)
           \/ \E error \in BOOLEAN : ClientExits(error)
           \/ TimePasses \/ write_error \/ server_client_loop
           \/ \E n \in 0 .. ev.out : write_ready(n)
  <2>1. Promise!Onward BY <1>3, OthersOnward
  <2>2. Promised BY <1>3, OutsidePromised
  <2> QED BY <2>1, <2>2
<1>4. CASE Writer
  <2>1. Promise!Onward BY <1>4, OthersOnward DEF Writer
  <2>2. Promised BY <1>4, FlushPromised, PiecesPromised, AppendPromised, WriteDataPromised DEF Writer
  <2> QED BY <2>1, <2>2
<1> QED BY <1>1, <1>2, <1>3, <1>4 DEF Next

LEMMA PromiseStart == Init => Promise!Init
<1> SUFFICES ASSUME Init PROVE Promise!Init OBVIOUS
<1>1. all_blocks = <<>> /\ w.msg = <<>> /\ lines = 0 /\ sent = <<>> BY DEF Init, NoWriter
<1>2. Waiting = {} /\ HeldUp = {} BY <1>1, WaitsNone, WaitingIs
<1>3. ~NoPane.exists BY DEF NoPane
<1>4. \A p \in Panes : cp[p] = NoPane /\ pane[p].offset = 0 BY DEF Init
<1>5. Newest = [p \in Panes |-> 0] BY <1>3, <1>4 DEF Newest
<1> QED BY <1>1, <1>2, <1>5 DEF Promise!Init

LEMMA NothingHappens ==
  UNCHANGED vars => UNCHANGED <<Waiting, HeldUp, Newest, lines, sent>>
  BY DEF vars, Waiting, HeldUp, Lines, Newest

LEMMA StepsUsable == Next => faults \subseteq Beyond
<1> SUFFICES ASSUME Next PROVE faults \subseteq Beyond OBVIOUS
<1>1. ASSUME NEW p \in Panes, \/ \E k \in 1 .. 2 : window_pane_read_callback(p, k)
                              \/ control_set_pane_off(p) \/ control_set_pane_on(p)
                              \/ control_continue_pane(p) \/ control_pause_pane(p)
                              \/ LinkWindow(p) \/ PaneDies(p) \/ PaneRespawns(p)
      PROVE  faults \subseteq Beyond
  BY <1>1 DEF window_pane_read_callback, control_set_pane_off, control_set_pane_on, control_continue_pane, control_pause_pane,
              LinkWindow, PaneDies, PaneRespawns, Command, Idle, Usable
<1>2. CASE \/ Notify \/ \E f \in {"NOOUTPUT", "PAUSEAFTER"} : server_client_set_flags(f)
           \/ \E error \in BOOLEAN : ClientExits(error)
           \/ TimePasses \/ write_error \/ server_client_loop \/ \E n \in 0 .. ev.out : write_ready(n)
  BY ZenonT(60), <1>2 DEF Notify, server_client_set_flags, ClientExits, TimePasses, write_error, server_client_loop, write_ready,
              Command, Idle, Usable
<1>3. CASE Writer
  BY <1>3 DEF Writer, control_flush_all_blocks, control_write_callback, NextPane, PaneGone, PaneTooOld,
              control_append_data, control_write_data, PaneDone, At, Usable
<1> QED BY <1>1, <1>2, <1>3 DEF Next

(* Until the first fault, control mode does only what is promised.         *)
THEOREM PromisedUntilFault ==
  Spec => Promise!Init /\ [][faults = {} => Promise!Next]_<<Waiting, HeldUp, Newest, lines, sent>>
<1>1. ControlInv /\ [Next]_vars => [faults = {} => Promise!Next]_<<Waiting, HeldUp, Newest, lines, sent>>
  <2> SUFFICES ASSUME ControlInv, [Next]_vars
               PROVE  [faults = {} => Promise!Next]_<<Waiting, HeldUp, Newest, lines, sent>>
    OBVIOUS
  <2>1. ASSUME Next, faults = {} PROVE Promise!Next BY <2>1, PromiseStep DEF ControlInv
  <2>2. ASSUME UNCHANGED vars PROVE UNCHANGED <<Waiting, HeldUp, Newest, lines, sent>> BY <2>2, NothingHappens
  <2> QED BY <2>1, <2>2
<1> QED BY <1>1, ControlInductive, PromiseStart, PTL DEF Spec

(* Without going on after a fault, control mode implements ControlPromise. *)
THEOREM ControlKeepsPromise ==
  ASSUME Beyond = {}
  PROVE  Spec => KeepsPromise
<1>1. ControlInv /\ [Next]_vars => [Promise!Next]_<<Waiting, HeldUp, Newest, lines, sent>>
  <2> SUFFICES ASSUME ControlInv, [Next]_vars
               PROVE  [Promise!Next]_<<Waiting, HeldUp, Newest, lines, sent>>
    OBVIOUS
  <2>1. ASSUME Next PROVE Promise!Next
    <3>1. faults = {} BY <2>1, StepsUsable
    <3> QED BY <2>1, <3>1, PromiseStep DEF ControlInv
  <2>2. ASSUME UNCHANGED vars PROVE UNCHANGED <<Waiting, HeldUp, Newest, lines, sent>> BY <2>2, NothingHappens
  <2> QED BY <2>1, <2>2
<1> QED BY <1>1, ControlInductive, PromiseStart, PTL DEF Spec, KeepsPromise, Promise!Spec
=============================================================================
