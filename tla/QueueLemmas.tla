---------------------------- MODULE QueueLemmas ----------------------------
(***************************************************************************)
(* What appending to a tail queue, removing its head and filtering it do   *)
(* to the set of its entries, to their being distinct and to how often an  *)
(* entry is there.                                                         *)
(***************************************************************************)
EXTENDS Filters, SequencesExt, SequenceTheorems, FiniteSetTheorems, WellFoundedInduction, TLAPS

(* An empty queue (tailq_init) has no entry and no duplicate.              *)
LEMMA EmptyQueue == ToSet(<<>>) = {} /\ IsInjective(<<>>)
  BY DEF ToSet, IsInjective

(* tailq_insert_tail adds the entry and nothing else.                      *)
LEMMA AppendSet ==
  ASSUME NEW S, NEW s \in Seq(S), NEW x \in S
  PROVE  ToSet(Append(s, x)) = ToSet(s) \cup {x}
<1>1. /\ Append(s, x) \in Seq(S) /\ Len(Append(s, x)) = Len(s) + 1
      /\ \A i \in 1 .. Len(s) : Append(s, x)[i] = s[i]
      /\ Append(s, x)[Len(s) + 1] = x
  BY AppendProperties
<1>2. DOMAIN s = 1 .. Len(s) /\ DOMAIN Append(s, x) = 1 .. Len(s) + 1
  BY <1>1, LenProperties
<1>3. Len(s) \in Nat
  BY LenProperties
<1>4. \A i \in 1 .. Len(s) + 1 : i \in 1 .. Len(s) \/ i = Len(s) + 1
  BY <1>3
<1>5. 1 .. Len(s) \subseteq 1 .. Len(s) + 1 /\ Len(s) + 1 \in 1 .. Len(s) + 1
  BY <1>3
<1> QED BY <1>1, <1>2, <1>4, <1>5 DEF ToSet

(* Appending an entry that is not in the queue keeps the entries distinct. *)
LEMMA AppendInjectiveSeq ==
  ASSUME NEW S, NEW s \in Seq(S), NEW x \in S,
         IsInjective(s), x \notin ToSet(s)
  PROVE  IsInjective(Append(s, x))
<1>1. /\ Append(s, x) \in Seq(S) /\ Len(Append(s, x)) = Len(s) + 1
      /\ \A i \in 1 .. Len(s) : Append(s, x)[i] = s[i]
      /\ Append(s, x)[Len(s) + 1] = x
  BY AppendProperties
<1>2. DOMAIN s = 1 .. Len(s) /\ DOMAIN Append(s, x) = 1 .. Len(s) + 1
  BY <1>1, LenProperties
<1>3. Len(s) \in Nat
  BY LenProperties
<1>4. \A i \in 1 .. Len(s) + 1 : i \in 1 .. Len(s) \/ i = Len(s) + 1
  BY <1>3
<1>5. \A i \in 1 .. Len(s) : s[i] # x
  BY <1>2 DEF ToSet
<1> QED BY <1>1, <1>2, <1>4, <1>5 DEF IsInjective

(* tailq_remove of the first entry takes that entry away.                  *)
LEMMA TailSet ==
  ASSUME NEW S, NEW s \in Seq(S), s # <<>>
  PROVE  /\ Head(s) \in ToSet(s) /\ Head(s) \in S
         /\ ToSet(s) = ToSet(Tail(s)) \cup {Head(s)}
<1>1. /\ Tail(s) \in Seq(S) /\ Len(Tail(s)) = Len(s) - 1
      /\ \A i \in 1 .. Len(Tail(s)) : Tail(s)[i] = s[i + 1]
      /\ Head(s) = s[1]
  BY HeadTailProperties
<1>2. DOMAIN s = 1 .. Len(s) /\ DOMAIN Tail(s) = 1 .. Len(s) - 1
  BY <1>1, LenProperties
<1>3. Len(s) \in Nat /\ Len(s) >= 1
  BY LenProperties, EmptySeq
<1>4. \A i \in 1 .. Len(s) : i = 1 \/ \E j \in 1 .. Len(s) - 1 : i = j + 1
  <2> TAKE i \in 1 .. Len(s)
  <2>1. CASE i = 1 BY <2>1
  <2>2. CASE i # 1
    <3>1. i - 1 \in 1 .. Len(s) - 1 /\ i = (i - 1) + 1
      BY <1>3, <2>2
    <3> QED BY <3>1
  <2> QED BY <2>1, <2>2
<1>5. 1 \in 1 .. Len(s) /\ \A j \in 1 .. Len(s) - 1 : j + 1 \in 1 .. Len(s)
  BY <1>3
<1>6. s[1] \in S
  BY <1>5, ElementOfSeq, <1>3
<1>7. ToSet(s) \subseteq ToSet(Tail(s)) \cup {Head(s)}
  <2> SUFFICES ASSUME NEW i \in 1 .. Len(s)
               PROVE  s[i] \in ToSet(Tail(s)) \cup {Head(s)}
    BY <1>2 DEF ToSet
  <2>1. CASE i = 1 BY <2>1, <1>1
  <2>2. CASE i # 1
    <3>1. PICK j \in 1 .. Len(s) - 1 : i = j + 1 BY <2>2, <1>4
    <3>2. s[i] = Tail(s)[j] BY <3>1, <1>1
    <3> QED BY <3>2, <1>2 DEF ToSet
  <2> QED BY <2>1, <2>2
<1>8. ToSet(Tail(s)) \cup {Head(s)} \subseteq ToSet(s)
  BY <1>1, <1>2, <1>5 DEF ToSet
<1> QED BY <1>1, <1>2, <1>5, <1>6, <1>7, <1>8 DEF ToSet

(* After that the entries are distinct and the one removed is gone.        *)
LEMMA TailInjective ==
  ASSUME NEW S, NEW s \in Seq(S), s # <<>>, IsInjective(s)
  PROVE  IsInjective(Tail(s)) /\ Head(s) \notin ToSet(Tail(s))
<1>1. /\ Tail(s) \in Seq(S) /\ Len(Tail(s)) = Len(s) - 1
      /\ \A i \in 1 .. Len(Tail(s)) : Tail(s)[i] = s[i + 1]
      /\ Head(s) = s[1]
  BY HeadTailProperties
<1>2. DOMAIN s = 1 .. Len(s) /\ DOMAIN Tail(s) = 1 .. Len(s) - 1
  BY <1>1, LenProperties
<1>3. Len(s) \in Nat /\ Len(s) >= 1
  BY LenProperties, EmptySeq
<1>4. 1 \in 1 .. Len(s) /\ \A j \in 1 .. Len(s) - 1 : j + 1 \in 1 .. Len(s)
  BY <1>3
<1>5. \A i, j \in 1 .. Len(s) : s[i] = s[j] => i = j
  BY <1>2 DEF IsInjective
<1>6. IsInjective(Tail(s))
  <2> SUFFICES ASSUME NEW i \in 1 .. Len(s) - 1, NEW j \in 1 .. Len(s) - 1,
                      Tail(s)[i] = Tail(s)[j]
               PROVE  i = j
    BY <1>2 DEF IsInjective
  <2>1. s[i + 1] = s[j + 1]
    BY <1>1
  <2>2. i + 1 = j + 1
    BY <2>1, <1>4, <1>5
  <2> QED BY <2>2, <1>3
<1>7. ASSUME NEW j \in 1 .. Len(s) - 1 PROVE Tail(s)[j] # Head(s)
  <2>1. j + 1 # 1 /\ j + 1 \in 1 .. Len(s)
    BY <1>4, <1>3
  <2>2. s[j + 1] # s[1]
    BY <2>1, <1>4, <1>5
  <2> QED BY <2>2, <1>1
<1> QED BY <1>2, <1>6, <1>7 DEF ToSet

(* The entries of a queue come from the set it ranges over.                *)
LEMMA SetOfQueue ==
  ASSUME NEW S, NEW s \in Seq(S)
  PROVE  ToSet(s) \subseteq S
BY LenProperties, ElementOfSeq DEF ToSet

(* The order on the naturals as a set of pairs.                            *)
LEMMA LessThan == \A x, y \in Nat : <<x, y>> \in OpToRel(<, Nat) <=> x < y
BY DEF OpToRel

(* Induction over the naturals, with a set in place of a predicate: a      *)
(* number outside the set would have a least one.                          *)
LEMMA NatSetInduction ==
  ASSUME NEW S, 0 \in S, \A n \in Nat : n \in S => n + 1 \in S
  PROVE  Nat \subseteq S
<1> DEFINE T == Nat \ S
           R == OpToRel(<, Nat)
<1> SUFFICES ASSUME T # {} PROVE FALSE OBVIOUS
<1>1. PICK x \in T : \A y \in T : ~(<<y, x>> \in R)
  <2> HIDE DEF R, T
  <2>1. IsWellFoundedOn(R, Nat) BY NatLessThanWellFounded DEF R
  <2>2. T \subseteq Nat BY DEF T
  <2> QED BY WFMin, <2>1, <2>2
<1>2. x \in Nat /\ x # 0 OBVIOUS
<1>3. x - 1 \in Nat /\ x - 1 < x /\ (x - 1) + 1 = x BY <1>2
<1>4. <<x - 1, x>> \in R BY <1>2, <1>3, LessThan
<1> QED BY <1>1, <1>3, <1>4

(* The recursive function that Only chooses exists, so it satisfies its    *)
(* equation: the functions up to n are extended by one.                    *)
LEMMA OnlyDefined ==
  ASSUME NEW T, NEW s \in Seq(T), NEW S
  PROVE  \E f : /\ Only(s, S) = f[Len(s)] /\ f[0] = <<>>
                /\ \A n \in 1 .. Len(s) :
                     f[n] = IF s[n] \in S THEN Append(f[n - 1], s[n]) ELSE f[n - 1]
<1> DEFINE Body(f, n) == IF n = 0 THEN <<>>
                         ELSE IF s[n] \in S THEN Append(f[n - 1], s[n]) ELSE f[n - 1]
           Upto(n) == {g \in [0 .. n -> Seq(T)] : \A i \in 0 .. n : g[i] = Body(g, i)}
           good == {n \in Nat : n <= Len(s) => Upto(n) # {}}
<1>1. Len(s) \in Nat /\ \A i \in 1 .. Len(s) : s[i] \in T BY LenProperties, ElementOfSeq
<1>2. 0 \in good
  <2>1. [i \in 0 .. 0 |-> <<>>] \in Upto(0) OBVIOUS
  <2> QED BY <2>1
<1>3. \A n \in Nat : n \in good => n + 1 \in good
  <2> SUFFICES ASSUME NEW n \in Nat, n \in good, n + 1 <= Len(s) PROVE Upto(n + 1) # {}
    <3> HIDE DEF Upto
    <3> QED OBVIOUS
  <2>0. Upto(n) # {}
    <3> HIDE DEF Upto
    <3> QED BY <1>1
  <2>1. PICK g : g \in Upto(n)
    <3> HIDE DEF Upto
    <3> QED BY <2>0
  <2> DEFINE h == [i \in 0 .. n + 1 |-> IF i = n + 1 THEN Body(g, n + 1) ELSE g[i]]
  <2>2. n + 1 \in 1 .. Len(s) /\ n \in 0 .. n /\ (n + 1) - 1 = n /\ n + 1 # 0 BY <1>1
  <2>3. Body(g, n + 1) \in Seq(T) BY <1>1, <2>1, <2>2
  <2>4. h \in [0 .. n + 1 -> Seq(T)]
    <3> HIDE DEF Body
    <3> QED BY <2>1, <2>3
  <2>5. ASSUME NEW i \in 0 .. n + 1 PROVE h[i] = Body(h, i)
    <3>1. CASE i = 0 BY <3>1, <2>1
    <3>2. CASE i = n + 1
      <4>1. h[i - 1] = g[i - 1] BY <3>2, <2>2
      <4>2. h[i] = Body(g, n + 1) BY <3>2
      <4> QED BY <3>2, <4>1, <4>2
    <3>3. CASE i \in 1 .. n
      <4>1. h[i - 1] = g[i - 1] /\ h[i] = g[i] BY <3>3
      <4>2. i \in 0 .. n BY <3>3
      <4> QED BY <4>1, <4>2, <2>1
    <3> QED BY <3>1, <3>2, <3>3
  <2> QED BY <2>4, <2>5
<1>4. PICK g : g \in Upto(Len(s))
  <2>1. Nat \subseteq good
    <3> HIDE DEF good
    <3> QED BY <1>2, <1>3, NatSetInduction
  <2> HIDE DEF Upto
  <2> QED BY <2>1, <1>1
<1> DEFINE only == CHOOSE f : f = [n \in 0 .. Len(s) |-> Body(f, n)]
<1>5. g = [n \in 0 .. Len(s) |-> Body(g, n)] BY ZenonT(60), <1>4
<1>6. only = [n \in 0 .. Len(s) |-> Body(only, n)] BY <1>5
<1>7. Only(s, S) = only[Len(s)] BY DEF Only
<1> HIDE DEF only
<1>8. only[0] = <<>> BY <1>6, <1>1
<1>9. \A n \in 1 .. Len(s) :
         only[n] = IF s[n] \in S THEN Append(only[n - 1], s[n]) ELSE only[n - 1]
  <2> TAKE n \in 1 .. Len(s)
  <2>1. n \in 0 .. Len(s) /\ n # 0 BY <1>1
  <2>2. only[n] = Body(only, n)
    <3> HIDE DEF Body
    <3> QED BY <2>1, <1>6
  <2> QED BY <2>1, <2>2
<1> QED BY <1>7, <1>8, <1>9

(* Filtering keeps exactly the entries that are in the set.                *)
LEMMA OnlySet ==
  ASSUME NEW T, NEW s \in Seq(T), NEW S
  PROVE  Only(s, S) \in Seq(T) /\ ToSet(Only(s, S)) = ToSet(s) \cap S
<1>1. PICK f : /\ Only(s, S) = f[Len(s)] /\ f[0] = <<>>
               /\ \A n \in 1 .. Len(s) :
                     f[n] = IF s[n] \in S THEN Append(f[n - 1], s[n]) ELSE f[n - 1]
  BY OnlyDefined
<1>2. Len(s) \in Nat /\ (\A i \in 1 .. Len(s) : s[i] \in T) /\ DOMAIN s = 1 .. Len(s)
  BY LenProperties, ElementOfSeq
<1> DEFINE Right(n) == f[n] \in Seq(T) /\ ToSet(f[n]) = {s[i] : i \in 1 .. n} \cap S
           good == {n \in Nat : n <= Len(s) => Right(n)}
<1>3. 0 \in good
  <2>1. 1 .. 0 = {} OBVIOUS
  <2>2. f[0] \in Seq(T) /\ ToSet(f[0]) = {s[i] : i \in 1 .. 0} \cap S BY <1>1, <2>1, EmptyQueue
  <2> QED BY <2>2
<1>4. \A n \in Nat : n \in good => n + 1 \in good
  <2> SUFFICES ASSUME NEW n \in Nat, n \in good, n + 1 <= Len(s)
               PROVE  Right(n + 1)
    <3> HIDE DEF Right
    <3> QED OBVIOUS
  <2>1. Right(n)
    <3> HIDE DEF Right
    <3> QED BY <1>2
  <2>2. n + 1 \in 1 .. Len(s) /\ (n + 1) - 1 = n BY <1>2
  <2>3. f[n + 1] = IF s[n + 1] \in S THEN Append(f[n], s[n + 1]) ELSE f[n] BY <1>1, <2>2
  <2>4. {s[i] : i \in 1 .. n + 1} = {s[i] : i \in 1 .. n} \cup {s[n + 1]}
    <3>1. \A i \in 1 .. n + 1 : i \in 1 .. n \/ i = n + 1 OBVIOUS
    <3>2. 1 .. n \subseteq 1 .. n + 1 /\ n + 1 \in 1 .. n + 1 OBVIOUS
    <3> QED BY <3>1, <3>2
  <2>5. CASE s[n + 1] \in S
    <3>1. f[n + 1] = Append(f[n], s[n + 1]) BY <2>5, <2>3
    <3>2. ToSet(f[n + 1]) = ToSet(f[n]) \cup {s[n + 1]} BY <3>1, <2>1, <2>2, <1>2, AppendSet
    <3>3. f[n + 1] \in Seq(T) BY <3>1, <2>1, <2>2, <1>2
    <3> QED BY <3>2, <3>3, <2>1, <2>4, <2>5
  <2>6. CASE s[n + 1] \notin S BY <2>6, <2>1, <2>3, <2>4
  <2> QED BY <2>5, <2>6
<1>5. Nat \subseteq good
  <2> HIDE DEF good
  <2> QED BY <1>3, <1>4, NatSetInduction
<1>6. Right(Len(s))
  <2> HIDE DEF Right
  <2> QED BY <1>5, <1>2
<1>7. ToSet(s) = {s[i] : i \in 1 .. Len(s)} BY <1>2 DEF ToSet
<1> QED BY <1>1, <1>6, <1>7

(* Filtering keeps the order: the entries that are left come from places   *)
(* that go up.                                                             *)
LEMMA OnlyOrder ==
  ASSUME NEW T, NEW s \in Seq(T), NEW S
  PROVE  \E g \in [1 .. Len(Only(s, S)) -> 1 .. Len(s)] :
            /\ \A i \in 1 .. Len(Only(s, S)) : Only(s, S)[i] = s[g[i]]
            /\ \A i, j \in 1 .. Len(Only(s, S)) : i < j => g[i] < g[j]
<1>1. PICK f : /\ Only(s, S) = f[Len(s)] /\ f[0] = <<>>
               /\ \A n \in 1 .. Len(s) :
                     f[n] = IF s[n] \in S THEN Append(f[n - 1], s[n]) ELSE f[n - 1]
  BY OnlyDefined
<1>2. Len(s) \in Nat /\ (\A i \in 1 .. Len(s) : s[i] \in T)
  BY LenProperties, ElementOfSeq
<1> DEFINE Map(g, n) == /\ g \in [1 .. Len(f[n]) -> 1 .. n]
                        /\ \A i \in 1 .. Len(f[n]) : f[n][i] = s[g[i]]
                        /\ \A i, j \in 1 .. Len(f[n]) : i < j => g[i] < g[j]
           Right(n) == f[n] \in Seq(T) /\ \E g : Map(g, n)
           good == {n \in Nat : n <= Len(s) => Right(n)}
<1>3. 0 \in good
  <2>1. f[0] \in Seq(T) /\ Len(f[0]) = 0 BY <1>1
  <2>2. Map([i \in 1 .. 0 |-> 0], 0) BY <2>1
  <2> HIDE DEF Map
  <2> QED BY <2>1, <2>2
<1>4. \A n \in Nat : n \in good => n + 1 \in good
  <2> SUFFICES ASSUME NEW n \in Nat, n \in good, n + 1 <= Len(s)
               PROVE  Right(n + 1)
    <3> HIDE DEF Right
    <3> QED OBVIOUS
  <2>1. Right(n)
    <3> HIDE DEF Right
    <3> QED BY <1>2
  <2>2. n + 1 \in 1 .. Len(s) /\ (n + 1) - 1 = n BY <1>2
  <2>3. f[n + 1] = IF s[n + 1] \in S THEN Append(f[n], s[n + 1]) ELSE f[n] BY <1>1, <2>2
  <2>4. f[n] \in Seq(T) /\ s[n + 1] \in T BY <2>1, <2>2, <1>2
  <2>5. PICK g : Map(g, n)
    <3> HIDE DEF Map
    <3> QED BY <2>1
  <2>6. CASE s[n + 1] \in S
    <3> DEFINE m == Len(f[n])
               h == [i \in 1 .. m + 1 |-> IF i = m + 1 THEN n + 1 ELSE g[i]]
    <3>1. /\ f[n + 1] \in Seq(T) /\ m \in Nat /\ Len(f[n + 1]) = m + 1
          /\ f[n + 1][m + 1] = s[n + 1]
          /\ \A i \in 1 .. m : f[n + 1][i] = f[n][i]
      BY <2>3, <2>4, <2>6, AppendProperties, LenProperties
    <3>2. /\ \A i \in 1 .. m : h[i] = g[i] /\ g[i] \in 1 .. n
          /\ h[m + 1] = n + 1
      <4>1. g \in [1 .. m -> 1 .. n] BY <2>5
      <4> HIDE DEF m
      <4>2. /\ \A i \in 1 .. m : i \in 1 .. m + 1 /\ i # m + 1
            /\ m + 1 \in 1 .. m + 1
        BY <3>1
      <4> QED BY <4>1, <4>2
    <3> HIDE DEF m
    <3>3. h \in [1 .. m + 1 -> 1 .. n + 1]
      <4>1. \A i \in 1 .. m + 1 : i = m + 1 \/ i \in 1 .. m BY <3>1
      <4>2. 1 .. n \subseteq 1 .. n + 1 /\ n + 1 \in 1 .. n + 1 OBVIOUS
      <4>3. ASSUME NEW i \in 1 .. m + 1 PROVE h[i] \in 1 .. n + 1
        <5> HIDE DEF h
        <5> QED BY <3>2, <4>1, <4>2
      <4> QED BY <4>3
    <3> HIDE DEF h
    <3>4. ASSUME NEW i \in 1 .. m + 1 PROVE f[n + 1][i] = s[h[i]]
      <4>1. CASE i = m + 1 BY <4>1, <3>1, <3>2
      <4>2. CASE i \in 1 .. m BY <4>2, <3>1, <3>2, <2>5 DEF m
      <4> QED BY <4>1, <4>2, <3>1
    <3>5. ASSUME NEW i \in 1 .. m + 1, NEW j \in 1 .. m + 1, i < j PROVE h[i] < h[j]
      <4>1. i \in 1 .. m BY <3>1, <3>5
      <4>2. CASE j = m + 1 BY <4>1, <4>2, <3>2
      <4>3. CASE j \in 1 .. m BY <4>1, <4>3, <3>2, <3>5, <2>5 DEF m
      <4> QED BY <4>2, <4>3, <3>1
    <3>6. Map(h, n + 1) BY <3>1, <3>3, <3>4, <3>5
    <3> HIDE DEF Map
    <3> QED BY <3>1, <3>6
  <2>7. CASE s[n + 1] \notin S
    <3>1. f[n + 1] = f[n] BY <2>3, <2>7
    <3>2. Map(g, n + 1) BY <3>1, <2>5
    <3> HIDE DEF Map
    <3> QED BY <3>1, <3>2, <2>4
  <2> QED BY <2>6, <2>7
<1>5. Nat \subseteq good
  <2> HIDE DEF good
  <2> QED BY <1>3, <1>4, NatSetInduction
<1>6. Right(Len(s))
  <2> HIDE DEF Right
  <2> QED BY <1>5, <1>2
<1> QED BY <1>1, <1>6

(* Appending a queue to another (tailq_concat) adds its entries.           *)
LEMMA ConcatSet ==
  ASSUME NEW S, NEW s \in Seq(S), NEW t \in Seq(S)
  PROVE  s \o t \in Seq(S) /\ ToSet(s \o t) = ToSet(s) \cup ToSet(t)
<1>1. /\ s \o t \in Seq(S) /\ Len(s \o t) = Len(s) + Len(t)
      /\ \A i \in 1 .. Len(s) + Len(t) :
            (s \o t)[i] = IF i <= Len(s) THEN s[i] ELSE t[i - Len(s)]
  BY ConcatProperties
<1>2. /\ DOMAIN s = 1 .. Len(s) /\ DOMAIN t = 1 .. Len(t)
      /\ DOMAIN (s \o t) = 1 .. Len(s) + Len(t) /\ Len(s) \in Nat /\ Len(t) \in Nat
  BY <1>1, LenProperties
<1>3. ASSUME NEW i \in 1 .. Len(s) + Len(t) PROVE (s \o t)[i] \in ToSet(s) \cup ToSet(t)
  <2>1. CASE i <= Len(s)
    <3>1. i \in 1 .. Len(s) /\ (s \o t)[i] = s[i] BY <2>1, <1>1, <1>2
    <3> QED BY <3>1, <1>2 DEF ToSet
  <2>2. CASE ~(i <= Len(s))
    <3>1. i - Len(s) \in 1 .. Len(t) /\ (s \o t)[i] = t[i - Len(s)] BY <2>2, <1>1, <1>2
    <3> QED BY <3>1, <1>2 DEF ToSet
  <2> QED BY <2>1, <2>2
<1>4. ASSUME NEW i \in 1 .. Len(s) PROVE s[i] \in ToSet(s \o t)
  <2>1. i \in 1 .. Len(s) + Len(t) /\ (s \o t)[i] = s[i] BY <1>1, <1>2
  <2> QED BY <2>1, <1>2 DEF ToSet
<1>5. ASSUME NEW i \in 1 .. Len(t) PROVE t[i] \in ToSet(s \o t)
  <2>1. /\ i + Len(s) \in 1 .. Len(s) + Len(t) /\ ~(i + Len(s) <= Len(s))
        /\ (i + Len(s)) - Len(s) = i
    BY <1>2
  <2>2. (s \o t)[i + Len(s)] = t[i] BY <2>1, <1>1
  <2> QED BY <2>1, <2>2, <1>2 DEF ToSet
<1> QED BY <1>1, <1>2, <1>3, <1>4, <1>5 DEF ToSet

-----------------------------------------------------------------------------
(* How often a queue holds an entry from X.                                *)
Where(s, X) == {i \in DOMAIN s : s[i] \in X}
Occurs(s, X) == Cardinality(Where(s, X))

(* Numbers moved up by k are as many.                                      *)
LEMMA Shifted ==
  ASSUME NEW S \in SUBSET Nat, IsFiniteSet(S), NEW k \in Nat
  PROVE  IsFiniteSet({i + k : i \in S}) /\ Cardinality({i + k : i \in S}) = Cardinality(S)
<1> DEFINE T == {i + k : i \in S}
           f == [i \in S |-> i + k]
<1>1. f \in [S -> T] /\ \A t \in T : \E i \in S : f[i] = t OBVIOUS
<1>2. \A i, j \in S : i + k = j + k => i = j OBVIOUS
<1>3. IsInjective(f) BY <1>2 DEF IsInjective
<1>4. f \in Bijection(S, T) BY <1>1, <1>3 DEF Bijection, Injection, Surjection
<1> HIDE DEF f, T
<1>5. ExistsBijection(S, T) BY <1>4 DEF ExistsBijection
<1> QED BY <1>5, FS_Bijection DEF T

LEMMA OccursType ==
  ASSUME NEW T, NEW s \in Seq(T), NEW X
  PROVE  IsFiniteSet(Where(s, X)) /\ Occurs(s, X) \in Nat /\ Where(s, X) \in SUBSET (1 .. Len(s))
<1>1. DOMAIN s = 1 .. Len(s) /\ Len(s) \in Nat BY LenProperties
<1>2. Where(s, X) \in SUBSET (1 .. Len(s)) BY <1>1 DEF Where
<1>3. IsFiniteSet(1 .. Len(s)) BY <1>1, FS_Interval
<1>4. IsFiniteSet(Where(s, X)) BY <1>2, <1>3, FS_Subset
<1> QED BY <1>2, <1>4, FS_CardinalityType DEF Occurs

LEMMA OccursEmpty ==
  ASSUME NEW X
  PROVE  Occurs(<<>>, X) = 0
<1>1. Where(<<>>, X) = {} BY DEF Where
<1> QED BY <1>1, FS_EmptySet DEF Occurs

LEMMA OccursNone ==
  ASSUME NEW T, NEW s \in Seq(T), NEW X
  PROVE  Occurs(s, X) = 0 <=> \A x \in ToSet(s) : x \notin X
<1>1. Occurs(s, X) = 0 <=> Where(s, X) = {} BY OccursType, FS_EmptySet DEF Occurs
<1> QED BY <1>1 DEF Where, ToSet

LEMMA OccursOne ==
  ASSUME NEW x, NEW X
  PROVE  Occurs(<<x>>, X) = IF x \in X THEN 1 ELSE 0
<1>1. DOMAIN <<x>> = {1} /\ <<x>>[1] = x OBVIOUS
<1>2. CASE x \in X
  <2>1. Where(<<x>>, X) = {1} BY <1>1, <1>2 DEF Where
  <2> QED BY <1>2, <2>1, FS_Singleton DEF Occurs
<1>3. CASE x \notin X
  <2>1. Where(<<x>>, X) = {} BY <1>1, <1>3 DEF Where
  <2> QED BY <1>3, <2>1, FS_EmptySet DEF Occurs
<1> QED BY <1>2, <1>3

LEMMA DisjointSum ==
  ASSUME NEW A, NEW B, IsFiniteSet(A), IsFiniteSet(B), A \cap B = {}
  PROVE  IsFiniteSet(A \cup B) /\ Cardinality(A \cup B) = Cardinality(A) + Cardinality(B)
<1>1. Cardinality(A \cap B) = 0 BY FS_EmptySet
<1>2. Cardinality(A) \in Nat /\ Cardinality(B) \in Nat BY FS_CardinalityType
<1>3. /\ IsFiniteSet(A \cup B)
      /\ Cardinality(A \cup B) = Cardinality(A) + Cardinality(B) - Cardinality(A \cap B)
  BY FS_Union
<1> QED BY <1>1, <1>2, <1>3

LEMMA OccursConcat ==
  ASSUME NEW T, NEW s \in Seq(T), NEW t \in Seq(T), NEW X
  PROVE  Occurs(s \o t, X) = Occurs(s, X) + Occurs(t, X)
<1> DEFINE A == Where(s, X)
           B == {i + Len(s) : i \in Where(t, X)}
<1>1. /\ s \o t \in Seq(T) /\ Len(s \o t) = Len(s) + Len(t)
      /\ \A i \in 1 .. Len(s) + Len(t) :
            (s \o t)[i] = IF i <= Len(s) THEN s[i] ELSE t[i - Len(s)]
  BY ConcatProperties
<1>2. /\ DOMAIN s = 1 .. Len(s) /\ DOMAIN t = 1 .. Len(t)
      /\ DOMAIN (s \o t) = 1 .. Len(s) + Len(t) /\ Len(s) \in Nat /\ Len(t) \in Nat
  BY <1>1, LenProperties
<1>3. /\ A \in SUBSET (1 .. Len(s)) /\ Where(t, X) \in SUBSET (1 .. Len(t))
      /\ IsFiniteSet(A) /\ IsFiniteSet(Where(t, X))
  BY OccursType
<1>4. Where(s \o t, X) = A \cup B
  <2>1. ASSUME NEW i \in Where(s \o t, X) PROVE i \in A \cup B
    <3>1. i \in 1 .. Len(s) + Len(t) /\ (s \o t)[i] \in X BY <1>2 DEF Where
    <3>2. CASE i <= Len(s)
      <4>1. i \in 1 .. Len(s) /\ s[i] \in X BY <3>1, <3>2, <1>1, <1>2
      <4> QED BY <4>1, <1>2 DEF Where
    <3>3. CASE ~(i <= Len(s))
      <4>1. i - Len(s) \in 1 .. Len(t) /\ t[i - Len(s)] \in X /\ i = (i - Len(s)) + Len(s)
        BY <3>1, <3>3, <1>1, <1>2
      <4>2. i - Len(s) \in Where(t, X) BY <4>1, <1>2 DEF Where
      <4> QED BY <4>1, <4>2
    <3> QED BY <3>2, <3>3
  <2>2. ASSUME NEW i \in A PROVE i \in Where(s \o t, X)
    <3>1. i \in 1 .. Len(s) /\ s[i] \in X BY <1>2 DEF Where
    <3>2. i \in 1 .. Len(s) + Len(t) /\ (s \o t)[i] = s[i] BY <3>1, <1>1, <1>2
    <3> QED BY <3>1, <3>2, <1>2 DEF Where
  <2>3. ASSUME NEW i \in Where(t, X) PROVE i + Len(s) \in Where(s \o t, X)
    <3>1. i \in 1 .. Len(t) /\ t[i] \in X BY <1>2 DEF Where
    <3>2. /\ i + Len(s) \in 1 .. Len(s) + Len(t) /\ ~(i + Len(s) <= Len(s))
          /\ (i + Len(s)) - Len(s) = i
      BY <3>1, <1>2
    <3>3. (s \o t)[i + Len(s)] = t[i] BY <3>2, <1>1
    <3> QED BY <3>1, <3>2, <3>3, <1>2 DEF Where
  <2> QED BY <2>1, <2>2, <2>3
<1>5. A \cap B = {}
  <2> SUFFICES ASSUME NEW i \in Where(t, X) PROVE i + Len(s) \notin A OBVIOUS
  <2>1. i \in 1 .. Len(t) BY <1>3
  <2>2. i + Len(s) \notin 1 .. Len(s) BY <2>1, <1>2
  <2> QED BY <2>2, <1>3
<1>6. IsFiniteSet(B) /\ Cardinality(B) = Cardinality(Where(t, X))
  <2>1. Where(t, X) \in SUBSET Nat BY <1>2, <1>3
  <2> QED BY <2>1, <1>2, <1>3, Shifted
<1> HIDE DEF A, B
<1>7. Cardinality(A \cup B) = Cardinality(A) + Cardinality(B) BY <1>3, <1>5, <1>6, DisjointSum
<1> QED BY <1>4, <1>6, <1>7 DEF Occurs, A

LEMMA OccursAppend ==
  ASSUME NEW T, NEW s \in Seq(T), NEW x \in T, NEW X
  PROVE  Occurs(Append(s, x), X) = Occurs(s, X) + IF x \in X THEN 1 ELSE 0
<1>1. <<x>> \in Seq(T) OBVIOUS
<1>2. Append(s, x) = s \o <<x>> BY AppendIsConcat
<1>3. \A a, b \in Seq(T) : Occurs(a \o b, X) = Occurs(a, X) + Occurs(b, X) BY OccursConcat
<1> QED BY ZenonT(60), <1>1, <1>2, <1>3, OccursOne

LEMMA OccursTail ==
  ASSUME NEW T, NEW s \in Seq(T), s # <<>>, NEW X
  PROVE  Occurs(s, X) = Occurs(Tail(s), X) + IF Head(s) \in X THEN 1 ELSE 0
<1> DEFINE A == Where(s, X) \cap {1}
           B == {i + 1 : i \in Where(Tail(s), X)}
<1>1. /\ Tail(s) \in Seq(T) /\ Len(Tail(s)) = Len(s) - 1
      /\ \A i \in 1 .. Len(Tail(s)) : Tail(s)[i] = s[i + 1]
      /\ Head(s) = s[1]
  BY HeadTailProperties
<1>2. DOMAIN s = 1 .. Len(s) /\ DOMAIN Tail(s) = 1 .. Len(s) - 1 /\ Len(s) \in Nat /\ Len(s) >= 1
  BY <1>1, LenProperties, EmptySeq
<1>3. Where(s, X) = A \cup B
  <2>1. ASSUME NEW i \in Where(s, X), i # 1 PROVE i \in B
    <3>1. i \in 1 .. Len(s) /\ s[i] \in X BY <1>2 DEF Where
    <3>2. i - 1 \in 1 .. Len(s) - 1 /\ (i - 1) + 1 = i BY <2>1, <3>1, <1>2
    <3>3. Tail(s)[i - 1] = s[i] BY <3>2, <1>1
    <3>4. i - 1 \in Where(Tail(s), X) BY <3>1, <3>2, <3>3, <1>2 DEF Where
    <3> QED BY <3>2, <3>4
  <2>2. ASSUME NEW i \in Where(Tail(s), X) PROVE i + 1 \in Where(s, X)
    <3>1. i \in 1 .. Len(s) - 1 /\ Tail(s)[i] \in X BY <1>2 DEF Where
    <3>2. i + 1 \in 1 .. Len(s) /\ s[i + 1] = Tail(s)[i] BY <3>1, <1>1, <1>2
    <3> QED BY <3>1, <3>2, <1>2 DEF Where
  <2> QED BY <2>1, <2>2
<1>4. Where(Tail(s), X) \in SUBSET (1 .. Len(s) - 1) /\ IsFiniteSet(Where(Tail(s), X))
  BY <1>1, OccursType
<1>5. A \cap B = {}
  <2> SUFFICES ASSUME NEW i \in Where(Tail(s), X) PROVE i + 1 # 1 OBVIOUS
  <2>1. i \in 1 .. Len(s) - 1 BY <1>4
  <2> QED BY <2>1, <1>2
<1>6. IsFiniteSet(B) /\ Cardinality(B) = Cardinality(Where(Tail(s), X))
  <2>1. Where(Tail(s), X) \in SUBSET Nat BY <1>2, <1>4
  <2> QED BY <2>1, <1>4, Shifted
<1>7. IsFiniteSet(A) /\ Cardinality(A) = IF Head(s) \in X THEN 1 ELSE 0
  <2>1. 1 \in Where(s, X) <=> Head(s) \in X BY <1>1, <1>2 DEF Where
  <2>2. CASE Head(s) \in X
    <3>1. A = {1} BY <2>1, <2>2
    <3> QED BY <2>2, <3>1, FS_Singleton
  <2>3. CASE Head(s) \notin X
    <3>1. A = {} BY <2>1, <2>3
    <3> QED BY <2>3, <3>1, FS_EmptySet
  <2> QED BY <2>2, <2>3
<1> HIDE DEF A, B
<1>8. Cardinality(A \cup B) = Cardinality(A) + Cardinality(B) BY <1>5, <1>6, <1>7, DisjointSum
<1>9. Cardinality(B) \in Nat BY <1>6, FS_CardinalityType
<1> QED BY <1>3, <1>6, <1>7, <1>8, <1>9 DEF Occurs

(* Filtering keeps the occurrences of what is in the set.                  *)
LEMMA OccursOnly ==
  ASSUME NEW T, NEW s \in Seq(T), NEW S, NEW X
  PROVE  Occurs(Only(s, S), X) = Occurs(s, X \cap S)
<1>1. PICK f : /\ Only(s, S) = f[Len(s)] /\ f[0] = <<>>
               /\ \A n \in 1 .. Len(s) :
                     f[n] = IF s[n] \in S THEN Append(f[n - 1], s[n]) ELSE f[n - 1]
  BY OnlyDefined
<1>2. Len(s) \in Nat /\ (\A i \in 1 .. Len(s) : s[i] \in T) /\ DOMAIN s = 1 .. Len(s)
  BY LenProperties, ElementOfSeq
<1> DEFINE P(n) == {i \in 1 .. n : s[i] \in X \cap S}
           Right(n) == f[n] \in Seq(T) /\ IsFiniteSet(P(n)) /\ Occurs(f[n], X) = Cardinality(P(n))
           good == {n \in Nat : n <= Len(s) => Right(n)}
<1>3. 0 \in good
  <2>1. P(0) = {} OBVIOUS
  <2>2. f[0] \in Seq(T) /\ Occurs(f[0], X) = 0 BY <1>1, OccursEmpty
  <2> HIDE DEF P
  <2> QED BY <2>1, <2>2, FS_EmptySet
<1>4. \A n \in Nat : n \in good => n + 1 \in good
  <2> SUFFICES ASSUME NEW n \in Nat, n \in good, n + 1 <= Len(s)
               PROVE  Right(n + 1)
    <3> HIDE DEF Right
    <3> QED OBVIOUS
  <2>1. Right(n)
    <3> HIDE DEF Right
    <3> QED BY <1>2
  <2>2. n + 1 \in 1 .. Len(s) /\ (n + 1) - 1 = n BY <1>2
  <2>3. f[n + 1] = IF s[n + 1] \in S THEN Append(f[n], s[n + 1]) ELSE f[n] BY <1>1, <2>2
  <2>4. f[n] \in Seq(T) /\ s[n + 1] \in T BY <2>1, <2>2, <1>2
  <2>5. \A i \in 1 .. n + 1 : i \in 1 .. n \/ i = n + 1 OBVIOUS
  <2>6. 1 .. n \subseteq 1 .. n + 1 /\ n + 1 \in 1 .. n + 1 /\ n + 1 \notin 1 .. n OBVIOUS
  <2>7. P(n + 1) = P(n) \cup IF s[n + 1] \in X \cap S THEN {n + 1} ELSE {}
    BY <2>5, <2>6
  <2>8. n + 1 \notin P(n) BY <2>6
  <2>9. Cardinality(P(n)) \in Nat
    <3> HIDE DEF P
    <3> QED BY <2>1, FS_CardinalityType
  <2> HIDE DEF P
  <2>10. /\ IsFiniteSet(P(n + 1))
         /\ Cardinality(P(n + 1)) = Cardinality(P(n)) + IF s[n + 1] \in X \cap S THEN 1 ELSE 0
    <3>1. CASE s[n + 1] \in X \cap S
      <4>1. P(n + 1) = P(n) \cup {n + 1} BY <3>1, <2>7
      <4> QED BY <3>1, <4>1, <2>1, <2>8, <2>9, FS_AddElement
    <3>2. CASE s[n + 1] \notin X \cap S
      <4>1. P(n + 1) = P(n) BY <3>2, <2>7
      <4> QED BY <3>2, <4>1, <2>1, <2>9
    <3> QED BY <3>1, <3>2
  <2>11. CASE s[n + 1] \in S
    <3>1. f[n + 1] = Append(f[n], s[n + 1]) BY <2>11, <2>3
    <3>2. f[n + 1] \in Seq(T) BY <3>1, <2>4
    <3>3. Occurs(f[n + 1], X) = Occurs(f[n], X) + IF s[n + 1] \in X THEN 1 ELSE 0
      BY <3>1, <2>4, OccursAppend
    <3> QED BY <3>2, <3>3, <2>1, <2>10, <2>11
  <2>12. CASE s[n + 1] \notin S BY <2>12, <2>1, <2>3, <2>9, <2>10
  <2> QED BY <2>11, <2>12
<1>5. Nat \subseteq good
  <2> HIDE DEF good
  <2> QED BY <1>3, <1>4, NatSetInduction
<1>6. Right(Len(s))
  <2> HIDE DEF Right
  <2> QED BY <1>5, <1>2
<1>7. P(Len(s)) = Where(s, X \cap S) BY <1>2 DEF Where
<1> QED BY <1>1, <1>6, <1>7 DEF Occurs

(* What is kept and what is removed make up the queue.                     *)
LEMMA OccursSplit ==
  ASSUME NEW T, NEW s \in Seq(T), NEW S, NEW R, NEW X,
         \A x \in ToSet(s) : (x \in S) # (x \in R)
  PROVE  Occurs(s, X) = Occurs(Only(s, S), X) + Occurs(Only(s, R), X)
<1> DEFINE A == Where(s, X \cap S)
           B == Where(s, X \cap R)
<1>1. \A i \in DOMAIN s : s[i] \in ToSet(s) BY DEF ToSet
<1>2. Where(s, X) = A \cup B /\ A \cap B = {} BY <1>1 DEF Where
<1>3. IsFiniteSet(A) /\ IsFiniteSet(B) BY OccursType
<1> HIDE DEF A, B
<1>4. Cardinality(A \cup B) = Cardinality(A) + Cardinality(B) BY <1>2, <1>3, DisjointSum
<1>5. \A Y : Occurs(Only(s, Y), X) = Occurs(s, X \cap Y) BY OccursOnly
<1> QED BY <1>2, <1>4, <1>5 DEF Occurs, A, B

-----------------------------------------------------------------------------
(* The order of the entries of a queue: an entry from A is in it; nothing  *)
(* from B comes after one from A; one from A comes before any from B.      *)
Among(q, A) == \E i \in DOMAIN q : q[i] \in A
Bars(q, A, B) == \A i, j \in DOMAIN q : i < j /\ q[i] \in A => q[j] \notin B
Precedes(q, A, B) == \A j \in DOMAIN q : q[j] \in B => \E i \in DOMAIN q : i < j /\ q[i] \in A

LEMMA OrderEmpty ==
  ASSUME NEW A, NEW B
  PROVE  ~Among(<<>>, A) /\ Bars(<<>>, A, B) /\ Precedes(<<>>, A, B)
  BY DEF Among, Bars, Precedes

LEMMA OrderOne ==
  ASSUME NEW x, NEW A, NEW B
  PROVE  (Among(<<x>>, A) <=> x \in A) /\ Bars(<<x>>, A, B)
  BY DEF Among, Bars

(* What does not occur stops nothing.                                      *)
LEMMA OrderNone ==
  ASSUME NEW q, NEW A, NEW B, ~Among(q, A) \/ ~Among(q, B)
  PROVE  Bars(q, A, B) /\ (~Among(q, B) => Precedes(q, A, B))
  BY DEF Among, Bars, Precedes

(* Entries are added at the end.                                           *)
LEMMA OrderConcat ==
  ASSUME NEW T, NEW q \in Seq(T), NEW r \in Seq(T)
  PROVE  /\ q \o r \in Seq(T)
         /\ \A A : Among(q \o r, A) <=> Among(q, A) \/ Among(r, A)
         /\ \A A, B : Bars(q, A, B) /\ Bars(r, A, B) /\ (~Among(q, A) \/ ~Among(r, B)) => Bars(q \o r, A, B)
         /\ \A A, B : Precedes(q, A, B) /\ (Among(q, A) \/ ~Among(r, B)) => Precedes(q \o r, A, B)
<1> DEFINE z == q \o r
<1>1. /\ z \in Seq(T) /\ Len(z) = Len(q) + Len(r)
      /\ \A i \in 1 .. Len(q) + Len(r) : z[i] = IF i <= Len(q) THEN q[i] ELSE r[i - Len(q)]
  BY ConcatProperties
<1>2. /\ DOMAIN q = 1 .. Len(q) /\ DOMAIN r = 1 .. Len(r) /\ DOMAIN z = 1 .. Len(q) + Len(r)
      /\ Len(q) \in Nat /\ Len(r) \in Nat
  BY <1>1, LenProperties
<1> HIDE DEF z
<1>3. \A i \in DOMAIN q : i \in DOMAIN z /\ z[i] = q[i] BY <1>1, <1>2
<1>4. \A i \in DOMAIN r : i + Len(q) \in DOMAIN z /\ z[i + Len(q)] = r[i] BY <1>1, <1>2
<1>5. \A i \in DOMAIN z : i \in DOMAIN q \/ i - Len(q) \in DOMAIN r BY <1>2
<1>6. \A i \in DOMAIN z : (i \in DOMAIN q /\ z[i] = q[i]) \/ (i - Len(q) \in DOMAIN r /\ z[i] = r[i - Len(q)] /\ i > Len(q))
  BY <1>1, <1>2
<1>7. ASSUME NEW A PROVE Among(z, A) <=> Among(q, A) \/ Among(r, A)
  <2>1. Among(q, A) => Among(z, A) BY <1>3 DEF Among
  <2>2. Among(r, A) => Among(z, A) BY <1>4 DEF Among
  <2>3. Among(z, A) => Among(q, A) \/ Among(r, A) BY <1>6 DEF Among
  <2> QED BY <2>1, <2>2, <2>3
<1>8. ASSUME NEW A, NEW B, Bars(q, A, B), Bars(r, A, B), ~Among(q, A) \/ ~Among(r, B)
      PROVE  Bars(z, A, B)
  <2> SUFFICES ASSUME NEW i \in DOMAIN z, NEW j \in DOMAIN z, i < j, z[i] \in A PROVE z[j] \notin B
    BY DEF Bars
  <2>0. i \in Int /\ j \in Int BY <1>2
  <2>1. CASE j \in DOMAIN q
    <3>1. i \in DOMAIN q BY <2>0, <2>1, <1>2
    <3> QED BY <3>1, <2>1, <1>3, <1>8 DEF Bars
  <2>2. CASE j - Len(q) \in DOMAIN r /\ z[j] = r[j - Len(q)]
    <3>1. CASE i \in DOMAIN q /\ z[i] = q[i] BY <3>1, <2>2, <1>8 DEF Among
    <3>2. CASE i - Len(q) \in DOMAIN r /\ z[i] = r[i - Len(q)]
      <4>1. i - Len(q) < j - Len(q) BY <2>0, <1>2
      <4> QED BY <4>1, <3>2, <2>2, <1>8 DEF Bars
    <3> QED BY <3>1, <3>2, <1>6
  <2> QED BY <2>1, <2>2, <1>6
<1>9. ASSUME NEW A, NEW B, Precedes(q, A, B), Among(q, A) \/ ~Among(r, B)
      PROVE  Precedes(z, A, B)
  <2> SUFFICES ASSUME NEW j \in DOMAIN z, z[j] \in B PROVE \E i \in DOMAIN z : i < j /\ z[i] \in A
    BY DEF Precedes
  <2>1. CASE j \in DOMAIN q /\ z[j] = q[j]
    <3>1. PICK i \in DOMAIN q : i < j /\ q[i] \in A BY <2>1, <1>9 DEF Precedes
    <3> QED BY <3>1, <1>3
  <2>2. CASE j - Len(q) \in DOMAIN r /\ z[j] = r[j - Len(q)] /\ j > Len(q)
    <3>1. PICK i \in DOMAIN q : q[i] \in A BY <2>2, <1>9 DEF Among
    <3>2. i < j BY <3>1, <2>2, <1>2
    <3> QED BY <3>1, <3>2, <1>3
  <2> QED BY <2>1, <2>2, <1>6
<1> QED BY <1>1, <1>7, <1>8, <1>9 DEF z

(* The first entry is taken.                                               *)
LEMMA OrderTail ==
  ASSUME NEW T, NEW q \in Seq(T), q # <<>>
  PROVE  /\ Head(q) \in T /\ Tail(q) \in Seq(T)
         /\ \A A : Among(q, A) <=> Head(q) \in A \/ Among(Tail(q), A)
         /\ \A A, B : Bars(q, A, B) => Bars(Tail(q), A, B) /\ (Head(q) \in A => ~Among(Tail(q), B))
         /\ \A A, B : Precedes(q, A, B) /\ Head(q) \notin A => Head(q) \notin B /\ Precedes(Tail(q), A, B)
<1> DEFINE z == Tail(q)
           x == Head(q)
<1>1. /\ x \in T /\ z \in Seq(T) /\ Len(z) = Len(q) - 1
      /\ \A i \in 1 .. Len(z) : z[i] = q[i + 1]
      /\ x = q[1]
  BY HeadTailProperties
<1>2. /\ DOMAIN q = 1 .. Len(q) /\ DOMAIN z = 1 .. Len(q) - 1
      /\ Len(q) \in Nat /\ Len(q) > 0
  BY <1>1, LenProperties, EmptySeq
<1> HIDE DEF z, x
<1>3. \A i \in DOMAIN z : i + 1 \in DOMAIN q /\ z[i] = q[i + 1] BY <1>1, <1>2
<1>4. \A i \in DOMAIN q : (i = 1 /\ q[i] = x) \/ (i > 1 /\ i - 1 \in DOMAIN z /\ q[i] = z[i - 1]) BY <1>1, <1>2
<1>5. 1 \in DOMAIN q BY <1>2
<1>6. ASSUME NEW A PROVE Among(q, A) <=> x \in A \/ Among(z, A)
  <2>1. Among(z, A) => Among(q, A) BY <1>3 DEF Among
  <2>2. x \in A => Among(q, A) BY <1>1, <1>5 DEF Among
  <2>3. Among(q, A) => x \in A \/ Among(z, A) BY <1>4 DEF Among
  <2> QED BY <2>1, <2>2, <2>3
<1>7. ASSUME NEW A, NEW B, Bars(q, A, B) PROVE Bars(z, A, B) /\ (x \in A => ~Among(z, B))
  <2>1. ASSUME NEW i \in DOMAIN z, NEW j \in DOMAIN z, i < j, z[i] \in A PROVE z[j] \notin B
    <3>1. i + 1 < j + 1 BY <2>1, <1>2
    <3> QED BY <3>1, <2>1, <1>3, <1>7 DEF Bars
  <2>2. ASSUME x \in A, NEW j \in DOMAIN z PROVE z[j] \notin B
    <3>1. 1 < j + 1 BY <1>2
    <3> QED BY <3>1, <2>2, <1>1, <1>3, <1>5, <1>7 DEF Bars
  <2> QED BY <2>1, <2>2 DEF Bars, Among
<1>8. ASSUME NEW A, NEW B, Precedes(q, A, B), x \notin A PROVE x \notin B /\ Precedes(z, A, B)
  <2>1. x \notin B
    <3>1. \A i \in DOMAIN q : ~(i < 1) BY <1>2
    <3> QED BY <3>1, <1>1, <1>5, <1>8 DEF Precedes
  <2>2. ASSUME NEW j \in DOMAIN z, z[j] \in B PROVE \E i \in DOMAIN z : i < j /\ z[i] \in A
    <3>1. PICK i \in DOMAIN q : i < j + 1 /\ q[i] \in A BY <2>2, <1>3, <1>8 DEF Precedes
    <3>2. i - 1 \in DOMAIN z /\ z[i - 1] = q[i] BY <3>1, <1>4, <1>8
    <3>3. i - 1 < j BY <3>1, <1>2
    <3> QED BY <3>1, <3>2, <3>3
  <2> QED BY <2>1, <2>2 DEF Precedes
<1> QED BY <1>1, <1>6, <1>7, <1>8 DEF z, x
=============================================================================
