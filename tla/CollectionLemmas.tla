-------------------------- MODULE CollectionLemmas --------------------------
(***************************************************************************)
(* Facts about finite sets, about queues without repetitions and about     *)
(* loops that the proofs of several components need.                       *)
(***************************************************************************)
EXTENDS Integers, Sequences, SequencesExt, FiniteSetTheorems, SequenceTheorems,
        WellFoundedInduction, TLAPS

----------------------------------------------------------------------------
(* Cardinalities.                                                          *)

AtMostOne(new, S) == new = {} \/ \E u : u \notin S /\ new = {u}

LEMMA CardAdded ==
    ASSUME NEW S, IsFiniteSet(S), NEW new, AtMostOne(new, S)
    PROVE  /\ IsFiniteSet(S \cup new) /\ Cardinality(new) \in Nat
           /\ Cardinality(S \cup new) = Cardinality(S) + Cardinality(new)
<1>1. CASE new = {}
  <2>1. S \cup new = S
    BY <1>1
  <2>. QED
    BY <1>1, <2>1, FS_EmptySet, FS_CardinalityType
<1>2. ASSUME NEW u, u \notin S, new = {u}
      PROVE  /\ IsFiniteSet(S \cup new) /\ Cardinality(new) \in Nat
             /\ Cardinality(S \cup new) = Cardinality(S) + Cardinality(new)
  <2>1. Cardinality(new) = 1
    BY <1>2, FS_Singleton
  <2>. QED
    BY <1>2, <2>1, FS_AddElement
<1>. QED
  BY <1>1, <1>2 DEF AtMostOne

LEMMA CardReplaced ==
    ASSUME NEW S, IsFiniteSet(S), NEW t \in S, NEW new, AtMostOne(new, S)
    PROVE  /\ Cardinality(new) \in Nat /\ Cardinality(S) \in Nat
           /\ Cardinality((S \ {t}) \cup new)
                = Cardinality(S) - 1 + Cardinality(new)
<1>1. /\ IsFiniteSet(S \ {t}) /\ Cardinality(S \ {t}) = Cardinality(S) - 1
      /\ Cardinality(S) \in Nat
  BY FS_RemoveElement, FS_CardinalityType
<1>2. AtMostOne(new, S \ {t})
  BY DEF AtMostOne
<1>3. Cardinality((S \ {t}) \cup new) = Cardinality(S \ {t}) + Cardinality(new)
  BY <1>1, <1>2, CardAdded
<1>4. Cardinality(new) \in Nat
  BY CardAdded
<1>. QED
  BY <1>1, <1>3, <1>4

LEMMA CardMember ==
    ASSUME NEW S, NEW r
    PROVE  Cardinality(S \cap {r}) = IF r \in S THEN 1 ELSE 0
<1>1. CASE r \in S
  <2>1. S \cap {r} = {r}
    BY <1>1
  <2>. QED
    BY <1>1, <2>1, FS_Singleton
<1>2. CASE r \notin S
  <2>1. S \cap {r} = {}
    BY <1>2
  <2>. QED
    BY <1>2, <2>1, FS_EmptySet
<1>. QED
  BY <1>1, <1>2

\* Each set of natural numbers has a least one.
LEMMA LeastMember ==
    ASSUME NEW S \in SUBSET Nat, S # {}
    PROVE  \E i \in S : \A j \in S : i <= j
<1> DEFINE R == OpToRel(<, Nat)
<1>1. IsWellFoundedOn(R, Nat)
  BY NatLessThanWellFounded
<1>2. \A m, n \in Nat : m < n => <<m, n>> \in R
  BY DEF OpToRel
<1>. HIDE DEF R
<1>3. PICK i \in S : \A j \in S : ~ (<<j, i>> \in R)
  <2>1. S \subseteq Nat /\ S # {}
    OBVIOUS
  <2>. QED
    BY <1>1, <2>1, WFMin, Zenon
<1>4. ASSUME NEW j \in S PROVE i <= j
  <2>1. i \in Nat /\ j \in Nat /\ ~(j < i)
    BY <1>2, <1>3
  <2>. QED
    BY <2>1
<1>. QED
  BY <1>4

----------------------------------------------------------------------------
(* Queues without repetitions: how each operation changes what they hold.  *)

\* RemoveAt drops one element and moves the later ones up by one.
LEMMA QueueRemoveAt ==
    ASSUME NEW S, NEW s \in Seq(S), NEW i \in 1..Len(s)
    PROVE  /\ RemoveAt(s, i) \in Seq(S)
           /\ Len(RemoveAt(s, i)) = Len(s) - 1
           /\ \A j \in 1..(Len(s) - 1) :
                 RemoveAt(s, i)[j] = IF j < i THEN s[j] ELSE s[j + 1]
<1> DEFINE a == SubSeq(s, 1, i - 1)
           b == SubSeq(s, i + 1, Len(s))
<1>1. /\ a \in Seq(S)
      /\ Len(a) = i - 1
      /\ \A j \in 1..(i - 1) : a[j] = s[j]
  <2>1. \A j \in 1..(i - 1) : s[j] \in S
    BY ElementOfSeq
  <2>. QED
    BY <2>1, SubSeqProperties, LenProperties
<1>2. /\ b \in Seq(S)
      /\ Len(b) = Len(s) - i
      /\ \A j \in 1..(Len(s) - i) : b[j] = s[i + j]
  <2>1. \A j \in (i + 1)..Len(s) : s[j] \in S
    BY ElementOfSeq, LenProperties
  <2>. QED
    BY <2>1, SubSeqProperties, LenProperties
<1>3. RemoveAt(s, i) = a \o b
  BY DEF RemoveAt
<1>. HIDE DEF a, b
<1>4. Len(s) \in Nat
  BY LenProperties
<1>5. /\ a \o b \in Seq(S)
      /\ Len(a \o b) = Len(s) - 1
      /\ \A j \in 1..(Len(s) - 1) :
            (a \o b)[j] = IF j <= i - 1 THEN a[j] ELSE b[j - (i - 1)]
  <2>1. /\ a \o b \in Seq(S)
        /\ Len(a \o b) = Len(a) + Len(b)
        /\ \A j \in 1..(Len(a) + Len(b)) :
              (a \o b)[j] = IF j <= Len(a) THEN a[j] ELSE b[j - Len(a)]
    BY <1>1, <1>2, ConcatProperties
  <2>2. Len(a) = i - 1 /\ Len(a) + Len(b) = Len(s) - 1
    BY <1>1, <1>2, <1>4
  <2>. QED
    BY <2>1, <2>2
<1>6. \A j \in 1..(Len(s) - 1) : (a \o b)[j] = IF j < i THEN s[j] ELSE s[j + 1]
  BY <1>1, <1>2, <1>4, <1>5
<1>. QED
  BY <1>3, <1>5, <1>6

\* Removing an element of a queue without repetitions removes it for good.
LEMMA QueueLeft ==
    ASSUME NEW S, NEW s \in Seq(S), IsInjective(s), NEW i \in 1..Len(s)
    PROVE  /\ IsInjective(RemoveAt(s, i))
           /\ Range(RemoveAt(s, i)) = Range(s) \ {s[i]}
<1> DEFINE q == RemoveAt(s, i)
<1>1. /\ q \in Seq(S)
      /\ Len(q) = Len(s) - 1
      /\ \A j \in 1..(Len(s) - 1) : q[j] = IF j < i THEN s[j] ELSE s[j + 1]
  BY QueueRemoveAt
<1>. HIDE DEF q
<1>2. /\ DOMAIN s = 1..Len(s)
      /\ DOMAIN q = 1..(Len(s) - 1)
      /\ Len(s) \in Nat
  BY <1>1, LenProperties
<1>3. \A j, k \in 1..Len(s) : s[j] = s[k] => j = k
  BY <1>2 DEF IsInjective
<1>4. IsInjective(q)
  BY <1>1, <1>2, <1>3 DEF IsInjective
<1>5. Range(q) \subseteq Range(s) \ {s[i]}
  BY <1>1, <1>2, <1>3 DEF Range
<1>6. \A j \in 1..Len(s) : j # i => s[j] \in Range(q)
  <2>. SUFFICES ASSUME NEW j \in 1..Len(s), j # i
                PROVE  \E k \in 1..(Len(s) - 1) : q[k] = s[j]
    BY <1>2 DEF Range
  <2>1. CASE j < i
    <3>. j \in 1..(Len(s) - 1) /\ q[j] = s[j]
      BY <1>1, <1>2, <2>1
    <3>. QED OBVIOUS
  <2>2. CASE j > i
    <3>. j - 1 \in 1..(Len(s) - 1) /\ q[j - 1] = s[j]
      BY <1>1, <1>2, <2>2
    <3>. QED OBVIOUS
  <2>. QED BY <2>1, <2>2, <1>2
<1>7. Range(s) \ {s[i]} \subseteq Range(q)
  BY <1>2, <1>6 DEF Range
<1>. QED
  BY <1>4, <1>5, <1>7 DEF q

\* Tail is the removal of the head.
LEMMA QueueTail ==
    ASSUME NEW S, NEW s \in Seq(S), s # <<>>
    PROVE  /\ Tail(s) = RemoveAt(s, 1)
           /\ Head(s) = s[1]
           /\ 1 \in 1..Len(s)
<1>1. Len(s) \in Nat \ {0}
  BY EmptySeq
<1>2. Tail(s) \in Seq(S) /\ Len(Tail(s)) = Len(s) - 1
      /\ \A j \in 1..(Len(s) - 1) : Tail(s)[j] = s[j + 1]
  BY HeadTailProperties
<1>3. RemoveAt(s, 1) \in Seq(S) /\ Len(RemoveAt(s, 1)) = Len(s) - 1
      /\ \A j \in 1..(Len(s) - 1) : RemoveAt(s, 1)[j] = s[j + 1]
  BY <1>1, QueueRemoveAt
<1>4. Tail(s) = RemoveAt(s, 1)
  BY <1>1, <1>2, <1>3, SeqEqual
<1>. QED
  BY <1>1, <1>4

\* The head is served.
LEMMA QueueServed ==
    ASSUME NEW S, NEW s \in Seq(S), IsInjective(s), s # <<>>
    PROVE  /\ Tail(s) \in Seq(S) /\ Len(Tail(s)) = Len(s) - 1
           /\ IsInjective(Tail(s))
           /\ Head(s) \in Range(s)
           /\ Range(Tail(s)) = Range(s) \ {Head(s)}
<1>1. Tail(s) = RemoveAt(s, 1) /\ Head(s) = s[1] /\ 1 \in 1..Len(s)
  BY QueueTail
<1>2. RemoveAt(s, 1) \in Seq(S) /\ Len(RemoveAt(s, 1)) = Len(s) - 1
  BY <1>1, QueueRemoveAt
<1>3. IsInjective(RemoveAt(s, 1)) /\ Range(RemoveAt(s, 1)) = Range(s) \ {s[1]}
  BY <1>1, QueueLeft
<1>4. s[1] \in Range(s)
  BY <1>1, LenProperties DEF Range
<1>. QED
  BY <1>1, <1>2, <1>3, <1>4

\* A newcomer joins at the end.
LEMMA QueueJoined ==
    ASSUME NEW S, NEW s \in Seq(S), IsInjective(s), NEW e \in S, e \notin Range(s)
    PROVE  /\ Append(s, e) \in Seq(S)
           /\ Len(Append(s, e)) = Len(s) + 1
           /\ IsInjective(Append(s, e))
           /\ Range(Append(s, e)) = Range(s) \cup {e}
<1> DEFINE q == Append(s, e)
<1>1. /\ q \in Seq(S)
      /\ Len(q) = Len(s) + 1
      /\ \A j \in 1..Len(s) : q[j] = s[j]
      /\ q[Len(s) + 1] = e
      /\ Len(s) \in Nat
  BY LenProperties
<1>. HIDE DEF q
<1>2. DOMAIN s = 1..Len(s) /\ DOMAIN q = 1..(Len(s) + 1)
  BY <1>1, LenProperties
<1>3. IsInjective(q)
  BY <1>1, <1>2 DEF IsInjective, Range
<1>4. Range(q) = Range(s) \cup {e}
  <2>1. Range(q) \subseteq Range(s) \cup {e}
    BY <1>1, <1>2 DEF Range
  <2>2. Range(s) \subseteq Range(q)
    BY <1>1, <1>2 DEF Range
  <2>3. e \in Range(q)
    BY <1>1, <1>2 DEF Range
  <2>. QED BY <2>1, <2>2, <2>3
<1>5. q = Append(s, e)
  BY DEF q
<1>. QED
  BY <1>1, <1>3, <1>4, <1>5

\* A newcomer is put in front.
LEMMA QueueJumped ==
    ASSUME NEW S, NEW s \in Seq(S), IsInjective(s), NEW e \in S, e \notin Range(s)
    PROVE  /\ <<e>> \o s \in Seq(S)
           /\ IsInjective(<<e>> \o s)
           /\ Range(<<e>> \o s) = Range(s) \cup {e}
<1> DEFINE q == <<e>> \o s
<1>1. /\ q \in Seq(S)
      /\ Len(q) = Len(s) + 1
      /\ q[1] = e
      /\ \A j \in 1..Len(s) : q[j + 1] = s[j]
      /\ \A j \in 2..(Len(s) + 1) : q[j] = s[j - 1]
      /\ Len(s) \in Nat
  <2>1. <<e>> \in Seq(S) /\ Len(<<e>>) = 1 /\ <<e>>[1] = e
    OBVIOUS
  <2>2. /\ q \in Seq(S)
        /\ Len(q) = 1 + Len(s)
        /\ \A i \in 1..(1 + Len(s)) : q[i] = IF i <= 1 THEN <<e>>[i] ELSE s[i - 1]
    BY <2>1, ConcatProperties
  <2>3. Len(s) \in Nat
    BY LenProperties
  <2>. HIDE DEF q
  <2>. QED
    BY <2>1, <2>2, <2>3
<1>. HIDE DEF q
<1>2. DOMAIN s = 1..Len(s) /\ DOMAIN q = 1..(Len(s) + 1)
  BY <1>1, LenProperties
<1>3. ASSUME NEW j \in DOMAIN q, NEW k \in DOMAIN q, q[j] = q[k] PROVE j = k
  <2>1. \A i \in 2..(Len(s) + 1) : i - 1 \in DOMAIN s /\ q[i] \in Range(s)
    <3>1. ASSUME NEW i \in 2..(Len(s) + 1) PROVE i - 1 \in DOMAIN s /\ q[i] = s[i - 1]
      BY <1>1, <1>2
    <3>. QED
      BY <3>1 DEF Range
  <2>2. CASE j = 1 \/ k = 1
    BY <1>1, <1>2, <1>3, <2>1, <2>2
  <2>3. CASE j # 1 /\ k # 1
    <3>1. j - 1 \in DOMAIN s /\ k - 1 \in DOMAIN s /\ s[j - 1] = s[k - 1]
      BY <1>1, <1>2, <1>3, <2>1, <2>3
    <3>2. j - 1 = k - 1
      BY <3>1 DEF IsInjective
    <3>. QED
      BY <1>2, <3>2
  <2>. QED
    BY <2>2, <2>3
<1>4. Range(q) = Range(s) \cup {e}
  <2>1. ASSUME NEW i \in DOMAIN q PROVE q[i] \in Range(s) \cup {e}
    <3>1. CASE i = 1
      BY <1>1, <3>1
    <3>2. CASE i # 1
      <4>. i - 1 \in DOMAIN s /\ q[i] = s[i - 1]
        BY <1>1, <1>2, <3>2
      <4>. QED
        BY DEF Range
    <3>. QED
      BY <3>1, <3>2
  <2>2. Range(s) \subseteq Range(q)
    BY <1>1, <1>2 DEF Range
  <2>3. e \in Range(q)
    BY <1>1, <1>2 DEF Range
  <2>. QED
    BY <2>1, <2>2, <2>3 DEF Range
<1>5. IsInjective(q)
  BY <1>3 DEF IsInjective
<1>. QED
  BY <1>1, <1>4, <1>5 DEF q

\* A queue without repetitions is as long as what it holds is many.
LEMMA QueueCardinality ==
    ASSUME NEW S, NEW s \in Seq(S), IsInjective(s)
    PROVE  IsFiniteSet(Range(s)) /\ Cardinality(Range(s)) = Len(s)
<1>1. /\ DOMAIN s = 1..Len(s) /\ Len(s) \in Nat
      /\ s = [i \in DOMAIN s |-> s[i]]
  BY LenProperties
<1>2. s \in [1..Len(s) -> Range(s)]
  BY <1>1 DEF Range
<1>3. \A i, j \in 1..Len(s) : s[i] = s[j] => i = j
  BY <1>1 DEF IsInjective
<1>4. \A x \in Range(s) : \E i \in 1..Len(s) : s[i] = x
  BY <1>1 DEF Range
<1>5. s \in Bijection(1..Len(s), Range(s))
  BY <1>2, <1>3, <1>4 DEF Bijection, Injection, Surjection
<1>6. ExistsBijection(1..Len(s), Range(s))
  BY <1>5 DEF ExistsBijection
<1>7. IsFiniteSet(1..Len(s))
  <2>. 1 \in Int /\ Len(s) \in Int
    BY <1>1
  <2>. QED
    BY FS_Interval
<1>. QED
  BY <1>1, <1>6, <1>7, FS_Bijection, FS_CountingElements

----------------------------------------------------------------------------
(* Loops: functions defined by a recursion on the number of the turn.      *)

\* A sequence that starts with a and applies F again and again.
Turns(F, n, S) == F \in [S \X (1..n) -> S]

Repeats(g, a, F, n) == \A i \in 0..n : g[i] = IF i = 0 THEN a ELSE F[<<g[i - 1], i>>]

LEMMA Iterated ==
    ASSUME NEW S, NEW a \in S, NEW n \in Nat, NEW F, Turns(F, n, S)
    PROVE  \E g \in [0..n -> S] : Repeats(g, a, F, n)
<1>. F \in [S \X (1..n) -> S]
  BY DEF Turns
<1> DEFINE After(g, i) == IF i = 0 THEN a ELSE F[<<g[i - 1], i>>]
           Good(g, m) == g \in [0..m -> S] /\ \A i \in 0..m : g[i] = After(g, i)
           Bad == {m \in 0..n : ~ \E g : Good(g, m)}
<1>1. Bad = {}
  <2>. SUFFICES ASSUME Bad # {} PROVE FALSE
    OBVIOUS
  <2>1. PICK m \in Bad : \A l \in Bad : m <= l
    <3>. Bad \in SUBSET Nat
      OBVIOUS
    <3>. HIDE DEF Bad
    <3>. QED BY LeastMember
  <2>2. CASE m = 0
    <3> DEFINE g == [i \in 0..0 |-> a]
    <3>1. Good(g, 0)
      OBVIOUS
    <3>. QED
      BY <2>2, <3>1
  <2>3. CASE m # 0
    <3>1. m \in 1..n /\ m - 1 \in 0..n /\ m - 1 \notin Bad
      <4>1. m \in 1..n /\ m - 1 \in 0..n /\ ~(m <= m - 1)
        BY <2>1, <2>3
      <4>. HIDE DEF Bad
      <4>. QED
        BY <2>1, <4>1
    <3>2. PICK f : Good(f, m - 1)
      BY <3>1
    <3> DEFINE g == [i \in 0..m |-> IF i = m THEN F[<<f[m - 1], m>>] ELSE f[i]]
    <3>3. f[m - 1] \in S /\ F[<<f[m - 1], m>>] \in S
      BY <3>1, <3>2
    <3>4. /\ g \in [0..m -> S]
          /\ \A i \in 0..(m - 1) : g[i] = f[i]
          /\ g[m] = F[<<f[m - 1], m>>]
      BY <3>1, <3>2, <3>3
    <3>. HIDE DEF g
    <3>5. ASSUME NEW i \in 0..m PROVE g[i] = After(g, i)
      <4>1. CASE i = m
        <5>1. g[m - 1] = f[m - 1] /\ m # 0
          BY <3>1, <3>4
        <5>. QED
          BY <3>4, <4>1, <5>1
      <4>2. CASE i # m
        <5>1. i \in 0..(m - 1)
          BY <3>1, <4>2
        <5>2. f[i] = After(f, i) /\ g[i] = f[i]
          BY <3>2, <3>4, <5>1
        <5>3. i # 0 => i - 1 \in 0..(m - 1)
          BY <3>1, <5>1
        <5>. QED
          BY <3>4, <5>2, <5>3
      <4>. QED
        BY <4>1, <4>2
    <3>6. Good(g, m)
      BY <3>4, <3>5
    <3>. QED
      BY <2>1, <3>6
  <2>. QED
    BY <2>2, <2>3
<1>2. n \in 0..n /\ n \notin Bad
  <2>1. n \in 0..n
    OBVIOUS
  <2>. QED
    BY <1>1, <2>1
<1>3. PICK g : Good(g, n)
  BY <1>2
<1>. QED
  BY <1>3 DEF Repeats

\* What holds at first and is kept by each turn holds after all of them.
LEMMA KeptByTurns ==
    ASSUME NEW n \in Nat, NEW g, NEW P, g[0] \in P,
           \A i \in 1..n : g[i - 1] \in P => g[i] \in P
    PROVE  \A i \in 0..n : g[i] \in P
<1> DEFINE Bad == {i \in 0..n : g[i] \notin P}
<1>. SUFFICES ASSUME Bad # {} PROVE FALSE
  OBVIOUS
<1>1. PICK i \in Bad : \A j \in Bad : i <= j
  <2>. Bad \in SUBSET Nat
    OBVIOUS
  <2>. HIDE DEF Bad
  <2>. QED BY LeastMember
<1>2. i \in 1..n /\ g[i] \notin P /\ i - 1 \in 0..n
  OBVIOUS
<1>3. g[i - 1] \in P
  <2>1. ~(i <= i - 1)
    BY <1>2
  <2>2. i - 1 \notin Bad
    <3>. HIDE DEF Bad
    <3>. QED BY <1>1, <2>1
  <2>. QED
    BY <1>2, <2>2
<1>. QED
  BY <1>2, <1>3
=============================================================================
