-------------------------- MODULE SharedDictProofs --------------------------
(***************************************************************************)
(* Proofs about an lua_shared_dict zone, for any keys, values, capacity,   *)
(* clocks and number of workers.  With the calls of SharedDict: the zone   *)
(* stays consistent, and who may evict whom.  With those of RestyLock: the *)
(* lock excludes, and the references its objects hold are sound.  The      *)
(* lemmas on the operators of ShdictCore serve both; L bounds the times of *)
(* expiry.                                                                 *)
(***************************************************************************)
EXTENDS SharedDict, RestyLock, CollectionLemmas

----------------------------------------------------------------------------
(* Sums over a finite set, and functions defined by a recursion on it.     *)

LEMMA SmallestSubset ==
    ASSUME NEW S, IsFiniteSet(S), NEW B, B \subseteq SUBSET S, B # {}
    PROVE  \E s \in B : \A t \in B : Cardinality(s) <= Cardinality(t)
<1> DEFINE C == {Cardinality(s) : s \in B}
<1>1. \A s \in B : Cardinality(s) \in Nat
  BY FS_Subset, FS_CardinalityType
<1>2. C \in SUBSET Nat /\ C # {}
  BY <1>1
<1>3. PICK i \in C : \A j \in C : i <= j
  <2>. HIDE DEF C
  <2>. QED BY <1>2, LeastMember
<1>4. PICK s \in B : i = Cardinality(s)
  OBVIOUS
<1>. QED
  BY <1>3, <1>4

First(s) == CHOOSE x \in s : TRUE

\* g is the recursive function by which MapThenSumSet sums h over S.
Sums(g, h, S) ==
    g = [s \in SUBSET S |-> IF s = {} THEN 0 ELSE h[First(s)] + g[s \ {First(s)}]]

LEMMA LessFirst ==
    ASSUME NEW S, IsFiniteSet(S), NEW s \in SUBSET S, s # {}
    PROVE  /\ First(s) \in s /\ s \ {First(s)} \in SUBSET S
           /\ Cardinality(s) \in Nat /\ Cardinality(s) > 0
           /\ Cardinality(s \ {First(s)}) = Cardinality(s) - 1
<1>1. IsFiniteSet(s) /\ Cardinality(s) \in Nat
  BY FS_Subset, FS_CardinalityType
<1>2. First(s) \in s
  BY DEF First
<1>3. Cardinality(s \ {First(s)}) = Cardinality(s) - 1
  BY <1>1, <1>2, FS_RemoveElement
<1>4. Cardinality(s) > 0
  BY <1>1, FS_EmptySet
<1>. QED
  BY <1>1, <1>2, <1>3, <1>4

LEMMA SumExists ==
    ASSUME NEW S, IsFiniteSet(S), NEW h \in [S -> Nat]
    PROVE  \E g \in [SUBSET S -> Nat] : Sums(g, h, S)
<1> DEFINE Up(n) == {s \in SUBSET S : Cardinality(s) <= n}
           After(g, s) == IF s = {} THEN 0 ELSE h[First(s)] + g[s \ {First(s)}]
           Good(g, n) == g \in [Up(n) -> Nat] /\ \A s \in Up(n) : g[s] = After(g, s)
           Bad == {n \in Nat : ~ \E g : Good(g, n)}
<1>1. \A s \in SUBSET S : Cardinality(s) \in Nat /\ (Cardinality(s) = 0 <=> s = {})
  BY FS_Subset, FS_CardinalityType, FS_EmptySet
<1>2. Bad = {}
  <2>. SUFFICES ASSUME Bad # {} PROVE FALSE
    OBVIOUS
  <2>1. PICK n \in Bad : \A m \in Bad : n <= m
    <3>. Bad \in SUBSET Nat
      OBVIOUS
    <3>. HIDE DEF Bad
    <3>. QED BY LeastMember
  <2>2. CASE n = 0
    <3> DEFINE g == [s \in Up(0) |-> 0]
    <3>1. \A s \in Up(0) : s = {}
      BY <1>1
    <3>2. Good(g, 0)
      BY <3>1
    <3>. QED
      BY <2>2, <3>2
  <2>3. CASE n # 0
    <3>1. n \in Nat /\ n - 1 \in Nat /\ n - 1 \notin Bad
      <4>1. n \in Nat /\ n - 1 \in Nat /\ ~(n <= n - 1)
        BY <2>1, <2>3
      <4>. HIDE DEF Bad
      <4>. QED
        BY <2>1, <4>1
    <3>2. PICK f : Good(f, n - 1)
      BY <3>1
    <3> DEFINE g == [s \in Up(n) |-> After(f, s)]
    <3>3. ASSUME NEW s \in Up(n), s # {}
          PROVE  s \ {First(s)} \in Up(n - 1) /\ First(s) \in S
      BY <1>1, <3>1, <3>3, LessFirst
    <3>4. \A s \in Up(n) : After(f, s) \in Nat
      BY <3>2, <3>3
    <3>5. g \in [Up(n) -> Nat]
      BY <3>4
    <3>6. ASSUME NEW s \in Up(n), s # {} PROVE g[s \ {First(s)}] = f[s \ {First(s)}]
      <4> DEFINE r == s \ {First(s)}
      <4>1. r \in Up(n - 1) /\ r \in Up(n)
        BY <1>1, <3>1, <3>3, <3>6
      <4>2. g[r] = After(f, r)
        BY <4>1
      <4>3. f[r] = After(f, r)
        BY <3>2, <4>1
      <4>. QED
        BY <4>2, <4>3
    <3>7. \A s \in Up(n) : g[s] = After(g, s)
      <4>1. \A s \in Up(n) : After(f, s) = After(g, s)
        <5>. HIDE DEF g
        <5>. QED BY <3>6
      <4>2. \A s \in Up(n) : g[s] = After(f, s)
        OBVIOUS
      <4>. QED
        BY <4>1, <4>2, Zenon
    <3>. HIDE DEF g
    <3>8. Good(g, n)
      BY <3>5, <3>7
    <3>. QED
      BY <2>1, <3>8
  <2>. QED
    BY <2>2, <2>3
<1>3. PICK g : Good(g, Cardinality(S))
  BY <1>1, <1>2
<1>4. Up(Cardinality(S)) = SUBSET S
  BY FS_Subset
<1>5. g \in [SUBSET S -> Nat] /\ \A s \in SUBSET S : g[s] = After(g, s)
  BY <1>3, <1>4
<1>. QED
  BY <1>5 DEF Sums

AgreeBut(u, h, S, k) == \A j \in S : j # k => u[j] = h[j]
ShiftedBy(f, g, S, k, d) ==
    \A s \in SUBSET S : f[s] = g[s] + (IF k \in S /\ k \in s THEN d ELSE 0)

\* Sums that differ in one place.
LEMMA SumChanged ==
    ASSUME NEW S, IsFiniteSet(S), NEW h \in [S -> Nat], NEW u \in [S -> Nat],
           NEW k, AgreeBut(u, h, S, k), NEW g, Sums(g, h, S), NEW f, Sums(f, u, S),
           g \in [SUBSET S -> Nat], f \in [SUBSET S -> Nat]
    PROVE  ShiftedBy(f, g, S, k, u[k] - h[k])
<1> DEFINE OK(s) == f[s] = g[s] + (IF k \in S /\ k \in s THEN u[k] - h[k] ELSE 0)
           Bad == {s \in SUBSET S : ~OK(s)}
<1>. SUFFICES ASSUME Bad # {} PROVE FALSE
  BY DEF ShiftedBy
<1>1. PICK s \in Bad : \A t \in Bad : Cardinality(s) <= Cardinality(t)
  <2>. Bad \subseteq SUBSET S
    OBVIOUS
  <2>. HIDE DEF Bad
  <2>. QED BY SmallestSubset
<1>2. s \in SUBSET S /\ ~OK(s)
  OBVIOUS
<1>3. s # {}
  <2>. SUFFICES ASSUME s = {} PROVE FALSE
    OBVIOUS
  <2>1. f[{}] = 0 /\ g[{}] = 0
    BY DEF Sums
  <2>. QED
    BY <1>2, <2>1
<1> DEFINE x == First(s)
           r == s \ {First(s)}
<1>4. /\ x \in s /\ r \in SUBSET S /\ x \notin r /\ s = r \cup {x}
      /\ Cardinality(s) \in Nat /\ Cardinality(r) = Cardinality(s) - 1
  <2>1. /\ x \in s /\ r \in SUBSET S
        /\ Cardinality(s) \in Nat /\ Cardinality(r) = Cardinality(s) - 1
    BY <1>2, <1>3, LessFirst
  <2>2. x \notin r /\ s = r \cup {x}
    BY <2>1
  <2>. QED
    BY <2>1, <2>2
<1>5. OK(r)
  <2>1. ~(Cardinality(s) <= Cardinality(r))
    BY <1>4
  <2>2. r \notin Bad
    <3>. HIDE DEF Bad, r
    <3>. QED BY <1>1, <2>1
  <2>. QED
    BY <1>4, <2>2
<1>6. f[s] = u[x] + f[r] /\ g[s] = h[x] + g[r]
  BY <1>2, <1>3 DEF Sums
<1>7. f[r] \in Nat /\ g[r] \in Nat /\ u[x] \in Nat /\ h[x] \in Nat /\ x \in S
  BY <1>2, <1>4
<1>. HIDE DEF x, r
<1>8. CASE x = k
  <2>1. k \in s /\ k \notin r /\ k \in S
    BY <1>4, <1>7, <1>8
  <2>. QED
    BY <1>2, <1>5, <1>6, <1>7, <1>8, <2>1
<1>9. CASE x # k
  <2>1. k \in s <=> k \in r
    BY <1>4, <1>9
  <2>2. u[x] = h[x]
    BY <1>7, <1>9 DEF AgreeBut
  <2>3. CASE k \in S /\ k \in r
    <3>1. u[k] \in Nat /\ h[k] \in Nat
      BY <2>3
    <3>. QED
      BY <1>2, <1>5, <1>6, <1>7, <2>1, <2>2, <2>3, <3>1
  <2>4. CASE ~(k \in S /\ k \in r)
    BY <1>2, <1>5, <1>6, <1>7, <2>1, <2>2, <2>4
  <2>. QED
    BY <2>3, <2>4
<1>. QED
  BY <1>8, <1>9

LEMMA SumZero ==
    ASSUME NEW S, IsFiniteSet(S), NEW h \in [S -> Nat], \A j \in S : h[j] = 0,
           NEW g, Sums(g, h, S)
    PROVE  \A s \in SUBSET S : g[s] = 0
<1> DEFINE Bad == {s \in SUBSET S : g[s] # 0}
<1>. SUFFICES ASSUME Bad # {} PROVE FALSE
  OBVIOUS
<1>1. PICK s \in Bad : \A t \in Bad : Cardinality(s) <= Cardinality(t)
  <2>. Bad \subseteq SUBSET S
    OBVIOUS
  <2>. HIDE DEF Bad
  <2>. QED BY SmallestSubset
<1>2. s \in SUBSET S /\ g[s] # 0
  OBVIOUS
<1>3. s # {}
  BY <1>2 DEF Sums
<1> DEFINE x == First(s)
           r == s \ {First(s)}
<1>4. /\ x \in s /\ r \in SUBSET S
      /\ Cardinality(s) \in Nat /\ Cardinality(r) = Cardinality(s) - 1
  BY <1>2, <1>3, LessFirst
<1>5. g[r] = 0
  <2>1. ~(Cardinality(s) <= Cardinality(r))
    BY <1>4
  <2>2. r \notin Bad
    <3>. HIDE DEF Bad, r
    <3>. QED BY <1>1, <2>1
  <2>. QED
    BY <1>4, <2>2
<1>6. g[s] = h[x] + g[r]
  BY <1>2, <1>3 DEF Sums
<1>. QED
  BY <1>2, <1>4, <1>5, <1>6

LEMMA GreatestMember ==
    ASSUME NEW S, IsFiniteSet(S), S \subseteq Nat, S # {}
    PROVE  Max(S) \in S /\ \A y \in S : Max(S) >= y
<1> DEFINE OK(s) == \E m \in s : \A y \in s : m >= y
           Bad == {s \in SUBSET S : s # {} /\ ~OK(s)}
<1>1. Bad = {}
  <2>. SUFFICES ASSUME Bad # {} PROVE FALSE
    OBVIOUS
  <2>1. PICK s \in Bad : \A t \in Bad : Cardinality(s) <= Cardinality(t)
    <3>. Bad \subseteq SUBSET S
      OBVIOUS
    <3>. HIDE DEF Bad
    <3>. QED BY SmallestSubset
  <2>2. s \in SUBSET S /\ s # {} /\ ~OK(s)
    OBVIOUS
  <2> DEFINE x == First(s)
             r == s \ {First(s)}
  <2>3. /\ x \in s /\ r \in SUBSET S /\ s = r \cup {x}
        /\ Cardinality(s) \in Nat /\ Cardinality(r) = Cardinality(s) - 1
    <3>1. /\ x \in s /\ r \in SUBSET S
          /\ Cardinality(s) \in Nat /\ Cardinality(r) = Cardinality(s) - 1
      BY <2>2, LessFirst
    <3>2. s = r \cup {x}
      BY <3>1
    <3>. QED
      BY <3>1, <3>2
  <2>4. r \notin Bad
    <3>1. ~(Cardinality(s) <= Cardinality(r))
      BY <2>3
    <3>. HIDE DEF Bad, r
    <3>. QED BY <2>1, <3>1
  <2>. HIDE DEF x, r
  <2>5. CASE r = {}
    <3>1. s = {x} /\ x \in Nat
      BY <2>2, <2>3, <2>5
    <3>. QED
      BY <2>2, <3>1
  <2>6. CASE r # {}
    <3>1. PICK m \in r : \A y \in r : m >= y
      BY <2>3, <2>4, <2>6
    <3>2. m \in Nat /\ x \in Nat /\ \A y \in s : y \in Nat /\ (y = x \/ m >= y)
      BY <2>2, <2>3, <3>1
    <3>3. CASE m >= x
      <4>1. m \in s /\ \A y \in s : m >= y
        BY <2>3, <3>2, <3>3
      <4>. QED
        BY <2>2, <4>1
    <3>4. CASE x > m
      <4>1. x \in s /\ \A y \in s : x >= y
        BY <2>3, <3>2, <3>4
      <4>. QED
        BY <2>2, <4>1
    <3>. QED
      BY <3>2, <3>3, <3>4
  <2>. QED
    BY <2>5, <2>6
<1>2. \E m \in S : \A y \in S : m >= y
  <2>. S \in SUBSET S
    OBVIOUS
  <2>. QED
    BY <1>1
<1>. QED
  BY <1>2 DEF Max

----------------------------------------------------------------------------
(* The queue of a zone.                                                    *)

Before(q, x, y) == \E i, j \in DOMAIN q : i < j /\ q[i] = x /\ q[j] = y

\* Those of P keep their order.
OrderKept(q, r, P) == \A x, y \in P : Before(q, x, y) => Before(r, x, y)

LEMMA WithoutKeyFacts ==
    ASSUME NEW q \in Seq(Keys), IsInjective(q), NEW k
    PROVE  /\ WithoutKey(q, k) \in Seq(Keys) /\ IsInjective(WithoutKey(q, k))
           /\ Range(WithoutKey(q, k)) = Range(q) \ {k}
           /\ OrderKept(q, WithoutKey(q, k), Keys \ {k})
<1>1. CASE k \notin Range(q)
  <2>1. WithoutKey(q, k) = q
    BY <1>1, LenProperties DEF WithoutKey, RemoveFirst, Range
  <2>. QED
    BY <1>1, <2>1 DEF OrderKept
<1>2. CASE k \in Range(q)
  <2>1. PICK i \in 1..Len(q) : q[i] = k
    BY <1>2, LenProperties DEF Range
  <2>2. WithoutKey(q, k) = RemoveAt(q, i)
    <3>1. {j \in 1..Len(q) : q[j] = k} = {i}
      BY <2>1, LenProperties DEF IsInjective
    <3>2. Min({i}) = i
      BY LenProperties DEF Min
    <3>. QED
      BY <2>1, <3>1, <3>2 DEF WithoutKey, RemoveFirst, SelectInSeq
  <2>3. PICK r : r = RemoveAt(q, i)
    OBVIOUS
  <2>4. /\ r \in Seq(Keys) /\ Len(r) = Len(q) - 1
        /\ \A j \in 1..(Len(q) - 1) : r[j] = IF j < i THEN q[j] ELSE q[j + 1]
    BY <2>3, QueueRemoveAt
  <2>5. IsInjective(r) /\ Range(r) = Range(q) \ {k}
    BY <2>1, <2>3, QueueLeft
  <2>6. OrderKept(q, r, Keys \ {k})
    <3>. SUFFICES ASSUME NEW x \in Keys \ {k}, NEW y \in Keys \ {k}, Before(q, x, y)
                  PROVE  Before(r, x, y)
      BY DEF OrderKept
    <3>1. PICK a \in DOMAIN q, b \in DOMAIN q : a < b /\ q[a] = x /\ q[b] = y
      BY DEF Before
    <3>2. /\ DOMAIN q = 1..Len(q) /\ DOMAIN r = 1..(Len(q) - 1) /\ Len(q) \in Nat
          /\ a # i /\ b # i
      BY <2>1, <2>4, <3>1, LenProperties
    <3>3. ASSUME NEW c \in DOMAIN q, c # i
          PROVE  LET d == IF c < i THEN c ELSE c - 1 IN d \in DOMAIN r /\ r[d] = q[c]
      <4>1. CASE c < i
        BY <2>4, <3>2, <4>1
      <4>2. CASE ~(c < i)
        <5>1. c - 1 \in 1..(Len(q) - 1) /\ ~(c - 1 < i) /\ (c - 1) + 1 = c
          BY <3>2, <3>3, <4>2
        <5>. QED
          BY <2>4, <3>2, <4>2, <5>1
      <4>. QED
        BY <4>1, <4>2
    <3>4. PICK c, d : /\ c = (IF a < i THEN a ELSE a - 1)
                      /\ d = (IF b < i THEN b ELSE b - 1)
      OBVIOUS
    <3>5. c \in DOMAIN r /\ d \in DOMAIN r /\ r[c] = x /\ r[d] = y
      BY <3>1, <3>2, <3>3, <3>4
    <3>6. c < d
      BY <3>1, <3>2, <3>4
    <3>. QED
      BY <3>5, <3>6 DEF Before
  <2>. QED
    BY <2>2, <2>3, <2>4, <2>5, <2>6
<1>. QED
  BY <1>1, <1>2

LEMMA InFrontFacts ==
    ASSUME NEW q \in Seq(Keys), IsInjective(q), NEW k \in Keys
    PROVE  LET r == <<k>> \o WithoutKey(q, k) IN
           /\ r \in Seq(Keys) /\ IsInjective(r)
           /\ Range(r) = Range(q) \cup {k}
           /\ OrderKept(q, r, Keys \ {k})
<1>1. PICK w : w = WithoutKey(q, k)
  OBVIOUS
<1>2. /\ w \in Seq(Keys) /\ IsInjective(w) /\ Range(w) = Range(q) \ {k}
      /\ OrderKept(q, w, Keys \ {k})
  BY <1>1, WithoutKeyFacts
<1>3. PICK r : r = <<k>> \o w
  OBVIOUS
<1>4. /\ r \in Seq(Keys) /\ IsInjective(r) /\ Range(r) = Range(w) \cup {k}
  BY <1>2, <1>3, QueueJumped
<1>5. OrderKept(w, r, Keys)
  <2>. SUFFICES ASSUME NEW x, NEW y, Before(w, x, y) PROVE Before(r, x, y)
    BY DEF OrderKept
  <2>1. PICK i \in DOMAIN w, j \in DOMAIN w : i < j /\ w[i] = x /\ w[j] = y
    BY DEF Before
  <2>2. /\ <<k>> \in Seq(Keys) /\ Len(<<k>>) = 1
    OBVIOUS
  <2>3. /\ Len(r) = 1 + Len(w)
        /\ \A l \in 1..(1 + Len(w)) : r[l] = IF l <= 1 THEN <<k>>[l] ELSE w[l - 1]
    BY <1>2, <1>3, <2>2, ConcatProperties
  <2>4. DOMAIN w = 1..Len(w) /\ DOMAIN r = 1..(1 + Len(w)) /\ Len(w) \in Nat
    BY <1>2, <1>4, <2>3, LenProperties
  <2>5. /\ i + 1 \in DOMAIN r /\ j + 1 \in DOMAIN r /\ i + 1 < j + 1
        /\ r[i + 1] = w[i] /\ r[j + 1] = w[j]
    BY <2>1, <2>3, <2>4
  <2>. QED
    BY <2>1, <2>5 DEF Before
<1>6. OrderKept(q, r, Keys \ {k})
  BY <1>2, <1>5 DEF OrderKept
<1>7. Range(r) = Range(q) \cup {k}
  BY <1>2, <1>4
<1>. QED
  BY <1>1, <1>3, <1>4, <1>6, <1>7

----------------------------------------------------------------------------
(* Memory.                                                                 *)

\* No entry expires later than L.
Entries(L) == [type : Types, len : Nat, expires : 0..L]
Trees(L) == [Keys -> Entries(L) \cup {NoEntry}]

Memory(tree) == MapThenSumSet(LAMBDA k : Size(tree[k]), Keys)
Sizes(tree) == [k \in Keys |-> Size(tree[k])]

LEMMA SumTyped ==
    ASSUME NEW S, IsFiniteSet(S), NEW h \in [S -> Nat], NEW g, Sums(g, h, S)
    PROVE  g \in [SUBSET S -> Nat]
<1> DEFINE Bad == {s \in SUBSET S : g[s] \notin Nat}
<1>1. Bad = {}
  <2>. SUFFICES ASSUME Bad # {} PROVE FALSE
    OBVIOUS
  <2>1. PICK s \in Bad : \A t \in Bad : Cardinality(s) <= Cardinality(t)
    <3>. Bad \subseteq SUBSET S
      OBVIOUS
    <3>. HIDE DEF Bad
    <3>. QED BY SmallestSubset
  <2>2. s \in SUBSET S /\ g[s] \notin Nat
    OBVIOUS
  <2>3. s # {}
    BY <2>2 DEF Sums
  <2> DEFINE x == First(s)
             r == s \ {First(s)}
  <2>4. /\ x \in s /\ r \in SUBSET S
        /\ Cardinality(s) \in Nat /\ Cardinality(r) = Cardinality(s) - 1
    BY <2>2, <2>3, LessFirst
  <2>5. g[r] \in Nat
    <3>1. ~(Cardinality(s) <= Cardinality(r))
      BY <2>4
    <3>2. r \notin Bad
      <4>. HIDE DEF Bad, r
      <4>. QED BY <2>1, <3>1
    <3>. QED
      BY <2>4, <3>2
  <2>6. g[s] = h[x] + g[r] /\ h[x] \in Nat
    <3>1. g[s] = h[x] + g[r]
      BY <2>2, <2>3 DEF Sums
    <3>2. x \in S
      BY <2>2, <2>4
    <3>. QED
      BY <3>1, <3>2
  <2>. QED
    BY <2>2, <2>5, <2>6
<1>. QED
  BY <1>1 DEF Sums

LEMMA EntrySizes ==
    ASSUME NEW L \in Nat, NEW e \in Entries(L) \cup {NoEntry}
    PROVE  /\ Size(e) \in Nat /\ (e = NoEntry <=> e \notin Entries(L))
           /\ e # NoEntry => Size(e) = IF e.type = "list" THEN 1 + e.len ELSE e.len
<1>1. Entries(L) \subseteq [type : Types, len : Nat, expires : Nat]
  <2>. \A x \in 0..L : x \in Nat
    OBVIOUS
  <2>. QED
    BY DEF Entries
<1>2. e = NoEntry <=> e \notin Entries(L)
  BY <1>1, CoreAssumption
<1>3. e \in Entries(L) => e.len \in Nat
  BY DEF Entries
<1>. QED
  BY <1>2, <1>3 DEF Size

LEMMA MemorySum ==
    ASSUME NEW L \in Nat, NEW T \in Trees(L)
    PROVE  /\ Sizes(T) \in [Keys -> Nat]
           /\ \E g \in [SUBSET Keys -> Nat] :
                 Sums(g, Sizes(T), Keys) /\ Memory(T) = g[Keys]
<1>1. IsFiniteSet(Keys)
  BY CoreAssumption
<1>2. Sizes(T) \in [Keys -> Nat]
  BY EntrySizes DEF Sizes, Trees
<1> DEFINE c == CHOOSE g : g = [s \in SUBSET Keys |->
                   IF s = {} THEN 0 ELSE Size(T[First(s)]) + g[s \ {First(s)}]]
<1>3. Memory(T) = c[Keys]
  BY DEF Memory, MapThenSumSet, MapThenFoldSet, First
<1>4. \A g : Sums(g, Sizes(T), Keys)
             <=> g = [s \in SUBSET Keys |->
                   IF s = {} THEN 0 ELSE Size(T[First(s)]) + g[s \ {First(s)}]]
  <2>1. \A s \in SUBSET Keys : s # {} => Sizes(T)[First(s)] = Size(T[First(s)])
    BY DEF First, Sizes
  <2>. QED
    BY <2>1 DEF Sums
<1>5. \E g : g = [s \in SUBSET Keys |->
                   IF s = {} THEN 0 ELSE Size(T[First(s)]) + g[s \ {First(s)}]]
  <2>1. PICK g : Sums(g, Sizes(T), Keys)
    BY <1>1, <1>2, SumExists
  <2>. QED
    BY <1>4, <2>1, Zenon
<1>6. c = [s \in SUBSET Keys |->
                   IF s = {} THEN 0 ELSE Size(T[First(s)]) + c[s \ {First(s)}]]
  BY <1>5
<1>. HIDE DEF c
<1>7. Sums(c, Sizes(T), Keys)
  BY <1>4, <1>6
<1>8. c \in [SUBSET Keys -> Nat]
  BY <1>1, <1>2, <1>7, SumTyped
<1>. QED
  BY <1>2, <1>3, <1>7, <1>8

LEMMA MemoryChanged ==
    ASSUME NEW L \in Nat, NEW T \in Trees(L), NEW U \in Trees(L), NEW k \in Keys,
           \A j \in Keys : j # k => Size(U[j]) = Size(T[j])
    PROVE  /\ Memory(T) \in Nat /\ Memory(U) \in Nat
           /\ Size(T[k]) \in Nat /\ Size(U[k]) \in Nat
           /\ Memory(U) = Memory(T) - Size(T[k]) + Size(U[k])
<1>1. /\ Sizes(T) \in [Keys -> Nat] /\ Sizes(U) \in [Keys -> Nat]
      /\ IsFiniteSet(Keys)
  BY MemorySum, CoreAssumption
<1>2. PICK g \in [SUBSET Keys -> Nat] :
          Sums(g, Sizes(T), Keys) /\ Memory(T) = g[Keys]
  BY MemorySum
<1>3. PICK f \in [SUBSET Keys -> Nat] :
          Sums(f, Sizes(U), Keys) /\ Memory(U) = f[Keys]
  BY MemorySum
<1>4. \A j \in Keys : j # k => Sizes(U)[j] = Sizes(T)[j]
  BY DEF Sizes
<1>5. ShiftedBy(f, g, Keys, k, Sizes(U)[k] - Sizes(T)[k])
  <2>1. AgreeBut(Sizes(U), Sizes(T), Keys, k)
    BY <1>4 DEF AgreeBut
  <2>. QED
    BY <1>1, <1>2, <1>3, <2>1, SumChanged
<1>6. /\ Sizes(U)[k] = Size(U[k]) /\ Sizes(T)[k] = Size(T[k])
      /\ Size(U[k]) \in Nat /\ Size(T[k]) \in Nat
  BY EntrySizes DEF Sizes, Trees
<1>7. f[Keys] = g[Keys] + (Size(U[k]) - Size(T[k]))
  <2>. Keys \in SUBSET Keys
    OBVIOUS
  <2>. QED
    BY <1>5, <1>6 DEF ShiftedBy
<1>8. f[Keys] \in Nat /\ g[Keys] \in Nat
  OBVIOUS
<1>. QED
  BY <1>2, <1>3, <1>6, <1>7, <1>8

LEMMA MemoryAtLeast ==
    ASSUME NEW L \in Nat, NEW T \in Trees(L), NEW k \in Keys
    PROVE  Size(T[k]) \in Nat /\ Memory(T) \in Nat /\ Size(T[k]) <= Memory(T)
<1> DEFINE U == [T EXCEPT ![k] = NoEntry]
<1>1. U \in Trees(L) /\ U[k] = NoEntry /\ \A j \in Keys : j # k => U[j] = T[j]
  BY DEF Trees
<1>2. Size(U[k]) = 0
  BY <1>1 DEF Size
<1>3. \A j \in Keys : j # k => Size(U[j]) = Size(T[j])
  BY <1>1
<1>. HIDE DEF U
<1>. QED
  BY <1>1, <1>2, <1>3, MemoryChanged

LEMMA MemorySame ==
    ASSUME NEW L \in Nat, NEW T \in Trees(L), NEW U \in Trees(L),
           \A j \in Keys : Size(U[j]) = Size(T[j])
    PROVE  Memory(U) = Memory(T)
<1>1. CASE Keys = {}
  <2>1. T = U
    BY <1>1 DEF Trees
  <2>. QED
    BY <2>1
<1>2. ASSUME NEW k \in Keys PROVE Memory(U) = Memory(T)
  <2>1. /\ Memory(T) \in Nat /\ Memory(U) \in Nat
        /\ Size(T[k]) \in Nat /\ Size(U[k]) \in Nat
        /\ Memory(U) = Memory(T) - Size(T[k]) + Size(U[k])
    BY MemoryChanged
  <2>. QED
    BY <2>1
<1>. QED
  BY <1>1, <1>2

LEMMA MemoryEmpty ==
    ASSUME NEW L \in Nat
    PROVE  [k \in Keys |-> NoEntry] \in Trees(L) /\ Memory([k \in Keys |-> NoEntry]) = 0
<1> DEFINE T == [k \in Keys |-> NoEntry]
<1>1. T \in Trees(L)
  BY DEF Trees
<1>2. \A k \in Keys : Sizes(T)[k] = 0
  BY DEF Sizes, Size
<1>. HIDE DEF T
<1>3. PICK g \in [SUBSET Keys -> Nat] :
          Sums(g, Sizes(T), Keys) /\ Memory(T) = g[Keys]
  BY <1>1, MemorySum
<1>4. Sizes(T) \in [Keys -> Nat] /\ IsFiniteSet(Keys)
  BY <1>1, MemorySum, CoreAssumption
<1>5. \A s \in SUBSET Keys : g[s] = 0
  BY <1>2, <1>3, <1>4, SumZero
<1>6. Memory(T) = 0
  <2>. Keys \in SUBSET Keys
    OBVIOUS
  <2>. QED
    BY <1>3, <1>5
<1>. QED
  BY <1>1, <1>6 DEF T

----------------------------------------------------------------------------
(* A consistent zone, and what a call may do to the entries it is not for. *)

Dicts(L) == [tree : Trees(L), lru : Seq(Keys), used : Nat]

Sound(D, L) ==
    /\ D \in Dicts(L)
    /\ IsInjective(D.lru) /\ Range(D.lru) = Present(D)
    /\ D.used = Memory(D.tree) /\ D.used <= Capacity

Filled(D) == \A k \in Present(D) : D.tree[k].len > 0

Consistent(D, L) == Sound(D, L) /\ Filled(D)

\* E is D after some entries have been dropped, those of K left aside: an
\* unexpired one only together with all that have been used less recently.
Trims(D, E, K, now) ==
    /\ \A j \in Keys \ K : E.tree[j] = D.tree[j] \/ E.tree[j] = NoEntry
    /\ OrderKept(D.lru, E.lru, Present(E) \ K)
    /\ \A x, y \in Keys \ K :
          /\ Before(D.lru, x, y)
          /\ ~HasExpired(D.tree[x], now) /\ E.tree[x] = NoEntry
          => E.tree[y] = NoEntry

Spares(D, E, K, now) ==
    \A j \in Keys \ K :
        D.tree[j] # NoEntry /\ ~HasExpired(D.tree[j], now) => E.tree[j] = D.tree[j]

Gentle(D, E, K, now) == Trims(D, E, K, now) /\ Spares(D, E, K, now)

\* Only k is touched.
Touches(D, E, k) ==
    /\ \A j \in Keys \ {k} : E.tree[j] = D.tree[j]
    /\ OrderKept(D.lru, E.lru, Keys \ {k})

LEMMA QueuedArePresent ==
    ASSUME NEW L \in Nat, NEW D, Sound(D, L)
    PROVE  /\ Present(D) \subseteq Keys
           /\ \A x, y : Before(D.lru, x, y) => x \in Present(D) /\ y \in Present(D)
<1>1. Range(D.lru) = Present(D)
  BY DEF Sound
<1>. QED
  BY <1>1 DEF Before, Range, Present

LEMMA TrimsMore ==
    ASSUME NEW L \in Nat, NEW D, Sound(D, L), NEW E, NEW F, NEW K, NEW now,
           Trims(D, E, K, now), Trims(E, F, K, now)
    PROVE  Trims(D, F, K, now)
<1>1. \A j \in Keys \ K : F.tree[j] = D.tree[j] \/ F.tree[j] = NoEntry
  BY DEF Trims
<1>2. Present(F) \ K \subseteq Present(E) \ K
  BY DEF Trims, Present
<1>3. OrderKept(D.lru, F.lru, Present(F) \ K)
  BY <1>2 DEF Trims, OrderKept
<1>4. ASSUME NEW x \in Keys \ K, NEW y \in Keys \ K, Before(D.lru, x, y),
             ~HasExpired(D.tree[x], now), F.tree[x] = NoEntry
      PROVE  F.tree[y] = NoEntry
  <2>1. E.tree[y] = NoEntry => F.tree[y] = NoEntry
    BY DEF Trims
  <2>2. CASE E.tree[x] = NoEntry
    BY <1>4, <2>1, <2>2 DEF Trims
  <2>3. CASE E.tree[x] # NoEntry /\ E.tree[y] # NoEntry
    <3>1. E.tree[x] = D.tree[x]
      BY <2>3 DEF Trims
    <3>2. Before(E.lru, x, y)
      BY <1>4, <2>3 DEF Trims, OrderKept, Present
    <3>. QED
      BY <1>4, <3>1, <3>2 DEF Trims
  <2>. QED
    BY <2>1, <2>2, <2>3
<1>. QED
  BY <1>1, <1>3, <1>4 DEF Trims

LEMMA SparesMore ==
    ASSUME NEW D, NEW E, NEW F, NEW K, NEW now,
           Spares(D, E, K, now), Spares(E, F, K, now)
    PROVE  Spares(D, F, K, now)
BY DEF Spares

LEMMA GentleMore ==
    ASSUME NEW L \in Nat, NEW D, Sound(D, L), NEW E, NEW F, NEW K, NEW now,
           Gentle(D, E, K, now), Gentle(E, F, K, now)
    PROVE  Gentle(D, F, K, now)
BY TrimsMore, SparesMore DEF Gentle

LEMMA SameIsGentle ==
    ASSUME NEW L \in Nat, NEW D, Sound(D, L), NEW K, NEW now
    PROVE  Gentle(D, D, K, now)
<1>1. OrderKept(D.lru, D.lru, Present(D) \ K)
  BY DEF OrderKept
<1>2. Trims(D, D, K, now)
  BY <1>1, QueuedArePresent DEF Trims, Present
<1>. QED
  BY <1>2 DEF Gentle, Spares

LEMMA LeavingAside ==
    ASSUME NEW D, NEW E, NEW k, NEW now
    PROVE  /\ Trims(D, E, {}, now) => Trims(D, E, {k}, now)
           /\ Spares(D, E, {}, now) => Spares(D, E, {k}, now)
           /\ Gentle(D, E, {}, now) => Gentle(D, E, {k}, now)
<1>1. Trims(D, E, {}, now) => Trims(D, E, {k}, now)
  BY DEF Trims, OrderKept
<1>2. Spares(D, E, {}, now) => Spares(D, E, {k}, now)
  BY DEF Spares
<1>. QED
  BY <1>1, <1>2 DEF Gentle

LEMMA TouchesIsGentle ==
    ASSUME NEW L \in Nat, NEW D, Sound(D, L), NEW E, NEW k, Touches(D, E, k), NEW now
    PROVE  Gentle(D, E, {k}, now)
<1>1. OrderKept(D.lru, E.lru, Present(E) \ {k})
  BY DEF Touches, OrderKept, Present
<1>2. Trims(D, E, {k}, now)
  BY <1>1, QueuedArePresent DEF Trims, Touches, Present
<1>3. Spares(D, E, {k}, now)
  BY DEF Touches, Spares
<1>. QED
  BY <1>2, <1>3 DEF Gentle

LEMMA TouchesMore ==
    ASSUME NEW D, NEW E, NEW F, NEW k, Touches(D, E, k), Touches(E, F, k)
    PROVE  Touches(D, F, k)
BY DEF Touches, OrderKept

----------------------------------------------------------------------------
(* Unlinking and linking a node.                                           *)

LEMMA DictFields ==
    ASSUME NEW L \in Nat, NEW D, Sound(D, L), NEW k \in Keys
    PROVE  /\ D.tree \in Trees(L) /\ D.lru \in Seq(Keys) /\ D.used \in Nat
           /\ D.tree[k] \in Entries(L) \cup {NoEntry}
           /\ Size(D.tree[k]) \in Nat /\ Size(D.tree[k]) <= D.used
           /\ D.used <= Capacity /\ Capacity \in Nat
<1>1. D.tree \in Trees(L) /\ D.lru \in Seq(Keys) /\ D.used \in Nat
  BY DEF Sound, Dicts
<1>2. D.tree[k] \in Entries(L) \cup {NoEntry}
  BY <1>1 DEF Trees
<1>3. Size(D.tree[k]) \in Nat /\ Size(D.tree[k]) <= D.used
  BY <1>1, MemoryAtLeast DEF Sound
<1>. QED
  BY <1>1, <1>2, <1>3, CoreAssumption DEF Sound

LEMMA Removed ==
    ASSUME NEW L \in Nat, NEW D, Sound(D, L), NEW k \in Keys
    PROVE  /\ Sound(RemoveKey(D, k), L)
           /\ RemoveKey(D, k).tree[k] = NoEntry
           /\ RemoveKey(D, k).used = D.used - Size(D.tree[k])
           /\ Touches(D, RemoveKey(D, k), k)
           /\ Filled(D) => Filled(RemoveKey(D, k))
<1>1. PICK R : R = RemoveKey(D, k)
  OBVIOUS
<1>2. /\ R = [tree |-> R.tree, lru |-> R.lru, used |-> R.used]
      /\ R.tree = [D.tree EXCEPT ![k] = NoEntry]
      /\ R.lru = WithoutKey(D.lru, k)
      /\ R.used = D.used - Size(D.tree[k])
  BY <1>1 DEF RemoveKey
<1>3. /\ D.tree \in Trees(L) /\ D.lru \in Seq(Keys) /\ D.used \in Nat
      /\ Size(D.tree[k]) \in Nat /\ Size(D.tree[k]) <= D.used
      /\ D.used <= Capacity /\ Capacity \in Nat
  BY DictFields
<1>4. /\ R.tree \in Trees(L) /\ R.tree[k] = NoEntry
      /\ \A j \in Keys : j # k => R.tree[j] = D.tree[j]
  BY <1>2, <1>3 DEF Trees
<1>5. R.used \in Nat /\ R.used <= Capacity
  BY <1>2, <1>3
<1>6. /\ R.lru \in Seq(Keys) /\ IsInjective(R.lru)
      /\ Range(R.lru) = Range(D.lru) \ {k}
      /\ OrderKept(D.lru, R.lru, Keys \ {k})
  BY <1>2, <1>3, WithoutKeyFacts DEF Sound
<1>7. Range(R.lru) = Present(R)
  BY <1>4, <1>6 DEF Sound, Present
<1>8. R.used = Memory(R.tree)
  <2>1. Size(R.tree[k]) = 0
    BY <1>4 DEF Size
  <2>2. \A j \in Keys : j # k => Size(R.tree[j]) = Size(D.tree[j])
    BY <1>4
  <2>3. /\ Memory(D.tree) \in Nat /\ Memory(R.tree) \in Nat
        /\ Memory(R.tree) = Memory(D.tree) - Size(D.tree[k]) + Size(R.tree[k])
    BY <1>3, <1>4, <2>2, MemoryChanged
  <2>4. Memory(D.tree) = D.used
    BY DEF Sound
  <2>. QED
    BY <1>2, <1>3, <2>1, <2>3, <2>4
<1>9. R \in Dicts(L)
  BY <1>2, <1>4, <1>5, <1>6 DEF Dicts
<1>10. Sound(R, L)
  BY <1>5, <1>6, <1>7, <1>8, <1>9 DEF Sound
<1>11. Touches(D, R, k)
  BY <1>4, <1>6 DEF Touches
<1>12. Filled(D) => Filled(R)
  BY <1>4 DEF Filled, Present
<1>. QED
  BY <1>1, <1>2, <1>4, <1>10, <1>11, <1>12

LEMMA MovedToHead ==
    ASSUME NEW L \in Nat, NEW D, Sound(D, L), NEW k \in Present(D)
    PROVE  /\ Sound(ToHead(D, k), L)
           /\ ToHead(D, k).tree = D.tree /\ ToHead(D, k).used = D.used
           /\ Touches(D, ToHead(D, k), k)
           /\ Filled(D) => Filled(ToHead(D, k))
<1>. k \in Keys
  BY DEF Present
<1>1. PICK R : R = ToHead(D, k)
  OBVIOUS
<1>2. PICK q : q = <<k>> \o WithoutKey(D.lru, k)
  OBVIOUS
<1>3. D.tree \in Trees(L) /\ D.lru \in Seq(Keys) /\ D.used \in Nat /\ D \in Dicts(L)
  BY DictFields DEF Sound
<1>4. /\ q \in Seq(Keys) /\ IsInjective(q)
      /\ Range(q) = Range(D.lru) \cup {k}
      /\ OrderKept(D.lru, q, Keys \ {k})
  BY <1>2, <1>3, InFrontFacts DEF Sound
<1>5. R = [D EXCEPT !.lru = q]
  BY <1>1, <1>2 DEF ToHead
<1>6. R \in Dicts(L) /\ R.tree = D.tree /\ R.used = D.used /\ R.lru = q
  BY <1>3, <1>4, <1>5 DEF Dicts
<1>7. Present(R) = Present(D)
  BY <1>6 DEF Present
<1>8. Sound(R, L)
  BY <1>4, <1>6, <1>7 DEF Sound
<1>9. Touches(D, R, k)
  BY <1>4, <1>6 DEF Touches
<1>10. Filled(D) => Filled(R)
  BY <1>6, <1>7 DEF Filled
<1>. QED
  BY <1>1, <1>6, <1>8, <1>9, <1>10

\* There is room for e in the place of the entry of k.
HasRoom(D, k, e) == D.used - Size(D.tree[k]) + Size(e) <= Capacity

LEMMA Put ==
    ASSUME NEW L \in Nat, NEW D, Sound(D, L), NEW k \in Keys,
           NEW e \in Entries(L), HasRoom(D, k, e)
    PROVE  /\ Sound(PutEntry(D, k, e), L)
           /\ PutEntry(D, k, e).tree[k] = e
           /\ PutEntry(D, k, e).used = D.used - Size(D.tree[k]) + Size(e)
           /\ Touches(D, PutEntry(D, k, e), k)
           /\ Filled(D) /\ e.len > 0 => Filled(PutEntry(D, k, e))
<1>1. PICK R : R = PutEntry(D, k, e)
  OBVIOUS
<1>2. PICK q : q = <<k>> \o WithoutKey(D.lru, k)
  OBVIOUS
<1>3. /\ D.tree \in Trees(L) /\ D.lru \in Seq(Keys) /\ D.used \in Nat
      /\ Size(D.tree[k]) \in Nat /\ Size(D.tree[k]) <= D.used
      /\ D.used <= Capacity /\ Capacity \in Nat
  BY DictFields
<1>4. /\ q \in Seq(Keys) /\ IsInjective(q)
      /\ Range(q) = Range(D.lru) \cup {k}
      /\ OrderKept(D.lru, q, Keys \ {k})
  BY <1>2, <1>3, InFrontFacts DEF Sound
<1>5. R = [tree |-> [D.tree EXCEPT ![k] = e], lru |-> q,
           used |-> D.used - Size(D.tree[k]) + Size(e)]
  BY <1>1, <1>2 DEF PutEntry, ToHead
<1>6. /\ R.tree = [D.tree EXCEPT ![k] = e] /\ R.lru = q
      /\ R.used = D.used - Size(D.tree[k]) + Size(e)
      /\ R = [tree |-> R.tree, lru |-> R.lru, used |-> R.used]
  BY <1>5
<1>7. Size(e) \in Nat /\ e # NoEntry
  BY EntrySizes
<1>8. /\ R.tree \in Trees(L) /\ R.tree[k] = e
      /\ \A j \in Keys : j # k => R.tree[j] = D.tree[j]
  BY <1>3, <1>6 DEF Trees
<1>9. R.used \in Nat /\ R.used <= Capacity
  BY <1>3, <1>6, <1>7 DEF HasRoom
<1>10. R.used = Memory(R.tree)
  <2>1. \A j \in Keys : j # k => Size(R.tree[j]) = Size(D.tree[j])
    BY <1>8
  <2>2. /\ Memory(D.tree) \in Nat /\ Memory(R.tree) \in Nat
        /\ Memory(R.tree) = Memory(D.tree) - Size(D.tree[k]) + Size(R.tree[k])
    BY <1>3, <1>8, <2>1, MemoryChanged
  <2>3. Memory(D.tree) = D.used
    BY DEF Sound
  <2>. QED
    BY <1>6, <1>8, <2>2, <2>3
<1>11. Present(R) = Present(D) \cup {k}
  BY <1>7, <1>8 DEF Present
<1>12. Sound(R, L)
  BY <1>4, <1>6, <1>8, <1>9, <1>10, <1>11 DEF Sound, Dicts
<1>13. Touches(D, R, k)
  BY <1>4, <1>6, <1>8 DEF Touches
<1>14. Filled(D) /\ e.len > 0 => Filled(R)
  BY <1>8, <1>11 DEF Filled, Present
<1>. QED
  BY <1>1, <1>6, <1>8, <1>12, <1>13, <1>14

----------------------------------------------------------------------------
(* Expiring and evicting.                                                  *)

LEMMA ExpiredDropped ==
    ASSUME NEW L \in Nat, NEW D, Consistent(D, L), NEW k \in Keys, NEW now,
           HasExpired(D.tree[k], now) \/ D.tree[k] = NoEntry
    PROVE  /\ Consistent(RemoveKey(D, k), L)
           /\ Gentle(D, RemoveKey(D, k), {}, now)
<1>1. PICK R : R = RemoveKey(D, k)
  OBVIOUS
<1>2. /\ Sound(D, L) /\ Sound(R, L) /\ Filled(R) /\ R.tree[k] = NoEntry
      /\ \A j \in Keys \ {k} : R.tree[j] = D.tree[j]
      /\ OrderKept(D.lru, R.lru, Keys \ {k})
  BY <1>1, Removed DEF Consistent, Touches
<1>3. OrderKept(D.lru, R.lru, Present(R) \ {})
  BY <1>2 DEF OrderKept, Present
<1>4. Trims(D, R, {}, now)
  BY <1>2, <1>3, QueuedArePresent DEF Trims, Present
<1>5. Spares(D, R, {}, now)
  BY <1>2 DEF Spares
<1>. QED
  BY <1>1, <1>2, <1>4, <1>5 DEF Consistent, Gentle

LEMMA LastDropped ==
    ASSUME NEW L \in Nat, NEW D, Consistent(D, L), D.lru # <<>>, NEW now
    PROVE  /\ Last(D.lru) \in Keys
           /\ Consistent(RemoveKey(D, Last(D.lru)), L)
           /\ Trims(D, RemoveKey(D, Last(D.lru)), {}, now)
<1>1. D.lru \in Seq(Keys) /\ IsInjective(D.lru)
  BY DEF Consistent, Sound, Dicts
<1>2. /\ Len(D.lru) \in 1..Len(D.lru) /\ DOMAIN D.lru = 1..Len(D.lru)
      /\ Len(D.lru) \in Nat
  BY <1>1, LenProperties, EmptySeq
<1>3. PICK k : k = Last(D.lru) /\ k = D.lru[Len(D.lru)]
  BY DEF Last
<1>4. k \in Keys
  BY <1>1, <1>2, <1>3
<1>5. PICK R : R = RemoveKey(D, k)
  OBVIOUS
<1>6. /\ Sound(D, L) /\ Sound(R, L) /\ Filled(R) /\ R.tree[k] = NoEntry
      /\ \A j \in Keys \ {k} : R.tree[j] = D.tree[j]
      /\ OrderKept(D.lru, R.lru, Keys \ {k})
  BY <1>4, <1>5, Removed DEF Consistent, Touches
<1>7. OrderKept(D.lru, R.lru, Present(R) \ {})
  BY <1>6 DEF OrderKept, Present
<1>8. \A y : ~Before(D.lru, k, y)
  <2>. SUFFICES ASSUME NEW i \in DOMAIN D.lru, NEW j \in DOMAIN D.lru,
                       i < j, D.lru[i] = k
                PROVE  FALSE
    BY DEF Before
  <2>1. i = Len(D.lru)
    BY <1>1, <1>2, <1>3 DEF IsInjective
  <2>. QED
    BY <1>2, <2>1
<1>9. Trims(D, R, {}, now)
  BY <1>6, <1>7, <1>8, QueuedArePresent DEF Trims, Present
<1>. QED
  BY <1>3, <1>4, <1>5, <1>6, <1>9 DEF Consistent

LEMMA TailDropped ==
    ASSUME NEW L \in Nat, NEW D, Consistent(D, L), NEW now
    PROVE  /\ Consistent(DropTailIfExpired(D, now), L)
           /\ Gentle(D, DropTailIfExpired(D, now), {}, now)
<1>1. Consistent(D, L) /\ Gentle(D, D, {}, now)
  BY SameIsGentle DEF Consistent
<1>2. CASE D.lru # <<>> /\ HasExpired(D.tree[Last(D.lru)], now)
  <2>1. PICK k : k = Last(D.lru)
    OBVIOUS
  <2>2. k \in Keys /\ HasExpired(D.tree[k], now)
    BY <1>2, <2>1, LastDropped
  <2>3. Consistent(RemoveKey(D, k), L) /\ Gentle(D, RemoveKey(D, k), {}, now)
    BY <2>2, ExpiredDropped
  <2>. QED
    BY <1>2, <2>1, <2>3 DEF DropTailIfExpired
<1>. QED
  BY <1>1, <1>2 DEF DropTailIfExpired

\* ngx_http_lua_shdict_expire(ctx, 1).
LEMMA SomeExpired ==
    ASSUME NEW L \in Nat, NEW D, Consistent(D, L), NEW now
    PROVE  /\ Consistent(ExpireSome(D, now), L)
           /\ Gentle(D, ExpireSome(D, now), {}, now)
<1>1. PICK E : E = DropTailIfExpired(D, now)
  OBVIOUS
<1>2. Consistent(E, L) /\ Gentle(D, E, {}, now)
  BY <1>1, TailDropped
<1>3. PICK F : F = DropTailIfExpired(E, now)
  OBVIOUS
<1>4. Consistent(F, L) /\ Gentle(E, F, {}, now)
  BY <1>2, <1>3, TailDropped
<1>5. Gentle(D, F, {}, now)
  BY <1>2, <1>4, GentleMore DEF Consistent
<1>. QED
  BY <1>1, <1>3, <1>4, <1>5 DEF ExpireSome

\* ngx_http_lua_shdict_expire(ctx, 0).
LEMMA ForcedOut ==
    ASSUME NEW L \in Nat, NEW D, Consistent(D, L), NEW now
    PROVE  /\ Consistent(ExpireByForce(D, now), L)
           /\ Trims(D, ExpireByForce(D, now), {}, now)
<1>1. Consistent(D, L) /\ Trims(D, D, {}, now)
  BY SameIsGentle DEF Consistent, Gentle
<1>2. CASE D.lru # <<>>
  <2>1. PICK E : E = RemoveKey(D, Last(D.lru))
    OBVIOUS
  <2>2. Consistent(E, L) /\ Trims(D, E, {}, now)
    BY <1>2, <2>1, LastDropped
  <2>3. PICK F : F = ExpireSome(E, now)
    OBVIOUS
  <2>4. Consistent(F, L) /\ Trims(E, F, {}, now)
    BY <2>2, <2>3, SomeExpired DEF Gentle
  <2>5. Trims(D, F, {}, now)
    BY <2>2, <2>4, TrimsMore DEF Consistent
  <2>. QED
    BY <1>2, <2>1, <2>3, <2>4, <2>5 DEF ExpireByForce
<1>. QED
  BY <1>1, <1>2 DEF ExpireByForce

\* What the rounds of eviction leave, if and when there is room for size.
Evicting(D, a, size, now, L) ==
    /\ Consistent(a.dict, L) /\ Trims(D, a.dict, {}, now)
    /\ a.ok => Fits(a.dict, size)
    /\ a.forcible \in BOOLEAN /\ (a.forcible = FALSE => a.dict = D)

LEMMA Evicted ==
    ASSUME NEW L \in Nat, NEW D, Consistent(D, L), NEW size, NEW now
    PROVE  Evicting(D, AllocByForce(D, size, now), size, now, L)
<1> DEFINE n == IF Len(D.lru) < 30 THEN Len(D.lru) ELSE 30
           IsAfter(g) == g = [i \in 0..n |-> IF i = 0 THEN D
                                             ELSE ExpireByForce(g[i - 1], now)]
           after == CHOOSE g : IsAfter(g)
           enough == {i \in 1..n : Fits(after[i], size)}
<1>1. AllocByForce(D, size, now)
        = [dict |-> after[IF enough = {} THEN n ELSE Min(enough)],
           ok |-> enough # {}, forcible |-> n > 0]
  BY DEF AllocByForce
<1>2. n \in Nat
  <2>. D.lru \in Seq(Keys)
    BY DEF Consistent, Sound, Dicts
  <2>. QED
    BY LenProperties
<1>. HIDE DEF n
<1>3. \E g : IsAfter(g)
  <2> DEFINE S == {E \in Dicts(L) : Consistent(E, L)}
             F == [p \in S \X (1..n) |-> ExpireByForce(p[1], now)]
  <2>1. \A E \in S : ExpireByForce(E, now) \in S
    BY ForcedOut DEF Consistent, Sound
  <2>2. F \in [S \X (1..n) -> S]
    <3>. HIDE DEF S
    <3>. QED BY <2>1
  <2>3. D \in S
    BY DEF Consistent, Sound
  <2>4. \A E \in S, i \in 1..n : F[<<E, i>>] = ExpireByForce(E, now)
    <3>. HIDE DEF S
    <3>. QED OBVIOUS
  <2>. HIDE DEF S, F
  <2>5. PICK g \in [0..n -> S] : Repeats(g, D, F, n)
    <3>1. Turns(F, n, S)
      BY <2>2 DEF Turns
    <3>. QED
      BY <1>2, <2>3, <3>1, Iterated, Zenon
  <2>6. \A i \in 0..n : g[i] = IF i = 0 THEN D ELSE ExpireByForce(g[i - 1], now)
    <3>1. \A i \in 0..n : i # 0 => i \in 1..n /\ i - 1 \in 0..n
      BY <1>2
    <3>. QED
      BY <2>4, <2>5, <3>1 DEF Repeats
  <2>. QED
    BY <2>6
<1>4. IsAfter(after)
  <2>. HIDE DEF IsAfter
  <2>. QED BY <1>3
<1>. HIDE DEF after
<1>5. /\ after[0] = D
      /\ \A i \in 1..n : i - 1 \in 0..n /\ after[i] = ExpireByForce(after[i - 1], now)
  BY <1>2, <1>4
<1> DEFINE P == {E \in Dicts(L) : Consistent(E, L) /\ Trims(D, E, {}, now)}
<1>6. after[0] \in P
  BY <1>5, SameIsGentle DEF Consistent, Sound, Gentle
<1>7. ASSUME NEW i \in 1..n, after[i - 1] \in P PROVE after[i] \in P
  <2>1. PICK E : E = after[i - 1]
    OBVIOUS
  <2>2. Consistent(E, L) /\ Trims(D, E, {}, now)
    BY <1>7, <2>1
  <2>3. PICK G : G = ExpireByForce(E, now)
    OBVIOUS
  <2>4. Consistent(G, L) /\ Trims(E, G, {}, now)
    BY <2>2, <2>3, ForcedOut
  <2>5. Trims(D, G, {}, now)
    BY <2>2, <2>4, TrimsMore DEF Consistent
  <2>6. after[i] = G /\ G \in Dicts(L)
    BY <1>5, <2>1, <2>3, <2>4 DEF Consistent, Sound
  <2>. QED
    BY <2>4, <2>5, <2>6
<1>8. \A i \in 0..n : after[i] \in P
  <2>. HIDE DEF P
  <2>. QED BY <1>2, <1>6, <1>7, KeptByTurns
<1>9. enough # {} => Min(enough) \in enough
  <2>. SUFFICES ASSUME enough # {} PROVE Min(enough) \in enough
    OBVIOUS
  <2>1. enough \in SUBSET Nat
    BY <1>2
  <2>. HIDE DEF enough
  <2>2. \E i \in enough : \A j \in enough : i <= j
    BY <2>1, LeastMember
  <2>. QED
    BY <2>2 DEF Min
<1>10. PICK m : m = IF enough = {} THEN n ELSE Min(enough)
  OBVIOUS
<1>11. m \in 0..n /\ (enough # {} => Fits(after[m], size))
  BY <1>2, <1>9, <1>10
<1>12. ~(n > 0) => after[m] = D
  BY <1>2, <1>5, <1>11
<1>13. PICK a : a = AllocByForce(D, size, now)
  OBVIOUS
<1>14. a.dict = after[m] /\ a.ok = (enough # {}) /\ a.forcible = (n > 0)
  BY <1>1, <1>10, <1>13
<1>15. Consistent(after[m], L) /\ Trims(D, after[m], {}, now)
  BY <1>8, <1>11
<1>16. a.forcible \in BOOLEAN
  BY <1>14
<1>17. a.forcible = FALSE => a.dict = D
  BY <1>12, <1>14
<1>18. a.ok => Fits(a.dict, size)
  BY <1>11, <1>14
<1>. QED
  BY <1>13, <1>14, <1>15, <1>16, <1>17, <1>18 DEF Evicting

\* flush_expired.
LEMMA ExpiredFlushed ==
    ASSUME NEW L \in Nat, NEW D, Consistent(D, L), NEW limit, NEW now
    PROVE  /\ Consistent(FlushExpired(D, limit, now).dict, L)
           /\ Gentle(D, FlushExpired(D, limit, now).dict, {}, now)
<1> DEFINE n == Len(D.lru)
           Key(i) == D.lru[n + 1 - i]
           Turn(r, i) ==
               IF HasExpired(D.tree[Key(i)], now) /\ (limit = 0 \/ r.freed < limit)
               THEN [dict |-> RemoveKey(r.dict, Key(i)), freed |-> r.freed + 1]
               ELSE r
           start == [dict |-> D, freed |-> 0]
           IsAfter(g) == g = [i \in 0..n |-> IF i = 0 THEN start ELSE Turn(g[i - 1], i)]
           after == CHOOSE g : IsAfter(g)
           P == {r \in [dict : Dicts(L), freed : Nat] :
                    Consistent(r.dict, L) /\ Gentle(D, r.dict, {}, now)}
<1>1. FlushExpired(D, limit, now).dict = after[n].dict
  BY DEF FlushExpired, Answer
<1>2. n \in Nat /\ \A i \in 1..n : Key(i) \in Keys
  <2>1. D.lru \in Seq(Keys)
    BY DEF Consistent, Sound, Dicts
  <2>2. n \in Nat /\ DOMAIN D.lru = 1..n /\ \A i \in 1..n : D.lru[i] \in Keys
    BY <2>1, LenProperties
  <2>3. \A i \in 1..n : n + 1 - i \in 1..n
    BY <2>2
  <2>. QED
    BY <2>2, <2>3
<1>. HIDE DEF n
<1>3. ASSUME NEW r \in P, NEW i \in 1..n PROVE Turn(r, i) \in P
  <2>1. PICK k \in Keys : k = Key(i)
    BY <1>2
  <2>2. PICK E : E = r.dict
    OBVIOUS
  <2>3. Consistent(E, L) /\ Gentle(D, E, {}, now) /\ r.freed \in Nat
    BY <2>2
  <2>4. CASE HasExpired(D.tree[k], now)
    <3>1. HasExpired(E.tree[k], now) \/ E.tree[k] = NoEntry
      BY <2>3, <2>4 DEF Gentle, Trims
    <3>2. PICK F : F = RemoveKey(E, k)
      OBVIOUS
    <3>3. Consistent(F, L) /\ Gentle(E, F, {}, now)
      BY <2>3, <3>1, <3>2, ExpiredDropped
    <3>4. Gentle(D, F, {}, now)
      BY <2>3, <3>3, GentleMore DEF Consistent
    <3>5. F \in Dicts(L)
      BY <3>3 DEF Consistent, Sound
    <3>6. [dict |-> F, freed |-> r.freed + 1] \in P
      BY <2>3, <3>3, <3>4, <3>5
    <3>7. Turn(r, i) = [dict |-> F, freed |-> r.freed + 1] \/ Turn(r, i) = r
      BY <2>1, <2>2, <3>2
    <3>. QED
      BY <3>6, <3>7, Zenon
  <2>5. CASE ~HasExpired(D.tree[k], now)
    <3>. Turn(r, i) = r
      BY <2>1, <2>5
    <3>. QED
      BY Zenon
  <2>. QED
    BY <2>4, <2>5
<1>4. start \in P
  <2>1. D \in Dicts(L) /\ Gentle(D, D, {}, now)
    BY SameIsGentle DEF Consistent, Sound
  <2>. QED
    BY <2>1
<1>5. \E g : IsAfter(g)
  <2>. HIDE DEF P, Turn, start
  <2> DEFINE F == [p \in P \X (1..n) |-> Turn(p[1], p[2])]
  <2>1. F \in [P \X (1..n) -> P]
    BY <1>3
  <2>2. \A r \in P, i \in 1..n : F[<<r, i>>] = Turn(r, i)
    OBVIOUS
  <2>. HIDE DEF F
  <2>3. PICK g \in [0..n -> P] : Repeats(g, start, F, n)
    <3>1. Turns(F, n, P)
      BY <2>1 DEF Turns
    <3>. QED
      BY <1>2, <1>4, <3>1, Iterated, Zenon
  <2>4. \A i \in 0..n : g[i] = IF i = 0 THEN start ELSE Turn(g[i - 1], i)
    <3>1. \A i \in 0..n : i # 0 => i \in 1..n /\ i - 1 \in 0..n
      BY <1>2
    <3>. QED
      BY <2>2, <2>3, <3>1 DEF Repeats
  <2>. QED
    BY <2>4
<1>6. IsAfter(after)
  <2>. HIDE DEF IsAfter
  <2>. QED BY <1>5
<1>. HIDE DEF after, P, Turn, start
<1>7. /\ after[0] = start
      /\ \A i \in 1..n : after[i] = Turn(after[i - 1], i)
  BY <1>2, <1>6
<1>8. \A i \in 0..n : after[i] \in P
  <2>1. after[0] \in P
    BY <1>4, <1>7
  <2>2. \A i \in 1..n : after[i - 1] \in P => after[i] \in P
    BY <1>3, <1>7
  <2>. QED
    BY <1>2, <2>1, <2>2, KeptByTurns, Zenon
<1>9. after[n] \in P
  BY <1>2, <1>8
<1>. QED
  BY <1>1, <1>9 DEF P

----------------------------------------------------------------------------
(* The calls: what each leaves of the zone, and what it spares.            *)

Stored(D, r, k, now, L) ==
    /\ Consistent(r.dict, L) /\ Trims(D, r.dict, {k}, now)
    /\ r.forcible \in BOOLEAN
    /\ r.forcible = FALSE => Spares(D, r.dict, {k}, now)

LEMMA Answered ==
    ASSUME NEW L \in Nat, NEW D, NEW E, NEW k, NEW now, NEW res,
           Consistent(E, L), Gentle(D, E, {k}, now)
    PROVE  Stored(D, Answer(E, res), k, now, L) /\ Answer(E, res).forcible = FALSE
BY DEF Answer, Stored, Gentle

LEMMA StoredAfter ==
    ASSUME NEW L \in Nat, NEW D, Sound(D, L), NEW E, NEW r, NEW k, NEW now,
           Gentle(D, E, {k}, now), Stored(E, r, k, now, L)
    PROVE  Stored(D, r, k, now, L)
<1>1. Trims(D, r.dict, {k}, now)
  BY TrimsMore DEF Gentle, Stored
<1>2. r.forcible = FALSE => Spares(D, r.dict, {k}, now)
  BY SparesMore DEF Gentle, Stored
<1>. QED
  BY <1>1, <1>2 DEF Stored

\* The first step of most calls.
LEMMA ExpiredFirst ==
    ASSUME NEW L \in Nat, NEW D, Consistent(D, L), NEW k \in Keys, NEW now
    PROVE  /\ Consistent(ExpireSome(D, now), L) /\ Sound(ExpireSome(D, now), L)
           /\ Gentle(D, ExpireSome(D, now), {k}, now)
BY SomeExpired, LeavingAside DEF Consistent

\* The second.
LEMMA Found ==
    ASSUME NEW L \in Nat, NEW D, Consistent(D, L), NEW k \in Keys, NEW now
    PROVE  /\ Consistent(LookedUp(D, k, now), L) /\ Sound(LookedUp(D, k, now), L)
           /\ LookedUp(D, k, now).tree = D.tree /\ LookedUp(D, k, now).used = D.used
           /\ Gentle(D, LookedUp(D, k, now), {k}, now)
<1>1. CASE Lookup(D, k, now) = "ok"
  <2>1. k \in Present(D)
    BY <1>1 DEF Lookup, Present
  <2>2. PICK E : E = ToHead(D, k)
    OBVIOUS
  <2>3. /\ Sound(D, L) /\ Sound(E, L) /\ Filled(E) /\ E.tree = D.tree /\ E.used = D.used
        /\ Touches(D, E, k)
    BY <2>1, <2>2, MovedToHead DEF Consistent
  <2>4. Gentle(D, E, {k}, now)
    BY <2>3, TouchesIsGentle
  <2>. QED
    BY <1>1, <2>2, <2>3, <2>4 DEF LookedUp, Consistent
<1>2. CASE Lookup(D, k, now) # "ok"
  BY <1>2, SameIsGentle DEF LookedUp, Consistent
<1>. QED
  BY <1>1, <1>2

LEMMA RemovedGently ==
    ASSUME NEW L \in Nat, NEW D, Consistent(D, L), NEW k \in Keys, NEW now
    PROVE  /\ Consistent(RemoveKey(D, k), L) /\ Sound(RemoveKey(D, k), L)
           /\ Gentle(D, RemoveKey(D, k), {k}, now)
           /\ RemoveKey(D, k).tree[k] = NoEntry
<1>1. /\ Sound(D, L) /\ Sound(RemoveKey(D, k), L) /\ Filled(RemoveKey(D, k))
      /\ Touches(D, RemoveKey(D, k), k) /\ RemoveKey(D, k).tree[k] = NoEntry
  BY Removed DEF Consistent
<1>2. Gentle(D, RemoveKey(D, k), {k}, now)
  BY <1>1, TouchesIsGentle
<1>. QED
  BY <1>1, <1>2 DEF Consistent

LEMMA PutGently ==
    ASSUME NEW L \in Nat, NEW D, Consistent(D, L), NEW k \in Keys,
           NEW e \in Entries(L), e.len > 0, HasRoom(D, k, e), NEW now
    PROVE  Consistent(PutEntry(D, k, e), L) /\ Gentle(D, PutEntry(D, k, e), {k}, now)
<1>1. /\ Sound(D, L) /\ Sound(PutEntry(D, k, e), L) /\ Filled(PutEntry(D, k, e))
      /\ Touches(D, PutEntry(D, k, e), k)
  BY Put DEF Consistent
<1>2. Gentle(D, PutEntry(D, k, e), {k}, now)
  BY <1>1, TouchesIsGentle
<1>. QED
  BY <1>1, <1>2 DEF Consistent

\* A new node.
LEMMA Inserted ==
    ASSUME NEW L \in Nat, NEW D, Consistent(D, L), NEW k \in Keys, D.tree[k] = NoEntry,
           NEW e \in Entries(L), e.len > 0, NEW safe \in BOOLEAN, NEW now
    PROVE  /\ Stored(D, InsertNew(D, k, e, safe, now), k, now, L)
           /\ safe => InsertNew(D, k, e, safe, now).forcible = FALSE
<1>1. Size(e) \in Nat
  BY EntrySizes
<1>2. ASSUME NEW E, Consistent(E, L), E.tree[k] = NoEntry, Fits(E, Size(e))
      PROVE  HasRoom(E, k, e)
  <2>1. Size(E.tree[k]) = 0 /\ E.used \in Nat /\ Capacity \in Nat
    BY <1>2, DictFields DEF Size, Consistent
  <2>. QED
    BY <1>1, <1>2, <2>1 DEF HasRoom, Fits
<1>3. CASE Fits(D, Size(e))
  <2>1. PICK E : E = PutEntry(D, k, e)
    OBVIOUS
  <2>2. Consistent(E, L) /\ Gentle(D, E, {k}, now)
    BY <1>2, <1>3, <2>1, PutGently
  <2>3. InsertNew(D, k, e, safe, now) = Answer(E, "ok")
    BY <1>3, <2>1 DEF InsertNew
  <2>. QED
    BY <2>2, <2>3, Answered
<1>4. CASE ~Fits(D, Size(e)) /\ safe
  <2>1. InsertNew(D, k, e, safe, now) = Answer(D, "no memory")
    BY <1>4 DEF InsertNew
  <2>2. Gentle(D, D, {k}, now)
    BY SameIsGentle DEF Consistent
  <2>. QED
    BY <2>1, <2>2, Answered
<1>5. CASE ~Fits(D, Size(e)) /\ ~safe
  <2>1. PICK a : a = AllocByForce(D, Size(e), now)
    OBVIOUS
  <2>2. Evicting(D, a, Size(e), now, L)
    BY <2>1, Evicted
  <2>3. Consistent(a.dict, L) /\ Sound(a.dict, L) /\ Trims(D, a.dict, {k}, now)
    BY <2>2, LeavingAside DEF Evicting, Consistent
  <2>4. a.dict.tree[k] = NoEntry
    BY <2>2 DEF Evicting, Trims
  <2>5. PICK r : r = InsertNew(D, k, e, safe, now)
    OBVIOUS
  <2>6. r = [dict |-> IF a.ok THEN PutEntry(a.dict, k, e) ELSE a.dict,
             res |-> IF a.ok THEN "ok" ELSE "no memory",
             forcible |-> a.forcible]
    BY <1>5, <2>1, <2>5 DEF InsertNew
  <2>7. PICK P : P = PutEntry(a.dict, k, e)
    OBVIOUS
  <2>8. a.ok => Consistent(P, L) /\ Gentle(a.dict, P, {k}, now)
    BY <1>2, <2>2, <2>3, <2>4, <2>7, PutGently DEF Evicting
  <2>9. Gentle(a.dict, a.dict, {k}, now)
    BY <2>3, SameIsGentle
  <2>10. Consistent(r.dict, L) /\ Gentle(a.dict, r.dict, {k}, now)
    BY <2>3, <2>6, <2>7, <2>8, <2>9
  <2>11. Trims(D, r.dict, {k}, now)
    BY <2>3, <2>10, TrimsMore DEF Gentle, Consistent
  <2>12. r.forcible \in BOOLEAN /\ (r.forcible = FALSE => a.dict = D)
    BY <2>2, <2>6 DEF Evicting
  <2>. QED
    BY <1>5, <2>5, <2>10, <2>11, <2>12 DEF Stored, Gentle
<1>. QED
  BY <1>3, <1>4, <1>5

LEMMA Overwritten ==
    ASSUME NEW L \in Nat, NEW D, Consistent(D, L), NEW k \in Keys,
           NEW e \in Entries(L), e.len > 0, e.type # "list", NEW safe \in BOOLEAN, NEW now
    PROVE  /\ Stored(D, Overwrite(D, k, e, safe, now), k, now, L)
           /\ safe => Overwrite(D, k, e, safe, now).forcible = FALSE
<1>1. /\ Sound(D, L) /\ D.tree[k] \in Entries(L) \cup {NoEntry}
      /\ Size(D.tree[k]) \in Nat /\ D.used \in Nat
      /\ D.used <= Capacity /\ Capacity \in Nat
  BY DictFields DEF Consistent
<1>2. CASE Reusable(D, k, e.len)
  <2>1. Size(e) = Size(D.tree[k])
    <3>1. D.tree[k] # NoEntry /\ D.tree[k].type # "list" /\ D.tree[k].len = e.len
      BY <1>2 DEF Reusable
    <3>2. e # NoEntry
      BY EntrySizes
    <3>. QED
      BY <3>1, <3>2 DEF Size
  <2>2. HasRoom(D, k, e)
    BY <1>1, <2>1 DEF HasRoom
  <2>3. PICK E : E = PutEntry(D, k, e)
    OBVIOUS
  <2>4. Consistent(E, L) /\ Gentle(D, E, {k}, now)
    BY <2>2, <2>3, PutGently
  <2>5. Overwrite(D, k, e, safe, now) = Answer(E, "ok")
    BY <1>2, <2>3 DEF Overwrite
  <2>. QED
    BY <2>4, <2>5, Answered
<1>3. CASE ~Reusable(D, k, e.len)
  <2>1. PICK E : E = RemoveKey(D, k)
    OBVIOUS
  <2>2. Consistent(E, L) /\ Gentle(D, E, {k}, now) /\ E.tree[k] = NoEntry
    BY <2>1, RemovedGently
  <2>3. PICK r : r = InsertNew(E, k, e, safe, now)
    OBVIOUS
  <2>4. Stored(E, r, k, now, L) /\ (safe => r.forcible = FALSE)
    BY <2>2, <2>3, Inserted
  <2>5. Stored(D, r, k, now, L)
    BY <1>1, <2>2, <2>4, StoredAfter
  <2>. QED
    BY <1>3, <2>1, <2>3, <2>4, <2>5 DEF Overwrite
<1>. QED
  BY <1>2, <1>3

\* set, safe_set, add, safe_add, replace.
LEMMA StoreKeeps ==
    ASSUME NEW L \in Nat, NEW D, Consistent(D, L), NEW op, NEW k \in Keys,
           NEW v, v.type \in Types \ {"list"}, v.len \in Nat, v.len > 0,
           NEW ttl, NEW now, Expires(ttl, now) \in 0..L
    PROVE  /\ Stored(D, Store(D, op, k, v, ttl, now), k, now, L)
           /\ op \in {"safe_set", "safe_add"}
                => Store(D, op, k, v, ttl, now).forcible = FALSE
<1>1. PICK E : E = ExpireSome(D, now)
  OBVIOUS
<1>2. Sound(D, L) /\ Consistent(E, L) /\ Sound(E, L) /\ Gentle(D, E, {k}, now)
  BY <1>1, ExpiredFirst DEF Consistent
<1>3. PICK F : F = LookedUp(E, k, now)
  OBVIOUS
<1>4. Consistent(F, L) /\ Sound(F, L) /\ Gentle(E, F, {k}, now)
  BY <1>2, <1>3, Found
<1>5. Gentle(D, F, {k}, now)
  BY <1>2, <1>4, GentleMore
<1>6. PICK e : e = Scalar(v.type, v.len, Expires(ttl, now))
  OBVIOUS
<1>7. e \in Entries(L) /\ e.len > 0 /\ e.type # "list"
  <2>1. PICK x \in 0..L : x = Expires(ttl, now)
    OBVIOUS
  <2>2. v.type \in Types \ {"list"} /\ v.len \in Nat /\ v.len > 0
    OBVIOUS
  <2>3. e = [type |-> v.type, len |-> v.len, expires |-> x]
    BY <1>6, <2>1 DEF Scalar
  <2>4. e.type = v.type /\ e.len = v.len
    BY <2>3
  <2>5. e \in Entries(L)
    BY <2>2, <2>3 DEF Entries, Types
  <2>. QED
    BY <2>2, <2>4, <2>5
<1> DEFINE safe == op \in {"safe_set", "safe_add"}
<1>8. safe \in BOOLEAN
  OBVIOUS
<1>9. PICK r : r = Overwrite(F, k, e, safe, now)
  OBVIOUS
<1>10. Stored(F, r, k, now, L) /\ (safe => r.forcible = FALSE)
  <2>. HIDE DEF safe
  <2>. QED BY <1>4, <1>7, <1>8, <1>9, Overwritten
<1>11. Stored(D, r, k, now, L)
  BY <1>2, <1>4, <1>5, <1>10, StoredAfter
<1>12. \/ Store(D, op, k, v, ttl, now) = Answer(E, "not found")
       \/ Store(D, op, k, v, ttl, now) = Answer(F, "exists")
       \/ Store(D, op, k, v, ttl, now) = r
  BY <1>1, <1>3, <1>6, <1>9 DEF Store
<1>13. \A res : /\ Stored(D, Answer(E, res), k, now, L) /\ Answer(E, res).forcible = FALSE
                /\ Stored(D, Answer(F, res), k, now, L) /\ Answer(F, res).forcible = FALSE
  BY <1>2, <1>4, <1>5, Answered
<1>. QED
  BY <1>10, <1>11, <1>12, <1>13

LEMMA DeleteKeeps ==
    ASSUME NEW L \in Nat, NEW D, Consistent(D, L), NEW k \in Keys, NEW now
    PROVE  Stored(D, Delete(D, k, now), k, now, L) /\ Delete(D, k, now).forcible = FALSE
<1>1. PICK E : E = ExpireSome(D, now)
  OBVIOUS
<1>2. Sound(D, L) /\ Consistent(E, L) /\ Gentle(D, E, {k}, now)
  BY <1>1, ExpiredFirst DEF Consistent
<1>3. PICK F : F = RemoveKey(E, k)
  OBVIOUS
<1>4. Consistent(F, L) /\ Gentle(E, F, {k}, now)
  BY <1>2, <1>3, RemovedGently
<1>5. Gentle(D, F, {k}, now)
  BY <1>2, <1>4, GentleMore
<1>. QED
  BY <1>1, <1>3, <1>4, <1>5, Answered DEF Delete

LEMMA IncrKeeps ==
    ASSUME NEW L \in Nat, NEW D, Consistent(D, L), NEW k \in Keys, 
           NEW hasInit \in BOOLEAN, NEW ttl, NEW now,
           Expires(ttl, now) \in 0..L
    PROVE  /\ Stored(D, Incr(D, k, hasInit, ttl, now), k, now, L)
           /\ ~hasInit => Incr(D, k, hasInit, ttl, now).forcible = FALSE
<1>1. PICK E : E = ExpireSome(D, now)
  OBVIOUS
<1>2. Sound(D, L) /\ Consistent(E, L) /\ Sound(E, L) /\ Gentle(D, E, {k}, now)
  BY <1>1, ExpiredFirst DEF Consistent
<1>3. CASE Lookup(E, k, now) = "ok"
  <2>1. PICK F : F = ToHead(E, k)
    OBVIOUS
  <2>2. F = LookedUp(E, k, now)
    BY <1>3, <2>1 DEF LookedUp
  <2>3. Consistent(F, L) /\ Gentle(E, F, {k}, now)
    BY <1>2, <2>2, Found
  <2>4. Gentle(D, F, {k}, now)
    BY <1>2, <2>3, GentleMore
  <2>5. \E res : Incr(D, k, hasInit, ttl, now) = Answer(F, res)
    BY <1>1, <1>3, <2>1 DEF Incr
  <2>. QED
    BY <2>3, <2>4, <2>5, Answered
<1>4. CASE Lookup(E, k, now) # "ok" /\ ~hasInit
  <2>1. Incr(D, k, hasInit, ttl, now) = Answer(E, "not found")
    BY <1>1, <1>4 DEF Incr
  <2>. QED
    BY <1>2, <2>1, Answered
<1>5. CASE Lookup(E, k, now) # "ok" /\ hasInit
  <2>1. PICK e : e = Scalar("number", 1, Expires(ttl, now))
    OBVIOUS
  <2>2. e \in Entries(L) /\ e.len > 0 /\ e.type # "list"
    BY <1>5, <2>1 DEF Scalar, Entries, Types
  <2>3. PICK r : r = Overwrite(E, k, e, FALSE, now)
    OBVIOUS
  <2>4. Stored(E, r, k, now, L)
    BY <1>2, <2>2, <2>3, Overwritten
  <2>5. Stored(D, r, k, now, L)
    BY <1>2, <2>4, StoredAfter
  <2>6. Incr(D, k, hasInit, ttl, now) = r
    BY <1>1, <1>5, <2>1, <2>3 DEF Incr
  <2>. QED
    BY <1>5, <2>5, <2>6
<1>. QED
  BY <1>3, <1>4, <1>5

\* get, get_stale and llen only look.
LEMMA LooksKeep ==
    ASSUME NEW L \in Nat, NEW D, Consistent(D, L), NEW k \in Keys, NEW now
    PROVE  /\ Stored(D, Get(D, k, now), k, now, L) /\ Get(D, k, now).forcible = FALSE
           /\ Stored(D, GetStale(D, k, now), k, now, L)
           /\ Stored(D, Llen(D, k, now), k, now, L) /\ Llen(D, k, now).forcible = FALSE
<1>1. PICK E : E = ExpireSome(D, now)
  OBVIOUS
<1>2. Sound(D, L) /\ Consistent(E, L) /\ Sound(E, L) /\ Gentle(D, E, {k}, now)
  BY <1>1, ExpiredFirst DEF Consistent
<1>3. PICK F : F = LookedUp(E, k, now)
  OBVIOUS
<1>4. Consistent(F, L) /\ Gentle(E, F, {k}, now)
  BY <1>2, <1>3, Found
<1>5. Gentle(D, F, {k}, now)
  BY <1>2, <1>4, GentleMore
<1>6. \A res : Stored(D, Answer(F, res), k, now, L) /\ Answer(F, res).forcible = FALSE
  BY <1>4, <1>5, Answered
<1>7. PICK G : G = LookedUp(D, k, now)
  OBVIOUS
<1>8. Consistent(G, L) /\ Gentle(D, G, {k}, now)
  BY <1>7, Found
<1>9. \A res : Stored(D, Answer(G, res), k, now, L)
  BY <1>8, Answered
<1>10. /\ \E res : Get(D, k, now) = Answer(F, res)
       /\ \E res : Llen(D, k, now) = Answer(F, res)
       /\ \E res : GetStale(D, k, now) = Answer(G, res)
  BY <1>1, <1>3, <1>7 DEF Get, Llen, GetStale
<1>. QED
  BY <1>6, <1>9, <1>10

----------------------------------------------------------------------------
(* Lists.                                                                  *)

FilledBut(D, k) == \A j \in Present(D) \ {k} : D.tree[j].len > 0

IsList(D, k) == k \in Present(D) /\ D.tree[k].type = "list"

LEMMA Lengthened ==
    ASSUME NEW L \in Nat, NEW D, Sound(D, L), NEW k \in Keys, IsList(D, k),
           NEW n \in Int,
           D.tree[k].len + n > 0, D.used + n <= Capacity, FilledBut(D, k)
    PROVE  /\ Consistent(Longer(D, k, n), L) /\ Touches(D, Longer(D, k, n), k)
           /\ IsList(Longer(D, k, n), k)
<1>1. /\ D.tree \in Trees(L) /\ D.lru \in Seq(Keys) /\ D.used \in Nat
      /\ D.tree[k] \in Entries(L) /\ D.tree[k].type = "list" /\ D.tree[k] # NoEntry
      /\ Size(D.tree[k]) \in Nat /\ Size(D.tree[k]) <= D.used /\ Capacity \in Nat
  BY DictFields DEF IsList, Present
<1>2. D.tree[k].len \in Nat /\ Size(D.tree[k]) = 1 + D.tree[k].len
  BY <1>1 DEF Size, Entries
<1>3. PICK e : e = [D.tree[k] EXCEPT !.len = D.tree[k].len + n]
  OBVIOUS
<1>4. e \in Entries(L) /\ e.type = "list" /\ e.len = D.tree[k].len + n /\ e.len > 0
  <2>1. D.tree[k].len + n \in Nat
    BY <1>2
  <2>. QED
    BY <1>1, <1>3, <2>1 DEF Entries
<1>5. e # NoEntry /\ Size(e) = 1 + e.len
  BY <1>4, EntrySizes
<1>6. PICK E : E = Longer(D, k, n)
  OBVIOUS
<1>7. /\ E.tree = [D.tree EXCEPT ![k] = e] /\ E.lru = D.lru /\ E.used = D.used + n
      /\ E = [tree |-> E.tree, lru |-> E.lru, used |-> E.used]
  BY <1>3, <1>6 DEF Longer
<1>8. /\ E.tree \in Trees(L) /\ E.tree[k] = e
      /\ \A j \in Keys : j # k => E.tree[j] = D.tree[j]
  BY <1>1, <1>4, <1>7 DEF Trees
<1>9. E.used \in Nat /\ E.used <= Capacity
  BY <1>1, <1>2, <1>7
<1>10. E.used = Memory(E.tree)
  <2>1. \A j \in Keys : j # k => Size(E.tree[j]) = Size(D.tree[j])
    BY <1>8
  <2>2. /\ Memory(D.tree) \in Nat /\ Memory(E.tree) \in Nat
        /\ Memory(E.tree) = Memory(D.tree) - Size(D.tree[k]) + Size(E.tree[k])
    BY <1>1, <1>8, <2>1, MemoryChanged
  <2>3. Memory(D.tree) = D.used
    BY DEF Sound
  <2>4. Size(E.tree[k]) = Size(D.tree[k]) + n
    BY <1>2, <1>4, <1>5, <1>8
  <2>. QED
    BY <1>1, <1>7, <2>2, <2>3, <2>4
<1>11. Present(E) = Present(D)
  BY <1>1, <1>5, <1>8 DEF Present
<1>12. E \in Dicts(L)
  BY <1>1, <1>7, <1>8, <1>9 DEF Dicts
<1>13. Sound(E, L)
  BY <1>7, <1>9, <1>10, <1>11, <1>12 DEF Sound
<1>14. Filled(E)
  BY <1>4, <1>8, <1>11 DEF FilledBut, Filled, Present
<1>15. Touches(D, E, k)
  BY <1>7, <1>8 DEF Touches, OrderKept
<1>16. IsList(E, k)
  BY <1>4, <1>8, <1>11 DEF IsList
<1>. QED
  BY <1>6, <1>13, <1>14, <1>15, <1>16 DEF Consistent

\* A list in a consistent zone, and how much of its memory is its own.
LEMMA ListFits ==
    ASSUME NEW L \in Nat, NEW D, Sound(D, L), NEW k \in Keys, IsList(D, k)
    PROVE  D.tree[k].len \in Nat /\ 1 + D.tree[k].len <= Capacity
<1>1. /\ D.tree[k] \in Entries(L) /\ D.tree[k].type = "list" /\ D.tree[k] # NoEntry
      /\ Size(D.tree[k]) <= D.used /\ D.used <= Capacity
      /\ D.used \in Nat /\ Capacity \in Nat
  BY DictFields DEF IsList, Present
<1>2. D.tree[k].len \in Nat /\ Size(D.tree[k]) = 1 + D.tree[k].len
  BY <1>1 DEF Size, Entries
<1>. QED
  BY <1>1, <1>2

\* A push that succeeds leaves a list with an element.
Pushed(r, k) ==
    r.res = "ok" => IsList(r.dict, k) /\ r.dict.tree[k].len \in 1..Capacity

LEMMA ElementPushed ==
    ASSUME NEW L \in Nat, NEW D, Sound(D, L), NEW k \in Keys,
           IsList(D, k), FilledBut(D, k)
    PROVE  /\ Consistent(PushElement(D, k).dict, L)
           /\ Touches(D, PushElement(D, k).dict, k)
           /\ PushElement(D, k).forcible = FALSE
           /\ Pushed(PushElement(D, k), k)
<1>1. D.tree[k].len \in Nat
  BY ListFits
<1>2. CASE Fits(D, 1)
  <2>1. PICK E : E = Longer(D, k, 1)
    OBVIOUS
  <2>2. Consistent(E, L) /\ Touches(D, E, k) /\ IsList(E, k)
    <3>1. 1 \in Int /\ D.tree[k].len + 1 > 0 /\ D.used + 1 <= Capacity
      BY <1>1, <1>2 DEF Fits
    <3>. QED
      BY <2>1, <3>1, Lengthened
  <2>3. PushElement(D, k) = Answer(E, "ok")
    BY <1>2, <2>1 DEF PushElement
  <2>4. E.tree[k].len \in 1..Capacity
    <3>1. E.tree[k].len > 0
      BY <2>2 DEF Consistent, Filled, IsList
    <3>2. E.tree[k].len \in Nat /\ 1 + E.tree[k].len <= Capacity
      BY <2>2, ListFits DEF Consistent
    <3>. QED
      BY <3>1, <3>2, CoreAssumption
  <2>. QED
    BY <2>2, <2>3, <2>4 DEF Answer, Pushed
<1>3. CASE ~Fits(D, 1) /\ D.tree[k].len = 0
  <2>1. PICK E : E = RemoveKey(D, k)
    OBVIOUS
  <2>2. /\ Sound(E, L) /\ Touches(D, E, k) /\ E.tree[k] = NoEntry
    BY <2>1, Removed
  <2>3. Filled(E)
    BY <2>2 DEF Filled, FilledBut, Touches, Present
  <2>4. PICK r : r = PushElement(D, k)
    OBVIOUS
  <2>5. r.dict = E /\ r.forcible = FALSE /\ r.res # "ok"
    BY <1>3, <2>1, <2>4 DEF PushElement, Answer
  <2>. QED
    BY <2>2, <2>3, <2>4, <2>5 DEF Pushed, Consistent
<1>4. CASE ~Fits(D, 1) /\ D.tree[k].len # 0
  <2>1. D.tree[k].len > 0
    BY <1>1, <1>4
  <2>2. Filled(D)
    BY <2>1 DEF Filled, FilledBut
  <2>3. Touches(D, D, k)
    BY DEF Touches, OrderKept
  <2>4. PICK r : r = PushElement(D, k)
    OBVIOUS
  <2>5. r.dict = D /\ r.forcible = FALSE /\ r.res # "ok"
    BY <1>4, <2>4 DEF PushElement, Answer
  <2>. QED
    BY <2>2, <2>3, <2>4, <2>5 DEF Pushed, Consistent
<1>. QED
  BY <1>2, <1>3, <1>4

\* lpush and rpush.
LEMMA PushKeeps ==
    ASSUME NEW L \in Nat, NEW D, Consistent(D, L), NEW k \in Keys, NEW now
    PROVE  /\ Stored(D, Push(D, k, now), k, now, L)
           /\ Push(D, k, now).forcible = FALSE
           /\ Pushed(Push(D, k, now), k)
<1>1. PICK E : E = ExpireSome(D, now)
  OBVIOUS
<1>2. Sound(D, L) /\ Consistent(E, L) /\ Sound(E, L) /\ Gentle(D, E, {k}, now)
  BY <1>1, ExpiredFirst DEF Consistent
<1>3. PICK F : F = IF Lookup(E, k, now) = "done" THEN RemoveKey(E, k)
                                                ELSE LookedUp(E, k, now)
  OBVIOUS
<1>4. Consistent(F, L) /\ Sound(F, L) /\ Gentle(E, F, {k}, now)
  BY <1>2, <1>3, Found, RemovedGently
<1>5. Gentle(D, F, {k}, now)
  BY <1>2, <1>4, GentleMore
<1>6. PICK r : r = Push(D, k, now)
  OBVIOUS
<1>7. ASSUME NEW G, Sound(G, L), Touches(F, G, k), IsList(G, k), FilledBut(G, k),
             r = PushElement(G, k)
      PROVE  Stored(D, r, k, now, L) /\ r.forcible = FALSE /\ Pushed(r, k)
  <2>1. /\ Consistent(r.dict, L) /\ Touches(G, r.dict, k)
        /\ r.forcible = FALSE /\ Pushed(r, k)
    BY <1>7, ElementPushed
  <2>2. Touches(F, r.dict, k)
    BY <1>7, <2>1, TouchesMore
  <2>3. Gentle(F, r.dict, {k}, now)
    BY <1>4, <2>2, TouchesIsGentle
  <2>4. Gentle(D, r.dict, {k}, now)
    BY <1>2, <1>5, <2>3, GentleMore
  <2>. QED
    BY <2>1, <2>4 DEF Stored, Gentle
<1>8. ASSUME r.dict = F, r.forcible = FALSE, r.res # "ok"
      PROVE  Stored(D, r, k, now, L) /\ r.forcible = FALSE /\ Pushed(r, k)
  BY <1>4, <1>5, <1>8 DEF Stored, Gentle, Pushed
<1>9. CASE Lookup(E, k, now) = "ok" /\ E.tree[k].type = "list"
  <2>1. r = PushElement(F, k)
    BY <1>1, <1>3, <1>6, <1>9 DEF Push
  <2>2. F.tree = E.tree
    BY <1>2, <1>3, <1>9, Found
  <2>3. IsList(F, k)
    BY <1>9, <2>2 DEF IsList, Present, Lookup
  <2>4. FilledBut(F, k) /\ Touches(F, F, k)
    BY <1>4 DEF FilledBut, Filled, Consistent, Touches, OrderKept
  <2>. QED
    BY <1>4, <1>6, <1>7, <2>1, <2>3, <2>4
<1>10. CASE Lookup(E, k, now) = "ok" /\ E.tree[k].type # "list"
  <2>1. r.dict = F /\ r.forcible = FALSE /\ r.res # "ok"
    BY <1>1, <1>3, <1>6, <1>10 DEF Push, Answer
  <2>. QED
    BY <1>6, <1>8, <2>1
<1>11. CASE Lookup(E, k, now) # "ok"
  <2>1. F.tree[k] = NoEntry
    <3>1. CASE Lookup(E, k, now) = "done"
      BY <1>2, <1>3, <3>1, RemovedGently
    <3>2. CASE Lookup(E, k, now) # "done"
      <4>1. E.tree[k] = NoEntry
        BY <1>11, <3>2 DEF Lookup
      <4>2. F.tree = E.tree
        BY <1>2, <1>3, <3>2, Found
      <4>. QED
        BY <4>1, <4>2
    <3>. QED
      BY <3>1, <3>2
  <2>2. PICK reuse \in BOOLEAN :
            reuse = (Lookup(E, k, now) = "done" /\ E.tree[k].type = "list")
    OBVIOUS
  <2>3. r = IF reuse \/ Fits(F, 1) THEN PushElement(PutEntry(F, k, EmptyList), k)
                                  ELSE Answer(F, "no memory")
    BY <1>1, <1>3, <1>6, <1>11, <2>2 DEF Push
  <2>4. CASE reuse \/ Fits(F, 1)
    <3>1. EmptyList \in Entries(L) /\ Size(EmptyList) = 1 /\ EmptyList.type = "list"
      <4>1. EmptyList \in Entries(L) /\ EmptyList.type = "list" /\ EmptyList.len = 0
        BY DEF EmptyList, Entries, Types
      <4>. QED
        BY <4>1, EntrySizes
    <3>2. /\ F.used \in Nat /\ Capacity \in Nat /\ Size(F.tree[k]) = 0
      BY <1>4, <2>1, DictFields DEF Size
    <3>3. F.used + 1 <= Capacity
      <4>1. CASE Fits(F, 1)
        BY <4>1 DEF Fits
      <4>2. CASE reuse
        <5>1. Lookup(E, k, now) = "done" /\ IsList(E, k)
          BY <2>2, <4>2 DEF Lookup, IsList, Present
        <5>2. F.used = E.used - Size(E.tree[k])
          BY <1>2, <1>3, <5>1, Removed
        <5>3. E.used \in Nat /\ E.used <= Capacity /\ E.tree[k] \in Entries(L) \cup {NoEntry}
          BY <1>2, DictFields
        <5>4. Size(E.tree[k]) = 1 + E.tree[k].len /\ E.tree[k].len \in Nat
          BY <1>2, <5>1, <5>3, EntrySizes, ListFits DEF IsList, Present
        <5>. QED
          BY <3>2, <5>2, <5>3, <5>4
      <4>. QED
        BY <2>4, <4>1, <4>2
    <3>4. HasRoom(F, k, EmptyList)
      BY <3>1, <3>2, <3>3 DEF HasRoom
    <3>5. PICK G : G = PutEntry(F, k, EmptyList)
      OBVIOUS
    <3>6. Sound(G, L) /\ G.tree[k] = EmptyList /\ Touches(F, G, k)
      BY <1>4, <3>1, <3>4, <3>5, Put
    <3>7. IsList(G, k)
      BY <3>1, <3>6, EntrySizes DEF IsList, Present
    <3>8. FilledBut(G, k)
      BY <1>4, <3>6 DEF FilledBut, Filled, Consistent, Touches, Present
    <3>9. r = PushElement(G, k)
      BY <2>3, <2>4, <3>5
    <3>. QED
      BY <1>6, <1>7, <3>6, <3>7, <3>8, <3>9
  <2>5. CASE ~(reuse \/ Fits(F, 1))
    <3>1. r.dict = F /\ r.forcible = FALSE /\ r.res # "ok"
      BY <2>3, <2>5 DEF Answer
    <3>. QED
      BY <1>6, <1>8, <3>1
  <2>. QED
    BY <2>4, <2>5
<1>. QED
  BY <1>9, <1>10, <1>11

\* lpop and rpop.
LEMMA PopKeeps ==
    ASSUME NEW L \in Nat, NEW D, Consistent(D, L), NEW k \in Keys, NEW now
    PROVE  Stored(D, Pop(D, k, now), k, now, L) /\ Pop(D, k, now).forcible = FALSE
<1>1. PICK E : E = ExpireSome(D, now)
  OBVIOUS
<1>2. Sound(D, L) /\ Consistent(E, L) /\ Sound(E, L) /\ Gentle(D, E, {k}, now)
  BY <1>1, ExpiredFirst DEF Consistent
<1>3. PICK F : F = LookedUp(E, k, now)
  OBVIOUS
<1>4. Consistent(F, L) /\ Sound(F, L) /\ Gentle(E, F, {k}, now)
  BY <1>2, <1>3, Found
<1>5. Gentle(D, F, {k}, now)
  BY <1>2, <1>4, GentleMore
<1>6. PICK r : r = Pop(D, k, now)
  OBVIOUS
<1>7. CASE \E res : r = Answer(F, res)
  BY <1>4, <1>5, <1>6, <1>7, Answered
<1>8. CASE r = Answer(RemoveKey(F, k), "ok")
  <2>1. PICK G : G = RemoveKey(F, k)
    OBVIOUS
  <2>2. Consistent(G, L) /\ Gentle(F, G, {k}, now)
    BY <1>4, <2>1, RemovedGently
  <2>3. Gentle(D, G, {k}, now)
    BY <1>2, <1>5, <2>2, GentleMore
  <2>. QED
    BY <1>6, <1>8, <2>1, <2>2, <2>3, Answered
<1>9. CASE /\ r = Answer(Longer(F, k, -1), "ok") /\ Lookup(F, k, now) # "declined"
           /\ F.tree[k].type = "list" /\ ~(F.tree[k].len <= 0) /\ F.tree[k].len # 1
  <2>1. IsList(F, k)
    BY <1>9 DEF IsList, Present, Lookup
  <2>2. F.tree[k].len \in Nat /\ F.used \in Nat /\ F.used <= Capacity /\ Capacity \in Nat
    BY <1>4, <2>1, ListFits, DictFields
  <2>3. -1 \in Int /\ F.tree[k].len + (-1) > 0 /\ F.used + (-1) <= Capacity
    BY <1>9, <2>2
  <2>4. FilledBut(F, k)
    BY <1>4 DEF FilledBut, Filled, Consistent
  <2>5. PICK G : G = Longer(F, k, -1)
    OBVIOUS
  <2>6. Consistent(G, L) /\ Touches(F, G, k)
    BY <1>4, <2>1, <2>3, <2>4, <2>5, Lengthened
  <2>7. Gentle(D, G, {k}, now)
    BY <1>2, <1>4, <1>5, <2>6, TouchesIsGentle, GentleMore
  <2>. QED
    BY <1>6, <1>9, <2>5, <2>6, <2>7, Answered
<1>10. \/ \E res : r = Answer(F, res)
       \/ r = Answer(RemoveKey(F, k), "ok")
       \/ /\ r = Answer(Longer(F, k, -1), "ok") /\ Lookup(F, k, now) # "declined"
          /\ F.tree[k].type = "list" /\ ~(F.tree[k].len <= 0) /\ F.tree[k].len # 1
  BY <1>1, <1>3, <1>6 DEF Pop, Lookup
<1>. QED
  BY <1>7, <1>8, <1>9, <1>10

\* expire changes one entry in place.
LEMMA SetExpireKeeps ==
    ASSUME NEW L \in Nat, NEW D, Consistent(D, L), NEW k \in Keys,
           NEW ttl, NEW now, Expires(ttl, now) \in 0..L
    PROVE  Consistent(SetExpire(D, k, ttl, now).dict, L)
<1>1. CASE D.tree[k] = NoEntry
  BY <1>1 DEF SetExpire, Answer
<1>2. CASE D.tree[k] # NoEntry
  <2>1. /\ Sound(D, L) /\ Filled(D) /\ D.tree \in Trees(L) /\ D.lru \in Seq(Keys)
        /\ D.used \in Nat /\ D.tree[k] \in Entries(L) /\ D \in Dicts(L)
    BY <1>2, DictFields DEF Consistent, Sound
  <2>2. PICK x \in 0..L : x = Expires(ttl, now)
    OBVIOUS
  <2>3. PICK e : e = [D.tree[k] EXCEPT !.expires = x]
    OBVIOUS
  <2>4. e \in Entries(L) /\ e.type = D.tree[k].type /\ e.len = D.tree[k].len
    BY <2>1, <2>3 DEF Entries
  <2>5. e # NoEntry /\ Size(e) = Size(D.tree[k])
    BY <1>2, <2>1, <2>4, EntrySizes
  <2>6. PICK E : E = SetExpire(D, k, ttl, now).dict
    OBVIOUS
  <2>7. E = [D EXCEPT !.tree = [D.tree EXCEPT ![k] = e]]
    BY <1>2, <2>2, <2>3, <2>6 DEF SetExpire, Answer
  <2>8. /\ E.tree = [D.tree EXCEPT ![k] = e] /\ E.lru = D.lru /\ E.used = D.used
        /\ E = [tree |-> E.tree, lru |-> E.lru, used |-> E.used]
    BY <2>1, <2>7 DEF Dicts
  <2>9. /\ E.tree \in Trees(L) /\ E.tree[k] = e
        /\ \A j \in Keys : j # k => E.tree[j] = D.tree[j]
    BY <2>1, <2>4, <2>8 DEF Trees
  <2>10. Memory(E.tree) = Memory(D.tree)
    <3>1. \A j \in Keys : Size(E.tree[j]) = Size(D.tree[j])
      BY <2>5, <2>9
    <3>. QED
      BY <2>1, <2>9, <3>1, MemorySame
  <2>11. Present(E) = Present(D)
    BY <1>2, <2>5, <2>9 DEF Present
  <2>12. Sound(E, L)
    <3>1. E \in Dicts(L)
      BY <2>1, <2>8, <2>9 DEF Dicts
    <3>. QED
      BY <2>1, <2>8, <2>10, <2>11, <3>1 DEF Sound
  <2>13. Filled(E)
    <3>1. \A j \in Keys : E.tree[j].len = D.tree[j].len
      BY <2>4, <2>9
    <3>. QED
      BY <2>1, <2>11, <3>1 DEF Filled, Present
  <2>. QED
    BY <2>6, <2>12, <2>13 DEF Consistent
<1>. QED
  BY <1>1, <1>2

\* flush_all.
LEMMA FlushAllKeeps ==
    ASSUME NEW L \in Nat, L > 0, NEW D, Consistent(D, L), NEW now
    PROVE  Consistent(FlushAll(D, now).dict, L)
<1>1. /\ Sound(D, L) /\ Filled(D) /\ D \in Dicts(L) /\ D.tree \in Trees(L)
      /\ D.lru \in Seq(Keys) /\ D.used \in Nat
  BY DEF Consistent, Sound, Dicts
<1>2. PICK T : T = [k \in Keys |-> IF D.tree[k] = NoEntry THEN NoEntry
                                   ELSE [D.tree[k] EXCEPT !.expires = 1]]
  OBVIOUS
<1>3. PICK E : E = [D EXCEPT !.tree = T]
  OBVIOUS
<1>4. FlushAll(D, now).dict = ExpireByForce(E, now)
  BY <1>2, <1>3 DEF FlushAll, Answer
<1>5. ASSUME NEW k \in Keys
      PROVE  /\ T[k] \in Entries(L) \cup {NoEntry} /\ (T[k] = NoEntry <=> D.tree[k] = NoEntry)
             /\ Size(T[k]) = Size(D.tree[k])
             /\ D.tree[k] # NoEntry => T[k].len = D.tree[k].len
  <2>1. D.tree[k] \in Entries(L) \cup {NoEntry}
    BY <1>1, DictFields
  <2>2. CASE D.tree[k] = NoEntry
    BY <1>2, <2>2
  <2>3. CASE D.tree[k] # NoEntry
    <3>1. T[k] = [D.tree[k] EXCEPT !.expires = 1]
      BY <1>2, <2>3
    <3>2. T[k] \in Entries(L) /\ T[k].type = D.tree[k].type /\ T[k].len = D.tree[k].len
      BY <2>1, <2>3, <3>1 DEF Entries
    <3>3. T[k] # NoEntry
      BY <3>2, EntrySizes
    <3>4. Size(T[k]) = Size(D.tree[k])
      BY <2>1, <2>3, <3>2, <3>3, EntrySizes
    <3>. QED
      BY <2>3, <3>2, <3>3, <3>4
  <2>. QED
    BY <2>2, <2>3
<1>6. T \in Trees(L)
  <2>1. \A k \in Keys : T[k] \in Entries(L) \cup {NoEntry}
    BY <1>5
  <2>2. T = [k \in Keys |-> T[k]]
    BY <1>2
  <2>. QED
    BY <2>1, <2>2 DEF Trees
<1>7. /\ E.tree = T /\ E.lru = D.lru /\ E.used = D.used
      /\ E = [tree |-> E.tree, lru |-> E.lru, used |-> E.used]
  BY <1>1, <1>3 DEF Dicts
<1>8. Memory(T) = Memory(D.tree)
  BY <1>1, <1>5, <1>6, MemorySame
<1>9. Present(E) = Present(D)
  BY <1>5, <1>7 DEF Present
<1>10. Sound(E, L)
  BY <1>1, <1>6, <1>7, <1>8, <1>9 DEF Sound, Dicts
<1>11. Filled(E)
  <2>1. \A k \in Present(E) : T[k].len = D.tree[k].len /\ D.tree[k].len > 0
    BY <1>1, <1>5, <1>9 DEF Filled, Present
  <2>. QED
    BY <1>7, <2>1 DEF Filled
<1>. QED
  BY <1>4, <1>10, <1>11, ForcedOut DEF Consistent

----------------------------------------------------------------------------
(* The inductive invariant of SharedDict.                                  *)

Latest == MaxTime + Max(TTLs)

LEMMA ExpiresInTime ==
    /\ Latest \in Nat /\ Latest > 0
    /\ \A ttl \in TTLs, now \in StartTime..MaxTime : Expires(ttl, now) \in 0..Latest
<1>1. Max(TTLs) \in TTLs /\ \A ttl \in TTLs : Max(TTLs) >= ttl
  BY GreatestMember, DictAssumption
<1>2. Max(TTLs) \in Nat
  BY <1>1, DictAssumption
<1>3. Latest \in Nat /\ Latest = MaxTime + Max(TTLs) /\ Latest >= MaxTime
  BY <1>2, DictAssumption DEF Latest
<1>4. Latest > 0
  BY <1>3, DictAssumption
<1>5. ASSUME NEW ttl \in TTLs, NEW now \in StartTime..MaxTime
      PROVE  Expires(ttl, now) \in 0..Latest
  <2>1. ttl \in Nat /\ ttl <= Max(TTLs) /\ now \in Nat /\ now <= MaxTime
    BY <1>1, <1>2, DictAssumption
  <2>2. now + ttl \in Nat /\ now + ttl <= Latest
    BY <1>2, <1>3, <2>1, DictAssumption
  <2>. QED
    BY <1>3, <2>2 DEF Expires
<1>. QED
  BY <1>3, <1>4, <1>5

IInv ==
    /\ Consistent(dict, Latest)
    /\ clock \in [Workers -> StartTime..MaxTime]
    /\ pend \in [Workers -> {NoPush} \cup [key : Keys, len : 1..Capacity]]

LEMMA StoresInTime ==
    ASSUME NEW D, Consistent(D, Latest), NEW op, NEW k \in Keys, NEW v \in Values,
           NEW ttl \in TTLs, NEW now \in StartTime..MaxTime
    PROVE  /\ Stored(D, Store(D, op, k, v, ttl, now), k, now, Latest)
           /\ op \in {"safe_set", "safe_add"}
                => Store(D, op, k, v, ttl, now).forcible = FALSE
<1>1. v.type \in Types \ {"list"} /\ v.len \in Nat /\ v.len > 0
  BY DEF Values, Types
<1>2. Expires(ttl, now) \in 0..Latest /\ Latest \in Nat
  BY ExpiresInTime
<1>. QED
  BY <1>1, <1>2, StoreKeeps

LEMMA EmptyConsistent ==
    ASSUME NEW L \in Nat
    PROVE  Consistent(Empty, L)
<1> DEFINE T == [k \in Keys |-> NoEntry]
<1>1. Empty = [tree |-> T, lru |-> <<>>, used |-> 0]
  BY DEF Empty
<1>2. T \in Trees(L) /\ Memory(T) = 0
  BY MemoryEmpty
<1>3. Present(Empty) = {}
  BY <1>1 DEF Present
<1>4. <<>> \in Seq(Keys) /\ IsInjective(<<>>) /\ Range(<<>>) = {}
  <2>1. DOMAIN <<>> = {}
    OBVIOUS
  <2>. QED
    BY <2>1 DEF IsInjective, Range
<1>5. Empty \in Dicts(L)
  BY <1>1, <1>2, <1>4 DEF Dicts
<1>6. Capacity \in Nat
  BY CoreAssumption
<1>. HIDE DEF T
<1>7. Sound(Empty, L)
  <2>1. Empty.tree = T /\ Empty.lru = <<>> /\ Empty.used = 0
    BY <1>1
  <2>. QED
    BY <2>1, <1>2, <1>3, <1>4, <1>5, <1>6 DEF Sound
<1>8. Filled(Empty)
  BY <1>3 DEF Filled
<1>. QED
  BY <1>7, <1>8 DEF Consistent

LEMMA InitIInv == Init => IInv
<1>. SUFFICES ASSUME Init PROVE IInv
  OBVIOUS
<1>1. dict = Empty
  BY DEF Init
<1>2. Consistent(dict, Latest)
  BY <1>1, EmptyConsistent, ExpiresInTime
<1>3. clock \in [Workers -> StartTime..MaxTime]
  <2>1. StartTime \in StartTime..MaxTime
    BY DictAssumption
  <2>. QED
    BY <2>1 DEF Init
<1>4. pend \in [Workers -> {NoPush} \cup [key : Keys, len : 1..Capacity]]
  BY DEF Init
<1>. QED
  BY <1>2, <1>3, <1>4 DEF IInv

LEMMA NextIInv == IInv /\ [Next]_vars => IInv'
<1>. SUFFICES ASSUME IInv, [Next]_vars PROVE IInv'
  OBVIOUS
<1>1. /\ Consistent(dict, Latest)
      /\ clock \in [Workers -> StartTime..MaxTime]
      /\ pend \in [Workers -> {NoPush} \cup [key : Keys, len : 1..Capacity]]
  BY DEF IInv
<1>2. ASSUME NEW w \in Workers, NEW a, Call(w, a), Consistent(a.dict, Latest) PROVE IInv'
  BY <1>1, <1>2 DEF Call, IInv
<1>3. CASE UNCHANGED vars
  BY <1>1, <1>3 DEF vars, IInv
<1>4. ASSUME NEW w \in Workers, UpdateTime(w) PROVE IInv'
  <2>1. clock[w] \in StartTime..MaxTime /\ clock[w] < MaxTime
    BY <1>1, <1>4 DEF UpdateTime
  <2>2. clock[w] + 1 \in StartTime..MaxTime
    BY <2>1, DictAssumption
  <2>3. clock' \in [Workers -> StartTime..MaxTime]
    BY <1>1, <1>4, <2>2 DEF UpdateTime
  <2>. QED
    BY <1>1, <1>4, <2>3 DEF UpdateTime, IInv
<1>5. ASSUME NEW w \in Workers, StoreCall(w) PROVE IInv'
  <2>1. PICK op \in StoreOps, k \in Keys, v \in Values, ttl \in TTLs :
             Call(w, Store(dict, op, k, v, ttl, clock[w]))
    BY <1>5 DEF StoreCall
  <2>2. clock[w] \in StartTime..MaxTime
    BY <1>1
  <2>3. Consistent(Store(dict, op, k, v, ttl, clock[w]).dict, Latest)
    BY <1>1, <2>2, StoresInTime DEF Stored
  <2>. QED
    BY <1>2, <2>1, <2>3
<1>6. ASSUME NEW w \in Workers, IncrCall(w) PROVE IInv'
  <2>1. PICK k \in Keys, hasInit \in BOOLEAN, ttl \in TTLs :
             Call(w, Incr(dict, k, hasInit, ttl, clock[w]))
    BY <1>6 DEF IncrCall
  <2>2. clock[w] \in StartTime..MaxTime
    BY <1>1
  <2>3. Consistent(Incr(dict, k, hasInit, ttl, clock[w]).dict, Latest)
    BY <1>1, <2>2, IncrKeeps, ExpiresInTime DEF Stored
  <2>. QED
    BY <1>2, <2>1, <2>3
<1>7. ASSUME NEW w \in Workers,
             DeleteCall(w) \/ GetCall(w) \/ GetStaleCall(w) \/ LlenCall(w) \/ PopCall(w)
      PROVE  IInv'
  <2>1. PICK k \in Keys : \/ Call(w, Delete(dict, k, clock[w]))
                          \/ Call(w, Get(dict, k, clock[w]))
                          \/ Call(w, GetStale(dict, k, clock[w]))
                          \/ Call(w, Llen(dict, k, clock[w]))
                          \/ Call(w, Pop(dict, k, clock[w]))
    BY <1>7 DEF DeleteCall, GetCall, GetStaleCall, LlenCall, PopCall
  <2>2. /\ Consistent(Delete(dict, k, clock[w]).dict, Latest)
        /\ Consistent(Get(dict, k, clock[w]).dict, Latest)
        /\ Consistent(GetStale(dict, k, clock[w]).dict, Latest)
        /\ Consistent(Llen(dict, k, clock[w]).dict, Latest)
        /\ Consistent(Pop(dict, k, clock[w]).dict, Latest)
    BY <1>1, DeleteKeeps, LooksKeep, PopKeeps, ExpiresInTime DEF Stored
  <2>. QED
    BY <1>2, <2>1, <2>2
<1>8. ASSUME NEW w \in Workers, FlushExpiredCall(w) PROVE IInv'
  <2>1. PICK n \in 0..1 : Call(w, FlushExpired(dict, n, clock[w]))
    BY <1>8 DEF FlushExpiredCall
  <2>2. Consistent(FlushExpired(dict, n, clock[w]).dict, Latest)
    BY <1>1, ExpiredFlushed, ExpiresInTime
  <2>. QED
    BY <1>2, <2>1, <2>2
<1>9. ASSUME NEW w \in Workers, FlushAllCall(w) PROVE IInv'
  <2>1. Consistent(FlushAll(dict, clock[w]).dict, Latest)
    BY <1>1, FlushAllKeeps, ExpiresInTime
  <2>. QED
    BY <1>2, <1>9, <2>1 DEF FlushAllCall
<1>10. ASSUME NEW w \in Workers, SetExpireCall(w) PROVE IInv'
  <2>1. PICK k \in Keys, ttl \in TTLs : Call(w, SetExpire(dict, k, ttl, clock[w]))
    BY <1>10 DEF SetExpireCall
  <2>2. clock[w] \in StartTime..MaxTime
    BY <1>1
  <2>3. Consistent(SetExpire(dict, k, ttl, clock[w]).dict, Latest)
    BY <1>1, <2>2, SetExpireKeeps, ExpiresInTime
  <2>. QED
    BY <1>2, <2>1, <2>3
<1>11. ASSUME NEW w \in Workers, NEW k \in Keys, PushCall(w, k) PROVE IInv'
  <2>1. PICK a : a = Push(dict, k, clock[w])
    OBVIOUS
  <2>2. Consistent(a.dict, Latest) /\ Pushed(a, k)
    BY <1>1, <2>1, PushKeeps, ExpiresInTime DEF Stored
  <2>3. /\ dict' = a.dict /\ clock' = clock
        /\ pend' = [pend EXCEPT ![w] =
                       IF a.res = "ok" THEN [key |-> k, len |-> a.dict.tree[k].len]
                                       ELSE NoPush]
    BY <1>11, <2>1 DEF PushCall
  <2>4. pend' \in [Workers -> {NoPush} \cup [key : Keys, len : 1..Capacity]]
    <3>1. CASE a.res = "ok"
      <4>1. a.dict.tree[k].len \in 1..Capacity
        BY <2>2, <3>1 DEF Pushed
      <4>2. [key |-> k, len |-> a.dict.tree[k].len] \in [key : Keys, len : 1..Capacity]
        BY <4>1
      <4>. QED
        BY <1>1, <2>3, <3>1, <4>2
    <3>2. CASE a.res # "ok"
      BY <1>1, <2>3, <3>2
    <3>. QED
      BY <3>1, <3>2
  <2>. QED
    BY <1>1, <2>2, <2>3, <2>4 DEF IInv
<1>12. ASSUME NEW w \in Workers, NEW n \in 0..Capacity, PushReturns(w, n) PROVE IInv'
  BY <1>1, <1>12 DEF PushReturns, IInv
<1>. QED
  BY <1>3, <1>4, <1>5, <1>6, <1>7, <1>8, <1>9, <1>10, <1>11, <1>12 DEF Next

LEMMA Invariant == Spec => []IInv
BY InitIInv, NextIInv, PTL DEF Spec

----------------------------------------------------------------------------
(* Type correctness and the consistency of the zone.                       *)

LEMMA IInvTypeOK == IInv => TypeOK
<1>. SUFFICES ASSUME IInv PROVE TypeOK
  OBVIOUS
<1>1. Sound(dict, Latest)
  BY DEF IInv, Consistent
<1>2. ASSUME NEW k \in Present(dict)
      PROVE  /\ dict.tree[k].type \in Types
             /\ dict.tree[k].len \in 0..Capacity
             /\ dict.tree[k].expires \in 0..(MaxTime + Max(TTLs))
  <2>1. /\ dict.tree[k] \in Entries(Latest) \cup {NoEntry} /\ dict.tree[k] # NoEntry
        /\ Size(dict.tree[k]) <= dict.used /\ dict.used <= Capacity
        /\ dict.used \in Nat /\ Capacity \in Nat /\ Size(dict.tree[k]) \in Nat
    BY <1>1, <1>2, DictFields, ExpiresInTime DEF Present
  <2>2. /\ dict.tree[k].type \in Types /\ dict.tree[k].len \in Nat
        /\ dict.tree[k].expires \in 0..Latest
    BY <2>1 DEF Entries
  <2>3. Size(dict.tree[k]) = 1 + dict.tree[k].len \/ Size(dict.tree[k]) = dict.tree[k].len
    BY <2>1, EntrySizes, ExpiresInTime
  <2>4. dict.tree[k].len \in 0..Capacity
    BY <2>1, <2>2, <2>3
  <2>. QED
    BY <2>2, <2>4 DEF Latest
<1>3. dict.lru \in Seq(Keys) /\ dict.used \in 0..Capacity
  BY <1>1, CoreAssumption DEF Sound, Dicts
<1>. QED
  BY <1>2, <1>3 DEF IInv, TypeOK

\* What a zone holds stays within its types and its memory, and no cached
\* clock leaves the span of the behaviour, for any keys, workers and capacity.
THEOREM TypeSafe == Spec => []TypeOK
BY Invariant, IInvTypeOK, PTL

LEMMA IInvZone == IInv => ZoneConsistent
<1>. SUFFICES ASSUME IInv PROVE ZoneConsistent
  OBVIOUS
<1>1. /\ Range(dict.lru) = Present(dict) /\ IsInjective(dict.lru)
      /\ dict.lru \in Seq(Keys) /\ dict.used = Memory(dict.tree)
  BY DEF IInv, Consistent, Sound, Dicts
<1>2. Len(dict.lru) = Cardinality(Present(dict))
  BY <1>1, QueueCardinality
<1>3. \A k \in Present(dict) : dict.tree[k].len > 0
  BY DEF IInv, Consistent, Filled
<1>. QED
  BY <1>1, <1>2, <1>3 DEF ZoneConsistent, Memory

\* The tree and the queue hold the same nodes, no memory leaks or is freed
\* twice and no empty list is visible, whatever calls of whatever workers
\* interleave, for any number of keys, sizes of values and capacity.
THEOREM ZoneSafe == Spec => []ZoneConsistent
BY Invariant, IInvZone, PTL

----------------------------------------------------------------------------
(* Who may drop whose items.                                               *)

LEMMA SparingOthers ==
    ASSUME NEW a, NEW k \in Keys, NEW now,
           Spares(dict, a.dict, {k}, now)
    PROVE  SparesOthers(a, k, now)
BY DEF Spares, SparesOthers, Alive

LEMMA IInvGentle == IInv => GentleCallsSpareOthers
<1>. SUFFICES ASSUME IInv, NEW w \in Workers, NEW k \in Keys, NEW now, now = clock[w]
              PROVE  /\ \A op \in {"safe_set", "safe_add"}, v \in Values, ttl \in TTLs :
                           SparesOthers(Store(dict, op, k, v, ttl, now), k, now)
                     /\ SparesOthers(Incr(dict, k, FALSE, 0, now), k, now)
                     /\ SparesOthers(Delete(dict, k, now), k, now)
                     /\ SparesOthers(Get(dict, k, now), k, now)
                     /\ SparesOthers(Llen(dict, k, now), k, now)
                     /\ SparesOthers(Push(dict, k, now), k, now)
                     /\ SparesOthers(Pop(dict, k, now), k, now)
                     /\ SparesOthers(FlushExpired(dict, 0, now), k, now)
  BY DEF GentleCallsSpareOthers
<1>1. Consistent(dict, Latest) /\ now \in StartTime..MaxTime
  BY DEF IInv
<1>2. ASSUME NEW r, Stored(dict, r, k, now, Latest), r.forcible = FALSE
      PROVE  SparesOthers(r, k, now)
  BY <1>2, SparingOthers DEF Stored
<1>3. ASSUME NEW op \in {"safe_set", "safe_add"}, NEW v \in Values, NEW ttl \in TTLs
      PROVE  SparesOthers(Store(dict, op, k, v, ttl, now), k, now)
  BY <1>1, <1>2, StoresInTime
<1>4. SparesOthers(Incr(dict, k, FALSE, 0, now), k, now)
  <2>1. Expires(0, now) \in 0..Latest
    BY ExpiresInTime DEF Expires
  <2>2. PICK r : r = Incr(dict, k, FALSE, 0, now)
    OBVIOUS
  <2>3. Latest \in Nat
    BY ExpiresInTime
  <2>4. Stored(dict, r, k, now, Latest)
    BY <1>1, <2>1, <2>2, <2>3, IncrKeeps
  <2>5. r.forcible = FALSE
    BY <2>2 DEF Incr, Answer
  <2>. QED
    BY <1>2, <2>2, <2>4, <2>5
<1>5. SparesOthers(Delete(dict, k, now), k, now)
  BY <1>1, <1>2, DeleteKeeps, ExpiresInTime
<1>6. SparesOthers(Get(dict, k, now), k, now) /\ SparesOthers(Llen(dict, k, now), k, now)
  BY <1>1, <1>2, LooksKeep, ExpiresInTime
<1>7. SparesOthers(Push(dict, k, now), k, now)
  BY <1>1, <1>2, PushKeeps, ExpiresInTime
<1>8. SparesOthers(Pop(dict, k, now), k, now)
  BY <1>1, <1>2, PopKeeps, ExpiresInTime
<1>9. SparesOthers(FlushExpired(dict, 0, now), k, now)
  BY <1>1, ExpiredFlushed, ExpiresInTime, LeavingAside, SparingOthers DEF Gentle
<1>. QED
  BY <1>3, <1>4, <1>5, <1>6, <1>7, <1>8, <1>9

\* safe_set, safe_add, the list operations and every call that stores nothing
\* leave the unexpired items of all other keys alone in every reachable zone,
\* full or not, of any capacity.
THEOREM GentleSafe == Spec => []GentleCallsSpareOthers
BY Invariant, IInvGentle, PTL

LEMMA EvictingOldestFirst ==
    ASSUME NEW a, NEW k \in Keys, NEW now,
           Sound(dict, Latest), Stored(dict, a, k, now, Latest)
    PROVE  EvictsOldestFirst(a, k, now)
<1>. SUFFICES ASSUME NEW i \in DOMAIN dict.lru, NEW j, j = dict.lru[i],
                     j # k, Alive(dict, j, now), a.dict.tree[j] = NoEntry
              PROVE  /\ a.forcible
                     /\ \A m \in (i + 1)..Len(dict.lru) :
                           dict.lru[m] # k => a.dict.tree[dict.lru[m]] = NoEntry
  BY DEF EvictsOldestFirst
<1>1. dict.lru \in Seq(Keys)
  BY DEF Sound, Dicts
<1>2. DOMAIN dict.lru = 1..Len(dict.lru) /\ Len(dict.lru) \in Nat
  BY <1>1, LenProperties
<1>3. j \in Keys \ {k} /\ ~HasExpired(dict.tree[j], now) /\ dict.tree[j] # NoEntry
  BY <1>1, <1>2 DEF Alive
<1>4. a.forcible
  BY <1>3 DEF Stored, Spares
<1>5. ASSUME NEW m \in (i + 1)..Len(dict.lru), dict.lru[m] # k
      PROVE  a.dict.tree[dict.lru[m]] = NoEntry
  <2>1. m \in DOMAIN dict.lru /\ i < m
    BY <1>2
  <2>2. PICK y : y = dict.lru[m]
    OBVIOUS
  <2>3. Before(dict.lru, j, y)
    BY <2>1, <2>2 DEF Before
  <2>4. y \in Keys \ {k}
    BY <1>1, <1>2, <1>5, <2>1, <2>2
  <2>5. Trims(dict, a.dict, {k}, now)
    BY DEF Stored
  <2>. QED
    BY <1>3, <2>2, <2>3, <2>4, <2>5 DEF Trims
<1>. QED
  BY <1>4, <1>5

LEMMA IInvLRU == IInv => EvictionIsLRU
<1>. SUFFICES ASSUME IInv, NEW w \in Workers, NEW k \in Keys, NEW ttl \in TTLs,
                     NEW now, now = clock[w]
              PROVE  /\ \A op \in {"set", "add", "replace"}, v \in Values :
                           EvictsOldestFirst(Store(dict, op, k, v, ttl, now), k, now)
                     /\ EvictsOldestFirst(Incr(dict, k, TRUE, ttl, now), k, now)
  BY DEF EvictionIsLRU
<1>1. Consistent(dict, Latest) /\ Sound(dict, Latest) /\ now \in StartTime..MaxTime
  BY DEF IInv, Consistent
<1>2. ASSUME NEW op \in {"set", "add", "replace"}, NEW v \in Values
      PROVE  EvictsOldestFirst(Store(dict, op, k, v, ttl, now), k, now)
  BY <1>1, StoresInTime, EvictingOldestFirst
<1>3. EvictsOldestFirst(Incr(dict, k, TRUE, ttl, now), k, now)
  BY <1>1, IncrKeeps, ExpiresInTime, EvictingOldestFirst
<1>. QED
  BY <1>2, <1>3

\* set, add, replace and incr drop an unexpired item of another key only when
\* they report forcible and after everything less recently used, through all
\* thirty rounds of eviction, for any queue and capacity.
THEOREM EvictionSafe == Spec => []EvictionIsLRU
BY Invariant, IInvLRU, PTL

----------------------------------------------------------------------------
(* The inductive invariant of RestyLock.                                   *)

\* No lease ends, and no entry expires, later than a lock taken right now.
LastEnd == Base + Exptime

\* Everything in the zone is a lock.
OnlyLocks(D) ==
    \A j \in Present(D) : D.tree[j].type = Locked.type /\ D.tree[j].len = Locked.len

ZoneInv == Consistent(dict, LastEnd) /\ OnlyLocks(dict)

TimeInv ==
    /\ clock \in [Workers -> (Base - MaxLag)..Base]
    /\ timeout \in [Lockers -> 0..Timeout]
    /\ step \in [Lockers -> 0..Max({Step, MaxStep})]
    /\ wake \in [Lockers -> Nat]
    /\ lease \in [Lockers -> Times]

\* What the fields of an object say of each other.
ObjectInv ==
    /\ pc \in [Lockers -> {"none", "idle", "sleeping"}]
    /\ key_id \in [Lockers -> Nat] /\ dict_id \in [Lockers -> Nat]
    /\ owner \in Lockers \cup {NoLocker} /\ disturbed \in BOOLEAN
    /\ \A l \in Lockers : /\ pc[l] = "none" <=> dict_id[l] = 0
                          /\ pc[l] # "idle" => key_id[l] = 0

Memos == [free : Seq(Nat), refs : Seq({"key", "dict", "free"})]

\* The slots of the free list are different, and free.
FreeSlots(m) ==
    /\ m \in Memos /\ IsInjective(m.free)
    /\ \A s \in Range(m.free) : s \in DOMAIN m.refs /\ m.refs[s] = "free"

\* The handles K of the objects S have slots of their own that hold val.
OwnSlots(m, S, K, val) ==
    /\ \A l \in S : K[l] \in Nat
    /\ \A l \in S : K[l] > 0 => K[l] \in DOMAIN m.refs /\ m.refs[K[l]] = val
    /\ \A l1, l2 \in S : K[l1] > 0 /\ K[l1] = K[l2] => l1 = l2

Live(S, K) == {l \in S : K[l] > 0}

\* Every slot is free or somebody's.
MemoSound(m, S, K, valK, D, valD) ==
    /\ FreeSlots(m)
    /\ OwnSlots(m, S, K, valK) /\ OwnSlots(m, S, D, valD)
    /\ Cardinality(Live(S, K)) + Cardinality(Live(S, D)) + Len(m.free) = Len(m.refs)

At(w) == {l \in Lockers : Home[l] = w}

MemoInv ==
    /\ memo \in [Workers -> Memos]
    /\ \A w \in Workers : MemoSound(memo[w], At(w), key_id, "key", dict_id, "dict")

LockInv == ZoneInv /\ TimeInv /\ ObjectInv /\ MemoInv /\ MutualExclusion

----------------------------------------------------------------------------
(* What a call answers about its own key.                                  *)

Unexpired(D, k, now) == D.tree[k] # NoEntry /\ ~HasExpired(D.tree[k], now)

\* Only k may have got another entry, and that is e.
Owned(D, r, k, e) ==
    /\ \A j \in Keys \ {k} : r.dict.tree[j] \in {D.tree[j], NoEntry}
    /\ r.dict.tree[k] \in {D.tree[k], NoEntry, e}
    /\ r.res = "ok" => r.dict.tree[k] = e

LEMMA UnexpiredFound ==
    ASSUME NEW L \in Nat, NEW D, Consistent(D, L), NEW k \in Keys, NEW now \in Nat,
           Unexpired(D, k, now)
    PROVE  /\ ExpireSome(D, now).tree[k] = D.tree[k]
           /\ Lookup(ExpireSome(D, now), k, now) = "ok"
<1>1. PICK E : E = ExpireSome(D, now)
  OBVIOUS
<1>2. Gentle(D, E, {}, now)
  BY <1>1, SomeExpired
<1>3. E.tree[k] = D.tree[k] /\ E.tree[k] # NoEntry /\ ~HasExpired(E.tree[k], now)
  BY <1>2 DEF Gentle, Spares, Unexpired
<1>4. E.tree[k].expires \in Nat
  BY <1>3, DictFields DEF Consistent, Entries
<1>. QED
  BY <1>1, <1>3, <1>4 DEF Lookup, HasExpired

LEMMA InsertedOwn ==
    ASSUME NEW L \in Nat, NEW D, Consistent(D, L), NEW k \in Keys, D.tree[k] = NoEntry,
           NEW e \in Entries(L), e.len > 0,
           NEW safe \in BOOLEAN, NEW now
    PROVE  Owned(D, InsertNew(D, k, e, safe, now), k, e)
<1>1. PICK r : r = InsertNew(D, k, e, safe, now)
  OBVIOUS
<1>2. Trims(D, r.dict, {k}, now)
  BY <1>1, Inserted DEF Stored
<1>3. \A j \in Keys \ {k} : r.dict.tree[j] \in {D.tree[j], NoEntry}
  BY <1>2 DEF Trims
<1>4. D.tree \in Trees(L)
  BY DictFields DEF Consistent
<1>5. PICK a : a = AllocByForce(D, Size(e), now)
  OBVIOUS
<1>6. Consistent(a.dict, L) /\ Trims(D, a.dict, {}, now)
  BY <1>5, Evicted DEF Evicting
<1>7. a.dict.tree[k] = NoEntry /\ a.dict.tree \in Trees(L)
  BY <1>6, DictFields DEF Trims, Consistent
<1>8. /\ PutEntry(D, k, e).tree[k] = e
      /\ PutEntry(a.dict, k, e).tree[k] = e
  BY <1>4, <1>7 DEF PutEntry, ToHead, Trees
<1>9. \/ r.dict = PutEntry(D, k, e)
      \/ r.dict = PutEntry(a.dict, k, e)
      \/ r.dict = a.dict /\ r.res # "ok"
      \/ r.dict = D /\ r.res # "ok"
  BY <1>1, <1>5 DEF InsertNew, Answer
<1>10. r.dict.tree[k] = e \/ (r.dict.tree[k] = NoEntry /\ r.res # "ok")
  BY <1>7, <1>8, <1>9
<1>. QED
  BY <1>1, <1>3, <1>10 DEF Owned

\* add and replace of a boolean in a zone of booleans.
LEMMA StoreOwn ==
    ASSUME NEW L \in Nat, NEW D, Consistent(D, L), OnlyLocks(D), NEW k \in Keys,
           NEW op \in {"add", "replace"}, NEW ttl, NEW now \in Nat,
           Expires(ttl, now) \in 0..L,
           NEW r, r = Store(D, op, k, Locked, ttl, now),
           NEW e, e = Scalar(Locked.type, Locked.len, Expires(ttl, now))
    PROVE  /\ Owned(D, r, k, e)
           /\ op = "add" /\ Unexpired(D, k, now)
                => r.res = "exists" /\ r.dict.tree[k] = D.tree[k]
           /\ op = "replace" /\ Unexpired(D, k, now) => r.res = "ok"
<1>1. PICK E : E = ExpireSome(D, now)
  OBVIOUS
<1>2. Consistent(E, L) /\ Trims(D, E, {}, now)
  BY <1>1, SomeExpired DEF Gentle
<1>3. \A j \in Keys : E.tree[j] \in {D.tree[j], NoEntry}
  BY <1>2 DEF Trims
<1>4. PICK F : F = LookedUp(E, k, now)
  OBVIOUS
<1>5. Consistent(F, L) /\ F.tree = E.tree
  BY <1>2, <1>4, Found
<1>6. e \in Entries(L) /\ e.len > 0 /\ e.len = 1
  BY DEF Scalar, Locked, Entries, Types
<1>7. PICK G : G = RemoveKey(F, k)
  OBVIOUS
<1>8. /\ Consistent(G, L) /\ G.tree[k] = NoEntry
      /\ \A j \in Keys \ {k} : G.tree[j] = F.tree[j]
  <2>1. Sound(F, L)
    BY <1>5 DEF Consistent
  <2>2. Touches(F, G, k)
    BY <1>7, <2>1, Removed
  <2>. QED
    BY <1>5, <1>7, <2>2, RemovedGently DEF Touches
<1> DEFINE safe == op \in {"safe_set", "safe_add"}
<1>9. PICK n : n = InsertNew(G, k, e, safe, now)
  OBVIOUS
<1>10. Owned(G, n, k, e)
  <2>1. safe \in BOOLEAN
    OBVIOUS
  <2>. HIDE DEF safe
  <2>. QED
    BY <2>1, <1>6, <1>8, <1>9, InsertedOwn
<1>11. Owned(D, n, k, e)
  BY <1>3, <1>5, <1>8, <1>10 DEF Owned
<1>12. PICK P : P = PutEntry(F, k, e)
  OBVIOUS
<1>13. /\ P.tree[k] = e
       /\ \A j \in Keys \ {k} : P.tree[j] = F.tree[j]
  BY <1>5, <1>12, DictFields DEF PutEntry, ToHead, Trees, Consistent
<1>14. Owned(D, Answer(P, "ok"), k, e)
  BY <1>3, <1>5, <1>13 DEF Owned, Answer
<1>15. /\ Owned(D, Answer(E, "not found"), k, e)
       /\ Owned(D, Answer(F, "exists"), k, e)
  BY <1>3, <1>5 DEF Owned, Answer
<1>16. PICK o : o = Overwrite(F, k, e, safe, now)
  OBVIOUS
<1>17. /\ Reusable(F, k, e.len) => o = Answer(P, "ok")
       /\ ~Reusable(F, k, e.len) => o = n
  BY <1>7, <1>9, <1>12, <1>16 DEF Overwrite
<1>18. \/ op = "replace" /\ Lookup(E, k, now) # "ok" /\ r = Answer(E, "not found")
       \/ op = "add" /\ Lookup(E, k, now) = "ok" /\ r = Answer(F, "exists")
       \/ op = "replace" /\ Lookup(E, k, now) = "ok" /\ r = o
       \/ op = "add" /\ Lookup(E, k, now) # "ok" /\ r = o
  BY <1>1, <1>4, <1>16 DEF Store
<1>19. Owned(D, r, k, e)
  BY <1>11, <1>14, <1>15, <1>17, <1>18
<1>20. ASSUME Unexpired(D, k, now)
       PROVE  Lookup(E, k, now) = "ok" /\ E.tree[k] = D.tree[k] /\ Reusable(F, k, e.len)
  <2>1. Lookup(E, k, now) = "ok" /\ E.tree[k] = D.tree[k]
    BY <1>1, <1>20, UnexpiredFound
  <2>2. D.tree[k] # NoEntry /\ D.tree[k].type = "boolean" /\ D.tree[k].len = 1
    BY <1>20 DEF OnlyLocks, Unexpired, Present, Locked
  <2>. QED
    BY <1>5, <1>6, <2>1, <2>2 DEF Reusable
<1>21. op = "add" /\ Unexpired(D, k, now)
           => r.res = "exists" /\ r.dict.tree[k] = D.tree[k]
  BY <1>5, <1>18, <1>20 DEF Answer
<1>22. op = "replace" /\ Unexpired(D, k, now) => r.res = "ok"
  BY <1>17, <1>18, <1>20 DEF Answer
<1>. QED
  BY <1>19, <1>21, <1>22

LEMMA DeleteOwn ==
    ASSUME NEW L \in Nat, NEW D, Consistent(D, L), NEW k \in Keys, NEW now
    PROVE  \A j \in Keys : Delete(D, k, now).dict.tree[j] \in {D.tree[j], NoEntry}
<1>1. PICK E : E = ExpireSome(D, now)
  OBVIOUS
<1>2. Consistent(E, L) /\ \A j \in Keys : E.tree[j] \in {D.tree[j], NoEntry}
  BY <1>1, SomeExpired DEF Gentle, Trims
<1>3. PICK F : F = RemoveKey(E, k)
  OBVIOUS
<1>4. F.tree[k] = NoEntry /\ \A j \in Keys \ {k} : F.tree[j] = E.tree[j]
  <2>1. Sound(E, L)
    BY <1>2 DEF Consistent
  <2>2. F.tree[k] = NoEntry /\ Touches(E, F, k)
    BY <1>3, <2>1, Removed
  <2>. QED
    BY <2>2 DEF Touches
<1>5. Delete(D, k, now).dict = F
  BY <1>1, <1>3 DEF Delete, Answer
<1>. QED
  BY <1>2, <1>4, <1>5

\* E is D with other times of expiry.
Redates(D, E, L) ==
    /\ E = [tree |-> E.tree, lru |-> D.lru, used |-> D.used]
    /\ E.tree \in Trees(L)
    /\ \A j \in Keys : E.tree[j] = NoEntry <=> D.tree[j] = NoEntry
    /\ \A j \in Present(D) : /\ E.tree[j].type = D.tree[j].type
                             /\ E.tree[j].len = D.tree[j].len

LEMMA Redated ==
    ASSUME NEW L \in Nat, NEW D, Consistent(D, L), NEW E, Redates(D, E, L)
    PROVE  Consistent(E, L) /\ (OnlyLocks(D) => OnlyLocks(E))
<1>1. /\ E = [tree |-> E.tree, lru |-> D.lru, used |-> D.used]
      /\ E.tree \in Trees(L) /\ D.tree \in Trees(L) /\ Sound(D, L) /\ Filled(D)
      /\ E.lru = D.lru /\ E.used = D.used /\ D.lru \in Seq(Keys) /\ D.used \in Nat
  BY DEF Redates, Consistent, Sound, Dicts
<1>2. Present(E) = Present(D)
  BY DEF Redates, Present
<1>3. \A j \in Keys : Size(E.tree[j]) = Size(D.tree[j])
  BY DEF Redates, Present, Size
<1>4. Memory(E.tree) = Memory(D.tree)
  BY <1>1, <1>3, MemorySame
<1>5. Sound(E, L)
  BY <1>1, <1>2, <1>4 DEF Sound, Dicts
<1>6. Filled(E)
  BY <1>1, <1>2 DEF Filled, Redates
<1>7. OnlyLocks(D) => OnlyLocks(E)
  BY <1>2 DEF OnlyLocks, Redates
<1>. QED
  BY <1>5, <1>6, <1>7 DEF Consistent

----------------------------------------------------------------------------
(* The zone.                                                               *)

LEMMA LockConstants ==
    /\ Base \in Nat /\ MaxLag \in Nat /\ Base > MaxLag + 1
    /\ Exptime \in Nat /\ Exptime > 0 /\ LastEnd \in Nat /\ LastEnd = Base + Exptime
    /\ Timeout \in Nat /\ Step \in Nat /\ MaxStep \in Nat
    /\ 0 < Step /\ Step <= Timeout /\ MaxStep > 0
    /\ LockKey \in Keys /\ NoLocker \notin Lockers /\ IsFiniteSet(Lockers)
    /\ Home \in [Lockers -> Workers] /\ Times = 0..LastEnd
BY LockAssumption DEF LastEnd, Times

\* What the clocks of the workers can show.
LEMMA ClockFacts ==
    ASSUME TimeInv, NEW w \in Workers
    PROVE  /\ clock[w] \in Nat /\ clock[w] <= Base /\ clock[w] > 1
           /\ clock[w] + Exptime \in 0..LastEnd
           /\ Expires(Exptime, clock[w]) = clock[w] + Exptime
           /\ Expires(Exptime, clock[w]) \in 0..LastEnd
<1>1. clock[w] \in (Base - MaxLag)..Base
  BY DEF TimeInv
<1>2. clock[w] \in Nat /\ clock[w] <= Base /\ clock[w] > 1
  BY <1>1, LockConstants
<1>3. clock[w] + Exptime \in 0..LastEnd
  BY <1>2, LockConstants
<1>4. Expires(Exptime, clock[w]) = clock[w] + Exptime
  BY LockConstants DEF Expires
<1>. QED
  BY <1>2, <1>3, <1>4

\* add and replace keep the zone a zone of locks.
LEMMA LockStored ==
    ASSUME ZoneInv, TimeInv, NEW op \in {"add", "replace"}, NEW k \in Keys,
           NEW w \in Workers,
           NEW r, r = Store(dict, op, k, Locked, Exptime, clock[w])
    PROVE  /\ Consistent(r.dict, LastEnd) /\ OnlyLocks(r.dict)
           /\ \A j \in Keys \ {k} : r.dict.tree[j] \in {dict.tree[j], NoEntry}
           /\ r.res = "ok" => /\ r.dict.tree[k] # NoEntry
                              /\ r.dict.tree[k].expires = clock[w] + Exptime
           /\ op = "add" /\ Unexpired(dict, k, clock[w])
                => r.res = "exists" /\ r.dict.tree[k] = dict.tree[k]
           /\ op = "replace" /\ Unexpired(dict, k, clock[w]) => r.res = "ok"
<1>1. PICK now \in Nat : now = clock[w]
  BY ClockFacts
<1>2. /\ LastEnd \in Nat /\ Consistent(dict, LastEnd) /\ OnlyLocks(dict)
      /\ Expires(Exptime, now) \in 0..LastEnd /\ Expires(Exptime, now) = now + Exptime
  BY <1>1, ClockFacts, LockConstants DEF ZoneInv
<1>3. PICK e : e = Scalar(Locked.type, Locked.len, Expires(Exptime, now))
  OBVIOUS
<1>4. /\ e.type = Locked.type /\ e.len = Locked.len /\ e.expires = now + Exptime
      /\ e \in Entries(LastEnd)
  BY <1>2, <1>3 DEF Scalar, Locked, Entries, Types
<1>5. e # NoEntry
  BY <1>2, <1>4, EntrySizes
<1>6. /\ Owned(dict, r, k, e)
      /\ op = "add" /\ Unexpired(dict, k, now)
           => r.res = "exists" /\ r.dict.tree[k] = dict.tree[k]
      /\ op = "replace" /\ Unexpired(dict, k, now) => r.res = "ok"
  BY <1>1, <1>2, <1>3, StoreOwn
<1>7. Consistent(r.dict, LastEnd)
  <2>1. /\ Locked.type \in Types \ {"list"} /\ Locked.len \in Nat /\ Locked.len > 0
    BY DEF Locked, Types
  <2>. QED
    BY <1>1, <1>2, <2>1, StoreKeeps DEF Stored
<1>8. OnlyLocks(r.dict)
  BY <1>2, <1>4, <1>6 DEF Owned, OnlyLocks, Present
<1>. QED
  BY <1>1, <1>4, <1>5, <1>6, <1>7, <1>8 DEF Owned

\* Tick moves the entries into the past.
LEMMA TickRedates ==
    ASSUME ZoneInv, Tick
    PROVE  /\ Redates(dict, dict', LastEnd)
           /\ \A j \in Present(dict) :
                 dict'.tree[j].expires = Earlier(dict.tree[j].expires)
<1>1. /\ Consistent(dict, LastEnd) /\ Sound(dict, LastEnd) /\ dict \in Dicts(LastEnd)
      /\ dict.tree \in Trees(LastEnd) /\ LastEnd \in Nat
  BY LockConstants DEF ZoneInv, Consistent, Sound, Dicts
<1>2. PICK T : T = [k \in Keys |->
                      IF dict.tree[k] = NoEntry THEN NoEntry
                      ELSE [dict.tree[k] EXCEPT !.expires = Earlier(dict.tree[k].expires)]]
  OBVIOUS
<1>3. dict' = [dict EXCEPT !.tree = T]
  BY <1>2 DEF Tick
<1>4. /\ dict' = [tree |-> dict'.tree, lru |-> dict.lru, used |-> dict.used]
      /\ dict'.tree = T
  BY <1>1, <1>3 DEF Dicts
<1>5. ASSUME NEW j \in Present(dict)
      PROVE  /\ T[j] \in Entries(LastEnd) /\ T[j] # NoEntry
             /\ T[j].type = dict.tree[j].type /\ T[j].len = dict.tree[j].len
             /\ T[j].expires = Earlier(dict.tree[j].expires)
  <2>1. j \in Keys /\ dict.tree[j] \in Entries(LastEnd) /\ dict.tree[j] # NoEntry
    BY <1>1, DictFields DEF Present
  <2>2. PICK x : x = Earlier(dict.tree[j].expires)
    OBVIOUS
  <2>3. x \in 0..LastEnd
    BY <1>1, <2>1, <2>2 DEF Entries, Earlier
  <2>4. T[j] = [dict.tree[j] EXCEPT !.expires = x]
    BY <1>2, <2>1, <2>2
  <2>5. /\ T[j] \in Entries(LastEnd) /\ T[j].expires = x
        /\ T[j].type = dict.tree[j].type /\ T[j].len = dict.tree[j].len
    BY <2>1, <2>3, <2>4 DEF Entries
  <2>6. T[j] # NoEntry
    BY <1>1, <2>5, EntrySizes
  <2>. QED
    BY <2>2, <2>5, <2>6
<1>6. \A j \in Keys : j \notin Present(dict) => T[j] = NoEntry /\ dict.tree[j] = NoEntry
  BY <1>2 DEF Present
<1>7. T \in Trees(LastEnd)
  <2>1. \A j \in Keys : T[j] \in Entries(LastEnd) \cup {NoEntry}
    BY <1>5, <1>6
  <2>2. T = [j \in Keys |-> T[j]]
    BY <1>2
  <2>. QED
    BY <2>1, <2>2 DEF Trees
<1>8. \A j \in Keys : T[j] = NoEntry <=> dict.tree[j] = NoEntry
  BY <1>5, <1>6 DEF Present
<1>. QED
  BY <1>4, <1>5, <1>7, <1>8 DEF Redates

\* One step of a locker, the environment or time.
LEMMA ZoneKept ==
    ASSUME ZoneInv, TimeInv, [LockNext]_lockVars
    PROVE  ZoneInv'
<1>1. CASE UNCHANGED dict
  BY <1>1 DEF ZoneInv, Consistent, Sound, Filled, OnlyLocks, Present
<1>2. CASE Tick
  <2>1. Consistent(dict', LastEnd) /\ OnlyLocks(dict')
    BY <1>2, TickRedates, Redated, LockConstants DEF ZoneInv
  <2>. QED
    BY <2>1 DEF ZoneInv, Consistent, Sound, Filled, OnlyLocks, Present
<1>3. ASSUME NEW op \in {"add", "replace"}, NEW k \in Keys, NEW w \in Workers,
             dict' = Store(dict, op, k, Locked, Exptime, clock[w]).dict
      PROVE  ZoneInv'
  <2>1. Consistent(dict', LastEnd) /\ OnlyLocks(dict')
    BY <1>3, LockStored
  <2>. QED
    BY <2>1 DEF ZoneInv, Consistent, Sound, Filled, OnlyLocks, Present
<1>4. ASSUME NEW l \in Lockers, DeletesEntry(l) PROVE ZoneInv'
  <2>1. dict' = Delete(dict, LockKey, Now(l)).dict
    BY <1>4 DEF DeletesEntry
  <2>2. Consistent(dict', LastEnd)
    BY <2>1, DeleteKeeps, LockConstants DEF ZoneInv, Stored
  <2>3. \A j \in Keys : dict'.tree[j] \in {dict.tree[j], NoEntry}
    BY <2>1, DeleteOwn, LockConstants DEF ZoneInv
  <2>4. OnlyLocks(dict')
    BY <2>3 DEF ZoneInv, OnlyLocks, Present
  <2>. QED
    BY <2>2, <2>4 DEF ZoneInv, Consistent, Sound, Filled, OnlyLocks, Present
<1>5. ASSUME NEW l \in Lockers, LockerNext(l) PROVE ZoneInv'
  <2>1. Home[l] \in Workers /\ LockKey \in Keys /\ Now(l) = clock[Home[l]]
    BY LockConstants DEF Now
  <2>2. CASE New(l)
    BY <1>1, <2>2 DEF New
  <2>3. CASE LockNow(l) \/ LockWaits(l) \/ LockRetries(l)
    <3>1. dict' = TryAdd(l).dict
      BY <2>3 DEF LockNow, LockWaits, LockRetries
    <3>. QED
      BY <1>3, <2>1, <3>1 DEF TryAdd
  <2>4. CASE ExpireLock(l, Exptime)
    <3>1. dict' = Store(dict, "replace", LockKey, Locked, Exptime, Now(l)).dict
      BY <2>4 DEF ExpireLock
    <3>. QED
      BY <1>3, <2>1, <3>1
  <2>5. CASE Unlock(l)
    BY <1>4, <2>5 DEF Unlock
  <2>6. CASE GcLock(l)
    BY <1>1, <1>4, <2>6 DEF GcLock
  <2>. QED
    BY <1>5, <2>2, <2>3, <2>4, <2>5, <2>6 DEF LockerNext
<1>6. ASSUME NEW w \in Workers, NEW k \in Keys, OtherLock(w, k) PROVE ZoneInv'
  BY <1>3, <1>6 DEF OtherLock
<1>. QED
  BY <1>1, <1>2, <1>5, <1>6 DEF LockNext, lockVars, WorkerUpdatesTime, Crash

----------------------------------------------------------------------------
(* The fields of the objects.                                              *)

LEMMA GreaterOfTwo ==
    ASSUME NEW a \in Nat, NEW b \in Nat
    PROVE  Max({a, b}) \in {a, b} /\ Max({a, b}) >= a /\ Max({a, b}) >= b
<1>1. \E x \in {a, b} : \A y \in {a, b} : x >= y
  <2>1. CASE a >= b
    BY <2>1
  <2>2. CASE b >= a
    BY <2>2
  <2>. QED
    BY <2>1, <2>2
<1>. QED
  BY <1>1 DEF Max

LEMMA StepBounds ==
    /\ Max({Step, MaxStep}) \in Nat
    /\ Step <= Max({Step, MaxStep}) /\ MaxStep <= Max({Step, MaxStep})
BY GreaterOfTwo, LockConstants

LEMMA LeastOf ==
    ASSUME NEW S \in SUBSET Nat, S # {}
    PROVE  Min(S) \in S /\ \A j \in S : Min(S) <= j
<1>1. \E i \in S : \A j \in S : i <= j
  BY LeastMember
<1>. QED
  BY <1>1 DEF Min

LEMMA NextStepBounds ==
    ASSUME NEW l, NEW left \in Nat, step[l] \in Nat
    PROVE  NextStep(l, left) \in 0..Max({Step, MaxStep})
<1>1. Max({1, step[l] * 2}) \in Nat
  <2>1. PICK s \in Nat : s = step[l] * 2
    OBVIOUS
  <2>2. Max({1, s}) \in {1, s}
    BY GreaterOfTwo
  <2>. QED
    BY <2>1, <2>2
<1>2. PICK m \in Nat : m = Max({1, step[l] * 2})
  BY <1>1
<1>3. {m, left, MaxStep} \in SUBSET Nat
  BY LockConstants
<1>4. Min({m, left, MaxStep}) \in Nat /\ Min({m, left, MaxStep}) <= MaxStep
  BY <1>3, LeastOf
<1>. QED
  BY <1>2, <1>4, StepBounds, LockConstants DEF NextStep

LEMMA TimeKept ==
    ASSUME TimeInv, ObjectInv, [LockNext]_lockVars
    PROVE  TimeInv'
<1>1. /\ clock \in [Workers -> (Base - MaxLag)..Base]
      /\ timeout \in [Lockers -> 0..Timeout]
      /\ step \in [Lockers -> 0..Max({Step, MaxStep})]
      /\ wake \in [Lockers -> Nat]
      /\ lease \in [Lockers -> Times]
  BY DEF TimeInv
<1>2. ASSUME UNCHANGED clock, UNCHANGED waiting, lease' \in [Lockers -> Times]
      PROVE  TimeInv'
  BY <1>1, <1>2 DEF TimeInv, waiting
<1>3. ASSUME NEW l \in Lockers
      PROVE  /\ Now(l) \in Nat /\ Now(l) + Exptime \in Times /\ 0 \in Times
  BY LockConstants, ClockFacts DEF Now
<1>4. ASSUME NEW l \in Lockers, NEW left \in 0..Timeout,
             NEW for \in 0..Max({Step, MaxStep}), Sleeps(l, left, for)
      PROVE  /\ timeout' \in [Lockers -> 0..Timeout]
             /\ step' \in [Lockers -> 0..Max({Step, MaxStep})]
             /\ wake' \in [Lockers -> Nat]
  <2>1. for \in Nat /\ Now(l) + for \in Nat
    BY <1>3, StepBounds
  <2>. QED
    BY <1>1, <1>4, <2>1 DEF Sleeps
<1>5. ASSUME NEW l \in Lockers, StopsWaiting(l)
      PROVE  /\ timeout' \in [Lockers -> 0..Timeout]
             /\ step' \in [Lockers -> 0..Max({Step, MaxStep})]
             /\ wake' \in [Lockers -> Nat]
  <2>1. 0 \in 0..Timeout /\ 0 \in 0..Max({Step, MaxStep})
    BY StepBounds, LockConstants
  <2>. QED
    BY <1>1, <1>5, <2>1 DEF StopsWaiting
<1>6. ASSUME NEW l \in Lockers, Acquires(l) PROVE lease' \in [Lockers -> Times]
  BY <1>1, <1>3, <1>6 DEF Acquires
<1>7. CASE UNCHANGED lockVars
  BY <1>1, <1>7 DEF TimeInv, lockVars
<1>8. CASE Tick
  <2>1. clock' \in [Workers -> (Base - MaxLag)..Base]
    <3>1. \A w \in Workers : clock[w] - 1 \in (Base - MaxLag)..Base
      BY <1>1, <1>8, LockConstants DEF Tick
    <3>. QED
      BY <1>8, <3>1 DEF Tick
  <2>2. wake' \in [Lockers -> Nat]
    <3>1. \A l \in Lockers : Earlier(wake[l]) \in Nat
      BY <1>1 DEF Earlier
    <3>. QED
      BY <1>8, <3>1 DEF Tick
  <2>3. lease' \in [Lockers -> Times]
    <3>1. ASSUME NEW l \in Lockers
          PROVE  (IF lease[l] - 1 <= Base THEN 0 ELSE lease[l] - 1) \in Times
      <4>1. lease[l] \in Nat /\ lease[l] <= LastEnd
        BY <1>1, LockConstants
      <4>. QED
        BY <4>1, LockConstants
    <3>. QED
      BY <1>8, <3>1 DEF Tick
  <2>. QED
    BY <1>1, <1>8, <2>1, <2>2, <2>3 DEF TimeInv, Tick
<1>9. ASSUME NEW w \in Workers, WorkerUpdatesTime(w) PROVE TimeInv'
  <2>1. Base \in (Base - MaxLag)..Base
    BY LockConstants
  <2>2. clock' \in [Workers -> (Base - MaxLag)..Base]
    BY <1>1, <1>9, <2>1 DEF WorkerUpdatesTime
  <2>. QED
    BY <1>1, <1>9, <2>2 DEF WorkerUpdatesTime, TimeInv, waiting
<1>10. ASSUME NEW w \in Workers, Crash(w) PROVE TimeInv'
  <2>1. 0 \in 0..Timeout /\ 0 \in 0..Max({Step, MaxStep}) /\ 0 \in Times
    BY StepBounds, LockConstants
  <2>2. /\ timeout' \in [Lockers -> 0..Timeout]
        /\ step' \in [Lockers -> 0..Max({Step, MaxStep})]
        /\ wake' \in [Lockers -> Nat]
        /\ lease' \in [Lockers -> Times]
    BY <1>1, <1>10, <2>1 DEF Crash, Of
  <2>. QED
    BY <1>1, <1>10, <2>2 DEF Crash, TimeInv
<1>11. ASSUME NEW w \in Workers, NEW k \in Keys, OtherLock(w, k) PROVE TimeInv'
  BY <1>1, <1>2, <1>11 DEF OtherLock
<1>12. ASSUME NEW l \in Lockers, New(l) PROVE TimeInv'
  BY <1>1, <1>2, <1>12 DEF New
<1>13. ASSUME NEW l \in Lockers, LockNow(l) PROVE TimeInv'
  <2>1. lease' \in [Lockers -> Times]
    BY <1>1, <1>6, <1>13 DEF LockNow
  <2>. QED
    BY <1>2, <1>13, <2>1 DEF LockNow
<1>14. ASSUME NEW l \in Lockers, LockWaits(l) PROVE TimeInv'
  <2>1. Timeout \in 0..Timeout /\ Step \in 0..Max({Step, MaxStep})
    BY StepBounds, LockConstants
  <2>2. Sleeps(l, Timeout, Step) /\ clock' = clock /\ lease' = lease
    BY <1>14 DEF LockWaits
  <2>3. /\ timeout' \in [Lockers -> 0..Timeout]
        /\ step' \in [Lockers -> 0..Max({Step, MaxStep})]
        /\ wake' \in [Lockers -> Nat]
    BY <1>4, <2>1, <2>2
  <2>. QED
    BY <1>1, <2>2, <2>3 DEF TimeInv
<1>15. ASSUME NEW l \in Lockers, LockRetries(l) PROVE TimeInv'
  <2>1. PICK add, left : /\ left = Left(l) /\ clock' = clock
                         /\ IF add.res = "ok" THEN Acquires(l)
                              ELSE UNCHANGED <<key_id, memo, owner, lease>>
                         /\ IF add.res = "exists" /\ left > 0
                              THEN Sleeps(l, left, NextStep(l, left))
                              ELSE StopsWaiting(l)
    BY <1>15 DEF LockRetries
  <2>2. lease' \in [Lockers -> Times]
    BY <1>1, <1>6, <2>1
  <2>3. /\ timeout' \in [Lockers -> 0..Timeout]
        /\ step' \in [Lockers -> 0..Max({Step, MaxStep})]
        /\ wake' \in [Lockers -> Nat]
    <3>1. CASE Sleeps(l, left, NextStep(l, left)) /\ left > 0
      <4>1. step[l] \in Nat /\ timeout[l] \in 0..Timeout
        BY <1>1, StepBounds
      <4>2. left \in 0..Timeout /\ left \in Nat
        BY <2>1, <3>1, <4>1, LockConstants DEF Left
      <4>3. NextStep(l, left) \in 0..Max({Step, MaxStep})
        BY <4>1, <4>2, NextStepBounds
      <4>. QED
        BY <1>4, <3>1, <4>2, <4>3
    <3>2. CASE StopsWaiting(l)
      BY <1>5, <3>2
    <3>. QED
      BY <2>1, <3>1, <3>2
  <2>. QED
    BY <1>1, <2>1, <2>2, <2>3 DEF TimeInv
<1>16. ASSUME NEW l \in Lockers, Unlock(l) PROVE TimeInv'
  BY <1>1, <1>2, <1>3, <1>16 DEF Unlock
<1>17. ASSUME NEW l \in Lockers, ExpireLock(l, Exptime) PROVE TimeInv'
  <2>1. PICK a : lease' = [lease EXCEPT ![l] = IF a.res = "ok" THEN Now(l) + Exptime
                                               ELSE lease[l]]
    BY <1>17 DEF ExpireLock
  <2>2. lease' \in [Lockers -> Times]
    BY <1>1, <1>3, <2>1
  <2>. QED
    BY <1>2, <1>17, <2>2 DEF ExpireLock
<1>18. ASSUME NEW l \in Lockers, GcLock(l) PROVE TimeInv'
  BY <1>1, <1>2, <1>3, <1>18 DEF GcLock
<1>. QED
  BY <1>7, <1>8, <1>9, <1>10, <1>11, <1>12, <1>13, <1>14, <1>15, <1>16, <1>17, <1>18
     DEF LockNext, LockerNext

----------------------------------------------------------------------------
(* References.                                                             *)

\* The slots other than s are those of m.
OtherSlots(m, n, s) ==
    \A t \in DOMAIN m.refs \ {s} : t \in DOMAIN n.refs /\ n.refs[t] = m.refs[t]

\* Slot s of m, which nobody has, holds val in n.
Taken(m, n, s, val) ==
    /\ s \in Nat /\ s > 0
    /\ s \in DOMAIN m.refs => m.refs[s] = "free"
    /\ FreeSlots(n) /\ s \in DOMAIN n.refs /\ n.refs[s] = val
    /\ OtherSlots(m, n, s)
    /\ Len(n.refs) + Len(m.free) = Len(m.refs) + Len(n.free) + 1

LEMMA SlotTaken ==
    ASSUME NEW m, FreeSlots(m), NEW val \in {"key", "dict"},
           NEW n, n = ref_obj(m, val), NEW s, s = Slot(m)
    PROVE  Taken(m, n, s, val)
<1>1. /\ m \in Memos /\ IsInjective(m.free)
      /\ \A t \in Range(m.free) : t \in DOMAIN m.refs /\ m.refs[t] = "free"
  BY DEF FreeSlots
<1>2. /\ m.free \in Seq(Nat) /\ m.refs \in Seq({"key", "dict", "free"})
      /\ Len(m.refs) \in Nat /\ DOMAIN m.refs = 1..Len(m.refs)
  BY <1>1 DEF Memos
<1>3. CASE m.free = <<>>
  <2>1. s = Len(m.refs) + 1 /\ n = [free |-> <<>>, refs |-> Append(m.refs, val)]
    BY <1>3 DEF Slot, ref_obj
  <2>2. /\ n.refs = Append(m.refs, val) /\ n.free = <<>>
        /\ n.refs \in Seq({"key", "dict", "free"}) /\ n \in Memos
    BY <1>2, <2>1 DEF Memos
  <2>3. /\ Len(n.refs) = Len(m.refs) + 1 /\ n.refs[s] = val /\ s \in DOMAIN n.refs
        /\ \A t \in 1..Len(m.refs) : n.refs[t] = m.refs[t]
    BY <1>2, <2>1, <2>2
  <2>4. FreeSlots(n)
    BY <2>2 DEF FreeSlots, IsInjective, Range
  <2>. QED
    BY <1>2, <1>3, <2>1, <2>2, <2>3, <2>4 DEF OtherSlots, Taken
<1>4. CASE m.free # <<>>
  <2>1. s = Head(m.free) /\ n = [free |-> Tail(m.free), refs |-> [m.refs EXCEPT ![s] = val]]
    BY <1>4 DEF Slot, ref_obj
  <2>2. PICK q : q = m.free
    OBVIOUS
  <2>3. /\ q \in Seq(Nat) /\ Len(q) \in Nat /\ Len(q) > 0 /\ s = q[1]
        /\ Tail(q) \in Seq(Nat) /\ Len(Tail(q)) = Len(q) - 1
        /\ \A i \in 1..(Len(q) - 1) : Tail(q)[i] = q[i + 1]
    BY <1>2, <1>4, <2>1, <2>2
  <2>4. s \in DOMAIN m.refs /\ m.refs[s] = "free"
    BY <1>1, <2>2, <2>3 DEF Range
  <2>5. /\ n.refs = [m.refs EXCEPT ![s] = val] /\ n.free = Tail(q)
        /\ n.refs \in Seq({"key", "dict", "free"}) /\ Len(n.refs) = Len(m.refs)
        /\ n \in Memos
    BY <1>2, <2>1, <2>2, <2>3, <2>4 DEF Memos
  <2>6. ASSUME NEW i \in DOMAIN n.free
        PROVE  i + 1 \in DOMAIN q /\ n.free[i] = q[i + 1] /\ n.free[i] # s
    <3>1. i \in 1..(Len(q) - 1)
      BY <2>3, <2>5
    <3>2. i + 1 \in DOMAIN q /\ 1 \in DOMAIN q /\ i + 1 # 1 /\ n.free[i] = q[i + 1]
      BY <2>3, <2>5, <3>1
    <3>. QED
      BY <1>1, <2>2, <2>3, <3>2 DEF IsInjective
  <2>7. IsInjective(n.free)
    <3>1. \A i, j \in DOMAIN n.free : i \in Nat /\ j \in Nat
      BY <2>3, <2>5
    <3>. QED
      BY <1>1, <2>2, <2>6, <3>1 DEF IsInjective
  <2>8. \A t \in DOMAIN m.refs \ {s} : t \in DOMAIN n.refs /\ n.refs[t] = m.refs[t]
    BY <1>2, <2>5
  <2>9. \A t \in Range(n.free) : t \in DOMAIN n.refs /\ n.refs[t] = "free"
    <3>1. \A t \in Range(n.free) : t \in Range(m.free) /\ t # s
      BY <2>2, <2>6 DEF Range
    <3>. QED
      BY <1>1, <2>8, <3>1
  <2>10. FreeSlots(n)
    BY <2>5, <2>7, <2>9 DEF FreeSlots
  <2>11. Len(n.refs) + Len(m.free) = Len(m.refs) + Len(n.free) + 1
    <3>1. Len(n.free) = Len(q) - 1 /\ Len(m.free) = Len(q) /\ Len(n.refs) = Len(m.refs)
      BY <2>2, <2>3, <2>5
    <3>2. PICK a \in Nat, b \in Nat : a = Len(q) /\ b = Len(m.refs)
      BY <1>2, <2>3
    <3>3. b + a = b + (a - 1) + 1
      OBVIOUS
    <3>. QED
      BY <3>1, <3>2, <3>3
  <2>12. s \in Nat /\ s > 0 /\ s \in DOMAIN n.refs /\ n.refs[s] = val
    BY <1>2, <2>4, <2>5
  <2>. QED
    BY <2>4, <2>8, <2>10, <2>11, <2>12 DEF OtherSlots, Taken
<1>. QED
  BY <1>3, <1>4

LEMMA SlotFreed ==
    ASSUME NEW m, FreeSlots(m), NEW s \in DOMAIN m.refs, m.refs[s] # "free",
           NEW n, n = unref_obj(m, s)
    PROVE  /\ FreeSlots(n) /\ OtherSlots(m, n, s)
           /\ Len(n.refs) = Len(m.refs) /\ Len(n.free) = Len(m.free) + 1
<1>1. /\ m \in Memos /\ IsInjective(m.free)
      /\ \A t \in Range(m.free) : t \in DOMAIN m.refs /\ m.refs[t] = "free"
  BY DEF FreeSlots
<1>2. PICK q : q = m.free
  OBVIOUS
<1>3. /\ q \in Seq(Nat) /\ m.refs \in Seq({"key", "dict", "free"})
      /\ Len(m.refs) \in Nat /\ DOMAIN m.refs = 1..Len(m.refs) /\ s \in Nat
      /\ Len(q) \in Nat
  BY <1>1, <1>2 DEF Memos
<1>4. n.free = <<s>> \o q /\ n.refs = [m.refs EXCEPT ![s] = "free"]
      /\ n = [free |-> n.free, refs |-> n.refs]
  BY <1>2 DEF unref_obj
<1>5. /\ n.free \in Seq(Nat) /\ Len(n.free) = Len(q) + 1 /\ n.free[1] = s
      /\ \A i \in 2..(Len(q) + 1) : n.free[i] = q[i - 1]
  BY <1>3, <1>4
<1>6. /\ n.refs \in Seq({"key", "dict", "free"}) /\ Len(n.refs) = Len(m.refs)
      /\ n.refs[s] = "free"
      /\ \A t \in DOMAIN m.refs \ {s} : t \in DOMAIN n.refs /\ n.refs[t] = m.refs[t]
  BY <1>3, <1>4
<1>7. n \in Memos
  BY <1>4, <1>5, <1>6 DEF Memos
<1>8. s \notin Range(q)
  BY <1>1, <1>2
<1>9. ASSUME NEW i \in DOMAIN n.free
      PROVE  i = 1 \/ (i - 1 \in DOMAIN q /\ n.free[i] = q[i - 1] /\ n.free[i] # s)
  <2>1. i \in 1..(Len(q) + 1)
    BY <1>3, <1>5
  <2>2. i # 1 => i \in 2..(Len(q) + 1) /\ i - 1 \in 1..Len(q)
    BY <1>3, <2>1
  <2>3. i - 1 \in DOMAIN q /\ n.free[i] = q[i - 1] => n.free[i] # s
    BY <1>8 DEF Range
  <2>4. DOMAIN q = 1..Len(q)
    BY <1>3
  <2>. QED
    BY <1>5, <2>2, <2>3, <2>4
<1>10. IsInjective(n.free)
  <2>1. ASSUME NEW i \in DOMAIN n.free, NEW j \in DOMAIN n.free, n.free[i] = n.free[j]
        PROVE  i = j
    <3>1. i \in Nat /\ j \in Nat
      BY <1>3, <1>5
    <3>2. i # 1 /\ j # 1 => i - 1 = j - 1
      BY <1>1, <1>2, <1>9, <2>1 DEF IsInjective
    <3>. QED
      BY <1>5, <1>9, <2>1, <3>1, <3>2
  <2>. QED
    BY <2>1 DEF IsInjective
<1>11. \A t \in Range(n.free) : t \in DOMAIN n.refs /\ n.refs[t] = "free"
  <2>1. ASSUME NEW i \in DOMAIN n.free PROVE n.free[i] = s \/ n.free[i] \in Range(m.free)
    BY <1>2, <1>5, <1>9 DEF Range
  <2>2. s \in DOMAIN n.refs
    BY <1>3, <1>6
  <2>. QED
    BY <1>1, <1>6, <2>1, <2>2 DEF Range
<1>. QED
  BY <1>2, <1>5, <1>6, <1>7, <1>10, <1>11 DEF FreeSlots, OtherSlots

LEMMA LiveFinite ==
    ASSUME NEW S, IsFiniteSet(S), NEW K
    PROVE  IsFiniteSet(Live(S, K)) /\ Cardinality(Live(S, K)) \in Nat
<1>1. Live(S, K) \in SUBSET S
  BY DEF Live
<1>. QED
  BY <1>1, FS_Subset, FS_CardinalityType

\* One more of the objects S has a handle.
LEMMA LiveMore ==
    ASSUME NEW S, IsFiniteSet(S), NEW l \in S, NEW K, NEW K2, K[l] = 0, K2[l] > 0,
           \A j \in S \ {l} : K2[j] = K[j]
    PROVE  Cardinality(Live(S, K2)) = Cardinality(Live(S, K)) + 1
<1>1. Live(S, K2) = Live(S, K) \cup {l} /\ l \notin Live(S, K)
  BY DEF Live
<1>. QED
  BY <1>1, LiveFinite, FS_AddElement

LEMMA MemoTurned ==
    ASSUME NEW m, NEW S, IsFiniteSet(S), NEW K, NEW D, NEW valK, NEW valD,
           MemoSound(m, S, K, valK, D, valD)
    PROVE  MemoSound(m, S, D, valD, K, valK)
<1>1. Cardinality(Live(S, K)) \in Nat /\ Cardinality(Live(S, D)) \in Nat
  BY LiveFinite
<1>2. Cardinality(Live(S, K)) + Cardinality(Live(S, D))
        = Cardinality(Live(S, D)) + Cardinality(Live(S, K))
  BY <1>1
<1>. QED
  BY <1>2 DEF MemoSound

LEMMA MemoSame ==
    ASSUME NEW m, NEW S, NEW K, NEW D, NEW valK, NEW valD,
           MemoSound(m, S, K, valK, D, valD),
           NEW K2, NEW D2, \A j \in S : K2[j] = K[j] /\ D2[j] = D[j]
    PROVE  MemoSound(m, S, K2, valK, D2, valD)
<1>1. Live(S, K2) = Live(S, K) /\ Live(S, D2) = Live(S, D)
  BY DEF Live
<1>2. OwnSlots(m, S, K2, valK) /\ OwnSlots(m, S, D2, valD)
  BY DEF OwnSlots, MemoSound
<1>. QED
  BY <1>1, <1>2 DEF MemoSound

\* The slots of S are other ones than s.
LEMMA SlotsKept ==
    ASSUME NEW m, NEW n, NEW s, OtherSlots(m, n, s), NEW S, NEW K, NEW val,
           OwnSlots(m, S, K, val), \A j \in S : K[j] > 0 => K[j] # s
    PROVE  OwnSlots(n, S, K, val)
BY DEF OtherSlots, OwnSlots

LEMMA Referred ==
    ASSUME NEW S, IsFiniteSet(S), NEW m, NEW K, NEW D,
           NEW valK \in {"key", "dict"}, NEW valD \in {"key", "dict"},
           MemoSound(m, S, K, valK, D, valD), NEW l \in S, K[l] = 0,
           NEW K2, K2[l] = Slot(m), \A j \in S \ {l} : K2[j] = K[j]
    PROVE  MemoSound(ref_obj(m, valK), S, K2, valK, D, valD)
<1>1. PICK s, n : s = Slot(m) /\ n = ref_obj(m, valK)
  OBVIOUS
<1>2. /\ FreeSlots(m) /\ OwnSlots(m, S, K, valK) /\ OwnSlots(m, S, D, valD)
      /\ Cardinality(Live(S, K)) + Cardinality(Live(S, D)) + Len(m.free) = Len(m.refs)
  BY DEF MemoSound
<1>3. /\ s \in Nat /\ s > 0
      /\ s \in DOMAIN m.refs => m.refs[s] = "free"
      /\ FreeSlots(n) /\ s \in DOMAIN n.refs /\ n.refs[s] = valK
      /\ OtherSlots(m, n, s)
      /\ Len(n.refs) + Len(m.free) = Len(m.refs) + Len(n.free) + 1
  <2>1. n = ref_obj(m, valK) /\ s = Slot(m) /\ FreeSlots(m)
    BY <1>1, <1>2
  <2>2. Taken(m, n, s, valK)
    BY <2>1, SlotTaken
  <2>. QED
    BY <2>2 DEF Taken
<1>4. \A j \in S : (K[j] > 0 => K[j] # s) /\ (D[j] > 0 => D[j] # s)
  BY <1>2, <1>3 DEF OwnSlots
<1>5. OwnSlots(n, S, K, valK) /\ OwnSlots(n, S, D, valD)
  BY <1>2, <1>3, <1>4, SlotsKept
<1>6. OwnSlots(n, S, K2, valK)
  BY <1>1, <1>3, <1>4, <1>5 DEF OwnSlots
<1>7. Cardinality(Live(S, K2)) = Cardinality(Live(S, K)) + 1
  BY <1>1, <1>3, LiveMore
<1>8. Cardinality(Live(S, K2)) + Cardinality(Live(S, D)) + Len(n.free) = Len(n.refs)
  <2>1. /\ Cardinality(Live(S, K)) \in Nat /\ Cardinality(Live(S, D)) \in Nat
        /\ Len(m.free) \in Nat /\ Len(n.free) \in Nat /\ Len(m.refs) \in Nat
        /\ Len(n.refs) \in Nat
    BY <1>2, <1>3, LiveFinite DEF FreeSlots, Memos
  <2>2. PICK a \in Nat, b \in Nat, c \in Nat :
          /\ a = Cardinality(Live(S, K)) /\ b = Cardinality(Live(S, D))
          /\ c = Cardinality(Live(S, K2)) /\ c = a + 1
    BY <1>7, <2>1
  <2>3. PICK e \in Nat, f \in Nat, g \in Nat, h \in Nat :
          e = Len(m.free) /\ f = Len(n.free) /\ g = Len(m.refs) /\ h = Len(n.refs)
    BY <2>1
  <2>4. a + b + e = g /\ h + e = g + f + 1
    BY <1>2, <1>3, <2>2, <2>3
  <2>5. c + b + f = h
    BY <2>2, <2>4
  <2>. QED
    BY <2>2, <2>3, <2>5
<1>. QED
  BY <1>1, <1>3, <1>5, <1>6, <1>8 DEF MemoSound

LEMMA Unreferred ==
    ASSUME NEW S, IsFiniteSet(S), NEW m, NEW K, NEW D,
           NEW valK \in {"key", "dict"}, NEW valD \in {"key", "dict"}, valK # valD,
           MemoSound(m, S, K, valK, D, valD), NEW l \in S, K[l] > 0,
           NEW K2, K2[l] = 0, \A j \in S \ {l} : K2[j] = K[j]
    PROVE  MemoSound(unref_obj(m, K[l]), S, K2, valK, D, valD)
<1>1. PICK s, n : s = K[l] /\ n = unref_obj(m, s)
  OBVIOUS
<1>2. /\ FreeSlots(m) /\ OwnSlots(m, S, K, valK) /\ OwnSlots(m, S, D, valD)
      /\ Cardinality(Live(S, K)) + Cardinality(Live(S, D)) + Len(m.free) = Len(m.refs)
  BY DEF MemoSound
<1>3. s \in DOMAIN m.refs /\ m.refs[s] = valK
  BY <1>1, <1>2 DEF OwnSlots
<1>4. /\ FreeSlots(n) /\ OtherSlots(m, n, s)
      /\ Len(n.refs) = Len(m.refs) /\ Len(n.free) = Len(m.free) + 1
  BY <1>1, <1>2, <1>3, SlotFreed
<1>5. \A j \in S : D[j] > 0 => D[j] # s
  BY <1>2, <1>3 DEF OwnSlots
<1>6. \A j \in S : K2[j] > 0 => K2[j] # s /\ K2[j] = K[j]
  BY <1>1, <1>2 DEF OwnSlots
<1>7. OwnSlots(n, S, D, valD)
  BY <1>2, <1>4, <1>5, SlotsKept
<1>8. OwnSlots(n, S, K2, valK)
  <2>1. OwnSlots(m, S, K2, valK)
    BY <1>2 DEF OwnSlots
  <2>. QED
    BY <1>4, <1>6, <2>1, SlotsKept
<1>9. Cardinality(Live(S, K)) = Cardinality(Live(S, K2)) + 1
  BY LiveMore
<1>10. Cardinality(Live(S, K2)) + Cardinality(Live(S, D)) + Len(n.free) = Len(n.refs)
  <2>1. /\ Cardinality(Live(S, K2)) \in Nat /\ Cardinality(Live(S, D)) \in Nat
        /\ Len(m.free) \in Nat /\ Len(n.free) \in Nat /\ Len(m.refs) \in Nat
        /\ Len(n.refs) \in Nat
    BY <1>2, <1>4, LiveFinite DEF FreeSlots, Memos
  <2>. QED
    BY <1>2, <1>4, <1>9, <2>1
<1>. QED
  BY <1>1, <1>4, <1>7, <1>8, <1>10 DEF MemoSound

----------------------------------------------------------------------------
(* The objects and their handles.                                          *)

LEMMA SlotPositive ==
    ASSUME MemoInv, NEW w \in Workers
    PROVE  Slot(memo[w]) \in Nat /\ Slot(memo[w]) > 0
<1>1. FreeSlots(memo[w])
  BY DEF MemoInv, MemoSound
<1>2. Taken(memo[w], ref_obj(memo[w], "key"), Slot(memo[w]), "key")
  BY <1>1, SlotTaken
<1>. QED
  BY <1>2 DEF Taken

LEMMA ObjectKept ==
    ASSUME ObjectInv, MemoInv, [LockNext]_lockVars
    PROVE  ObjectInv'
<1>1. /\ pc \in [Lockers -> {"none", "idle", "sleeping"}]
      /\ key_id \in [Lockers -> Nat] /\ dict_id \in [Lockers -> Nat]
      /\ owner \in Lockers \cup {NoLocker} /\ disturbed \in BOOLEAN
      /\ \A l \in Lockers : /\ pc[l] = "none" <=> dict_id[l] = 0
                            /\ pc[l] # "idle" => key_id[l] = 0
  BY DEF ObjectInv
<1>2. ASSUME UNCHANGED <<pc, key_id, dict_id>>,
             owner' \in Lockers \cup {NoLocker}, disturbed' \in BOOLEAN
      PROVE  ObjectInv'
  BY <1>1, <1>2 DEF ObjectInv
<1>3. ASSUME NEW l \in Lockers
      PROVE  Slot(memo[Home[l]]) \in Nat /\ Slot(memo[Home[l]]) > 0
  BY SlotPositive, LockConstants
<1>4. ASSUME NEW l \in Lockers, DeletesEntry(l)
      PROVE  owner' \in Lockers \cup {NoLocker} /\ disturbed' \in BOOLEAN
  BY <1>1, <1>4 DEF DeletesEntry
<1>5. ASSUME NEW l \in Lockers, key_id[l] = 0, pc[l] \in {"idle", "sleeping"},
             NEW b \in BOOLEAN, pc' = [pc EXCEPT ![l] = "idle"],
             IF b THEN Acquires(l) ELSE UNCHANGED <<key_id, memo, owner, lease>>,
             UNCHANGED <<dict_id, disturbed>>
      PROVE  ObjectInv'
  <2>1. /\ key_id' \in [Lockers -> Nat] /\ owner' \in Lockers \cup {NoLocker}
        /\ \A k \in Lockers \ {l} : key_id'[k] = key_id[k]
    BY <1>1, <1>3, <1>5 DEF Acquires
  <2>. QED
    BY <1>1, <1>5, <2>1 DEF ObjectInv
<1>6. CASE UNCHANGED lockVars
  BY <1>1, <1>2, <1>6 DEF lockVars
<1>7. CASE Tick
  BY <1>1, <1>2, <1>7 DEF Tick
<1>8. ASSUME NEW w \in Workers, WorkerUpdatesTime(w) PROVE ObjectInv'
  BY <1>1, <1>2, <1>8 DEF WorkerUpdatesTime
<1>9. ASSUME NEW w \in Workers, Crash(w) PROVE ObjectInv'
  <2>1. /\ pc' = [l \in Lockers |-> IF Home[l] = w THEN "none" ELSE pc[l]]
        /\ key_id' = [l \in Lockers |-> IF Home[l] = w THEN 0 ELSE key_id[l]]
        /\ dict_id' = [l \in Lockers |-> IF Home[l] = w THEN 0 ELSE dict_id[l]]
        /\ UNCHANGED <<owner, disturbed>>
    BY <1>9 DEF Crash, Of
  <2>. QED
    BY <1>1, <2>1 DEF ObjectInv
<1>10. ASSUME NEW w \in Workers, NEW k \in Keys, OtherLock(w, k) PROVE ObjectInv'
  <2>1. disturbed' \in BOOLEAN
    BY <1>1, <1>10 DEF OtherLock
  <2>. QED
    BY <1>1, <1>2, <1>10, <2>1 DEF OtherLock
<1>11. ASSUME NEW l \in Lockers, New(l) PROVE ObjectInv'
  BY <1>1, <1>3, <1>11 DEF New, ObjectInv
<1>12. ASSUME NEW l \in Lockers, LockNow(l) PROVE ObjectInv'
  <2>1. PICK add : IF add.res = "ok" THEN Acquires(l)
                                     ELSE UNCHANGED <<key_id, memo, owner, lease>>
    BY <1>12 DEF LockNow
  <2>2. pc[l] = "idle" /\ key_id[l] = 0 /\ UNCHANGED <<pc, dict_id, disturbed>>
    BY <1>12 DEF LockNow
  <2>3. pc' = [pc EXCEPT ![l] = "idle"]
    BY <1>1, <2>2
  <2>. QED
    BY <1>5, <2>1, <2>2, <2>3
<1>13. ASSUME NEW l \in Lockers, LockWaits(l) PROVE ObjectInv'
  BY <1>1, <1>13 DEF LockWaits, Sleeps, ObjectInv
<1>14. ASSUME NEW l \in Lockers, LockRetries(l) PROVE ObjectInv'
  <2>1. PICK add, left : /\ IF add.res = "ok" THEN Acquires(l)
                              ELSE UNCHANGED <<key_id, memo, owner, lease>>
                         /\ IF add.res = "exists" /\ left > 0
                              THEN Sleeps(l, left, NextStep(l, left))
                              ELSE StopsWaiting(l)
    BY <1>14 DEF LockRetries
  <2>2. pc[l] = "sleeping" /\ key_id[l] = 0 /\ UNCHANGED <<dict_id, disturbed>>
    BY <1>1, <1>14 DEF LockRetries, Due
  <2>3. CASE StopsWaiting(l)
    <3>1. pc' = [pc EXCEPT ![l] = "idle"]
      BY <2>3 DEF StopsWaiting
    <3>. QED
      BY <1>5, <2>1, <2>2, <3>1
  <2>4. CASE add.res = "exists" /\ Sleeps(l, left, NextStep(l, left))
    <3>1. pc' = [pc EXCEPT ![l] = "sleeping"]
      BY <2>4 DEF Sleeps
    <3>2. UNCHANGED <<key_id, memo, owner, lease>>
      BY <2>1, <2>4
    <3>. QED
      BY <1>1, <2>2, <3>1, <3>2 DEF ObjectInv
  <2>. QED
    BY <2>1, <2>3, <2>4
<1>15. ASSUME NEW l \in Lockers, Unlock(l) PROVE ObjectInv'
  BY <1>1, <1>4, <1>15 DEF Unlock, ObjectInv
<1>16. ASSUME NEW l \in Lockers, ExpireLock(l, Exptime) PROVE ObjectInv'
  <2>1. PICK a : disturbed' = (disturbed \/ (a.res = "ok" /\ owner # l))
    BY <1>16 DEF ExpireLock
  <2>2. disturbed' \in BOOLEAN
    BY <2>1
  <2>. QED
    BY <1>1, <1>2, <1>16, <2>2 DEF ExpireLock
<1>17. ASSUME NEW l \in Lockers, GcLock(l) PROVE ObjectInv'
  <2>1. owner' \in Lockers \cup {NoLocker} /\ disturbed' \in BOOLEAN
    BY <1>1, <1>4, <1>17 DEF GcLock
  <2>. QED
    BY <1>1, <1>17, <2>1 DEF GcLock, ObjectInv
<1>. QED
  BY <1>6, <1>7, <1>8, <1>9, <1>10, <1>11, <1>12, <1>13, <1>14, <1>15, <1>16, <1>17
     DEF LockNext, LockerNext

\* K and D are the handles after a step of worker w.
OtherHandles(w, K, D) ==
    \A l \in Lockers : Home[l] # w => K[l] = key_id[l] /\ D[l] = dict_id[l]

\* A step of worker w that leaves its memo n.
LEMMA WorkerMemo ==
    ASSUME MemoInv, NEW w \in Workers, NEW n, NEW K, NEW D,
           K = key_id', D = dict_id', memo' = [memo EXCEPT ![w] = n],
           MemoSound(n, At(w), K, "key", D, "dict"),
           OtherHandles(w, K, D)
    PROVE  MemoInv'
<1>1. /\ memo \in [Workers -> Memos]
      /\ \A v \in Workers : MemoSound(memo[v], At(v), key_id, "key", dict_id, "dict")
  BY DEF MemoInv
<1>2. PICK M : M = memo'
  OBVIOUS
<1>3. n \in Memos
  BY DEF MemoSound, FreeSlots
<1>4. M \in [Workers -> Memos]
  BY <1>1, <1>2, <1>3
<1>5. ASSUME NEW v \in Workers
      PROVE  MemoSound(M[v], At(v), K, "key", D, "dict")
  <2>1. CASE v = w
    BY <1>1, <1>2, <2>1
  <2>2. CASE v # w
    <3>1. \A l \in At(v) : K[l] = key_id[l] /\ D[l] = dict_id[l]
      BY <2>2 DEF At, OtherHandles
    <3>2. MemoSound(memo[v], At(v), K, "key", D, "dict")
      BY <1>1, <3>1, MemoSame
    <3>. QED
      BY <1>1, <1>2, <2>2, <3>2
  <2>. QED
    BY <2>1, <2>2
<1>6. \A v \in Workers : MemoSound(memo'[v], At(v), key_id', "key", dict_id', "dict")
  BY <1>2, <1>5
<1>. QED
  BY <1>2, <1>4, <1>6
     DEF MemoInv, MemoSound, FreeSlots, Memos, OwnSlots, Live, At

LEMMA MemoKept ==
    ASSUME ObjectInv, MemoInv, [LockNext]_lockVars
    PROVE  MemoInv'
<1>1. /\ memo \in [Workers -> Memos]
      /\ \A v \in Workers : MemoSound(memo[v], At(v), key_id, "key", dict_id, "dict")
  BY DEF MemoInv
<1>2. /\ key_id \in [Lockers -> Nat] /\ dict_id \in [Lockers -> Nat]
      /\ \A l \in Lockers : /\ pc[l] = "none" <=> dict_id[l] = 0
                            /\ pc[l] # "idle" => key_id[l] = 0
  BY DEF ObjectInv
<1>3. \A w \in Workers : IsFiniteSet(At(w))
  <2>1. \A w \in Workers : At(w) \in SUBSET Lockers
    BY DEF At
  <2>. QED
    BY <2>1, LockConstants, FS_Subset
<1>4. ASSUME NEW l \in Lockers
      PROVE  /\ Home[l] \in Workers /\ l \in At(Home[l]) /\ IsFiniteSet(At(Home[l]))
             /\ \A j \in Lockers : Home[j] # Home[l] => j # l
             /\ \A j \in At(Home[l]) : j \in Lockers
  BY <1>3, LockConstants DEF At
<1>5. CASE UNCHANGED <<memo, key_id, dict_id>>
  <2>1. \A w \in Workers : MemoSound(memo'[w], At(w), key_id', "key", dict_id', "dict")
    BY <1>1, <1>5
  <2>. QED
    BY <1>1, <1>5, <2>1 DEF MemoInv, MemoSound, FreeSlots, Memos, OwnSlots, Live, At
<1>6. ASSUME NEW l \in Lockers, key_id[l] = 0, dict_id' = dict_id, Acquires(l)
      PROVE  MemoInv'
  <2>1. PICK w \in Workers : w = Home[l]
    BY <1>4
  <2>2. PICK K, D, m : K = key_id' /\ D = dict_id' /\ m = memo[w]
    OBVIOUS
  <2>3. /\ K[l] = Slot(m) /\ memo' = [memo EXCEPT ![w] = ref_obj(m, "key")]
        /\ \A j \in Lockers \ {l} : K[j] = key_id[j]
        /\ D = dict_id
    BY <1>1, <1>2, <1>6, <2>1, <2>2 DEF Acquires
  <2>4. MemoSound(ref_obj(m, "key"), At(w), K, "key", D, "dict")
    <3>1. MemoSound(m, At(w), key_id, "key", dict_id, "dict")
      BY <1>1, <2>2
    <3>2. \A j \in At(w) \ {l} : K[j] = key_id[j]
      BY <1>4, <2>1, <2>3
    <3>. QED
      BY <1>4, <1>6, <2>1, <2>3, <3>1, <3>2, Referred
  <2>5. OtherHandles(w, K, D)
    BY <2>1, <2>3 DEF OtherHandles
  <2>. QED
    BY <2>2, <2>3, <2>4, <2>5, WorkerMemo
<1>7. ASSUME NEW l \in Lockers, New(l) PROVE MemoInv'
  <2>1. PICK w \in Workers : w = Home[l]
    BY <1>4
  <2>2. PICK K, D, m : K = key_id' /\ D = dict_id' /\ m = memo[w]
    OBVIOUS
  <2>3. /\ D[l] = Slot(m) /\ memo' = [memo EXCEPT ![w] = ref_obj(m, "dict")]
        /\ \A j \in Lockers \ {l} : D[j] = dict_id[j]
        /\ K = key_id /\ dict_id[l] = 0
    BY <1>1, <1>2, <1>7, <2>1, <2>2 DEF New
  <2>4. MemoSound(ref_obj(m, "dict"), At(w), K, "key", D, "dict")
    <3>1. MemoSound(m, At(w), dict_id, "dict", key_id, "key")
      BY <1>1, <1>3, <2>2, MemoTurned
    <3>2. \A j \in At(w) \ {l} : D[j] = dict_id[j]
      BY <1>4, <2>1, <2>3
    <3>3. MemoSound(ref_obj(m, "dict"), At(w), D, "dict", key_id, "key")
      BY <1>4, <2>1, <2>3, <3>1, <3>2, Referred
    <3>. QED
      BY <1>3, <2>1, <2>3, <3>3, MemoTurned
  <2>5. OtherHandles(w, K, D)
    BY <2>1, <2>3 DEF OtherHandles
  <2>. QED
    BY <2>2, <2>3, <2>4, <2>5, WorkerMemo
<1>8. ASSUME NEW l \in Lockers, LockNow(l) \/ LockRetries(l) PROVE MemoInv'
  <2>1. key_id[l] = 0 /\ dict_id' = dict_id
    BY <1>2, <1>8 DEF LockNow, LockRetries, Due
  <2>2. Acquires(l) \/ UNCHANGED <<key_id, memo>>
    BY <1>8 DEF LockNow, LockRetries
  <2>. QED
    BY <1>5, <1>6, <2>1, <2>2
<1>9. ASSUME NEW l \in Lockers, key_id[l] > 0
      PROVE  \A K : K = [key_id EXCEPT ![l] = 0] =>
                MemoSound(unref_obj(memo[Home[l]], key_id[l]), At(Home[l]),
                          K, "key", dict_id, "dict")
  <2>1. TAKE K
  <2>2. HAVE K = [key_id EXCEPT ![l] = 0]
  <2>3. PICK w, m : w = Home[l] /\ m = memo[w]
    OBVIOUS
  <2>4. K[l] = 0 /\ \A j \in At(w) \ {l} : K[j] = key_id[j]
    BY <1>2, <1>4, <2>2, <2>3
  <2>5. MemoSound(m, At(w), key_id, "key", dict_id, "dict")
    BY <1>1, <1>4, <2>3
  <2>6. MemoSound(unref_obj(m, key_id[l]), At(w), K, "key", dict_id, "dict")
    BY <1>4, <1>9, <2>3, <2>4, <2>5, Unreferred
  <2>. QED
    BY <2>3, <2>6
<1>10. ASSUME NEW l \in Lockers, Unlock(l) PROVE MemoInv'
  <2>1. PICK w \in Workers : w = Home[l]
    BY <1>4
  <2>2. PICK K, D, n : K = key_id' /\ D = dict_id' /\ n = unref_obj(memo[w], key_id[l])
    OBVIOUS
  <2>3. /\ K = [key_id EXCEPT ![l] = 0] /\ memo' = [memo EXCEPT ![w] = n]
        /\ D = dict_id /\ key_id[l] > 0
    BY <1>1, <1>2, <1>10, <2>1, <2>2 DEF Unlock
  <2>4. MemoSound(n, At(w), K, "key", D, "dict")
    BY <1>9, <2>1, <2>2, <2>3
  <2>5. OtherHandles(w, K, D)
    BY <1>2, <2>1, <2>3 DEF OtherHandles
  <2>. QED
    BY <2>2, <2>3, <2>4, <2>5, WorkerMemo
<1>11. ASSUME NEW l \in Lockers, GcLock(l) PROVE MemoInv'
  <2>1. PICK w \in Workers : w = Home[l]
    BY <1>4
  <2>2. PICK K, D, m : /\ K = key_id' /\ D = dict_id'
                       /\ m = IF key_id[l] > 0 THEN unref_obj(memo[w], key_id[l])
                                               ELSE memo[w]
    OBVIOUS
  <2>3. /\ K = [key_id EXCEPT ![l] = 0] /\ D = [dict_id EXCEPT ![l] = 0]
        /\ memo' = [memo EXCEPT ![w] = unref_obj(m, dict_id[l])]
        /\ pc[l] = "idle"
    BY <1>1, <1>11, <2>1, <2>2 DEF GcLock
  <2>4. dict_id[l] > 0
    BY <1>2, <2>3
  <2>5. MemoSound(m, At(w), K, "key", dict_id, "dict")
    <3>1. CASE key_id[l] > 0
      BY <1>9, <2>1, <2>2, <2>3, <3>1
    <3>2. CASE ~(key_id[l] > 0)
      <4>1. key_id[l] = 0
        BY <1>2, <3>2
      <4>2. K = key_id
        BY <1>2, <2>3, <4>1
      <4>. QED
        BY <1>1, <2>2, <3>2, <4>2
    <3>. QED
      BY <3>1, <3>2
  <2>6. D[l] = 0 /\ \A j \in At(w) \ {l} : D[j] = dict_id[j]
    BY <1>2, <1>4, <2>1, <2>3
  <2>7. MemoSound(unref_obj(m, dict_id[l]), At(w), K, "key", D, "dict")
    <3>1. MemoSound(m, At(w), dict_id, "dict", K, "key")
      BY <1>3, <2>5, MemoTurned
    <3>2. MemoSound(unref_obj(m, dict_id[l]), At(w), D, "dict", K, "key")
      BY <1>4, <2>1, <2>4, <2>6, <3>1, Unreferred
    <3>. QED
      BY <1>3, <3>2, MemoTurned
  <2>8. OtherHandles(w, K, D)
    BY <1>2, <2>1, <2>3 DEF OtherHandles
  <2>. QED
    BY <2>2, <2>3, <2>7, <2>8, WorkerMemo
<1>12. ASSUME NEW w \in Workers, Crash(w) PROVE MemoInv'
  <2>1. PICK K, D, n : K = key_id' /\ D = dict_id' /\ n = [free |-> <<>>, refs |-> <<>>]
    OBVIOUS
  <2>2. /\ K = [l \in Lockers |-> IF Home[l] = w THEN 0 ELSE key_id[l]]
        /\ D = [l \in Lockers |-> IF Home[l] = w THEN 0 ELSE dict_id[l]]
        /\ memo' = [memo EXCEPT ![w] = n]
    BY <1>12, <2>1 DEF Crash, Of
  <2>3. \A l \in At(w) : K[l] = 0 /\ D[l] = 0
    BY <2>2 DEF At
  <2>4. MemoSound(n, At(w), K, "key", D, "dict")
    <3>1. FreeSlots(n) /\ Len(n.free) = 0 /\ Len(n.refs) = 0
      BY <2>1 DEF FreeSlots, Memos, IsInjective, Range
    <3>2. OwnSlots(n, At(w), K, "key") /\ OwnSlots(n, At(w), D, "dict")
      BY <2>3 DEF OwnSlots
    <3>3. Live(At(w), K) = {} /\ Live(At(w), D) = {}
      BY <2>3 DEF Live
    <3>. QED
      BY <3>1, <3>2, <3>3, FS_EmptySet DEF MemoSound
  <2>5. OtherHandles(w, K, D)
    BY <2>2 DEF OtherHandles
  <2>. QED
    BY <2>1, <2>2, <2>4, <2>5, WorkerMemo
<1>13. ASSUME NEW l \in Lockers, LockerNext(l) PROVE MemoInv'
  <2>1. CASE LockWaits(l) \/ ExpireLock(l, Exptime)
    BY <1>5, <2>1 DEF LockWaits, ExpireLock
  <2>. QED
    BY <1>7, <1>8, <1>10, <1>11, <1>13, <2>1 DEF LockerNext
<1>14. ASSUME NEW w \in Workers, NEW k \in Keys, OtherLock(w, k) PROVE MemoInv'
  BY <1>5, <1>14 DEF OtherLock
<1>. QED
  BY <1>5, <1>12, <1>13, <1>14 DEF LockNext, lockVars, Tick, WorkerUpdatesTime

----------------------------------------------------------------------------
(* Mutual exclusion.                                                       *)

Guards(D, end) == D.tree[LockKey] # NoEntry /\ D.tree[LockKey].expires = end

\* Nobody finds the entry of a valid lease expired, whatever its clock shows.
LEMMA ValidFound ==
    ASSUME TimeInv, MutualExclusion, ~disturbed, NEW l \in Lockers, HoldsValidly(l),
           NEW w \in Workers
    PROVE  owner = l /\ Guards(dict, lease[l]) /\ Unexpired(dict, LockKey, clock[w])
<1>1. owner = l /\ Guards(dict, lease[l])
  BY DEF MutualExclusion, Guards
<1>2. lease[l] \in Nat /\ lease[l] > Base
  BY LockConstants DEF TimeInv, HoldsValidly
<1>3. clock[w] \in Nat /\ clock[w] <= Base /\ Base \in Nat
  BY ClockFacts, LockConstants
<1>4. ~(lease[l] <= clock[w])
  BY <1>2, <1>3
<1>. QED
  BY <1>1, <1>4 DEF Guards, Unexpired, HasExpired

LEMMA ExclusionKept ==
    ASSUME ZoneInv, TimeInv, ObjectInv, MutualExclusion, [LockNext]_lockVars
    PROVE  MutualExclusion'
<1>1. /\ key_id \in [Lockers -> Nat] /\ disturbed \in BOOLEAN
      /\ \A l \in Lockers : pc[l] # "idle" => key_id[l] = 0
      /\ lease \in [Lockers -> Times]
  BY DEF ObjectInv, TimeInv
<1>2. SUFFICES ASSUME ~disturbed', NEW m \in Lockers, key_id'[m] > 0, lease'[m] > Base
               PROVE  owner' = m /\ Guards(dict', lease'[m])
  BY DEF MutualExclusion, HoldsValidly, Guards
<1>3. ASSUME ~disturbed, key_id'[m] = key_id[m], lease'[m] = lease[m]
      PROVE  /\ owner = m /\ Guards(dict, lease'[m])
             /\ \A w \in Workers : Unexpired(dict, LockKey, clock[w])
  <2>1. HoldsValidly(m)
    BY <1>2, <1>3 DEF HoldsValidly
  <2>2. Home[m] \in Workers
    BY LockConstants
  <2>. QED
    BY <1>3, <2>1, <2>2, ValidFound
<1>4. ASSUME UNCHANGED <<disturbed, owner>>, key_id'[m] = key_id[m], lease'[m] = lease[m],
             dict'.tree[LockKey] = dict.tree[LockKey]
      PROVE  owner' = m /\ Guards(dict', lease'[m])
  BY <1>2, <1>3, <1>4 DEF Guards
<1>5. ASSUME NEW l \in Lockers
      PROVE  /\ Home[l] \in Workers /\ Now(l) = clock[Home[l]] /\ LockKey \in Keys
             /\ ~(0 > Base)
  BY LockConstants DEF Now
<1>6. CASE UNCHANGED lockVars
  BY <1>4, <1>6 DEF lockVars
<1>7. CASE Tick
  <2>1. lease'[m] = IF lease[m] - 1 <= Base THEN 0 ELSE lease[m] - 1
    BY <1>7 DEF Tick
  <2>2. lease[m] \in Nat /\ lease'[m] = lease[m] - 1 /\ lease[m] > Base
    BY <1>1, <1>2, <2>1, LockConstants
  <2>3. HoldsValidly(m) /\ ~disturbed /\ owner' = owner
    BY <1>2, <1>7, <2>2 DEF Tick, HoldsValidly
  <2>4. owner = m /\ Guards(dict, lease[m])
    BY <2>3 DEF MutualExclusion, Guards
  <2>5. LockKey \in Present(dict) /\ dict.tree[LockKey].expires = lease[m]
    BY <2>4, LockConstants DEF Guards, Present
  <2>6. /\ dict'.tree[LockKey].expires = Earlier(lease[m])
        /\ dict'.tree[LockKey] # NoEntry
    BY <1>7, <2>5, TickRedates DEF Redates, Present
  <2>7. Earlier(lease[m]) = lease[m] - 1
    BY <2>2, LockConstants DEF Earlier
  <2>. QED
    BY <2>2, <2>3, <2>4, <2>6, <2>7 DEF Guards
<1>8. ASSUME NEW w \in Workers, WorkerUpdatesTime(w)
      PROVE  owner' = m /\ Guards(dict', lease'[m])
  BY <1>4, <1>8 DEF WorkerUpdatesTime
<1>9. ASSUME NEW w \in Workers, Crash(w)
      PROVE  owner' = m /\ Guards(dict', lease'[m])
  <2>1. /\ key_id'[m] = IF Home[m] = w THEN 0 ELSE key_id[m]
        /\ lease'[m] = IF Home[m] = w THEN 0 ELSE lease[m]
        /\ UNCHANGED <<dict, owner, disturbed>>
    BY <1>9 DEF Crash, Of
  <2>. QED
    BY <1>2, <1>4, <2>1
<1>10. ASSUME NEW w \in Workers, NEW k \in Keys, OtherLock(w, k)
       PROVE  owner' = m /\ Guards(dict', lease'[m])
  <2>1. /\ k # LockKey /\ dict' = Store(dict, "add", k, Locked, Exptime, clock[w]).dict
        /\ UNCHANGED <<key_id, lease, owner>>
        /\ disturbed' = (disturbed \/ (/\ dict.tree[LockKey] # NoEntry
                                       /\ ~HasExpired(dict.tree[LockKey], clock[w])
                                       /\ dict'.tree[LockKey] = NoEntry))
    BY <1>10 DEF OtherLock
  <2>2. dict'.tree[LockKey] \in {dict.tree[LockKey], NoEntry}
    BY <2>1, LockStored, LockConstants
  <2>3. ~disturbed
    BY <1>2, <2>1
  <2>4. owner = m /\ Guards(dict, lease'[m]) /\ Unexpired(dict, LockKey, clock[w])
    BY <1>3, <2>1, <2>3
  <2>5. dict'.tree[LockKey] = dict.tree[LockKey]
    BY <1>2, <2>1, <2>2, <2>4 DEF Unexpired
  <2>. QED
    BY <2>1, <2>4, <2>5 DEF Guards
<1>11. ASSUME NEW l \in Lockers, New(l)
       PROVE  owner' = m /\ Guards(dict', lease'[m])
  BY <1>4, <1>11 DEF New
<1>12. ASSUME NEW l \in Lockers, NEW r, r = TryAdd(l), dict' = r.dict,
              IF r.res = "ok" THEN Acquires(l) ELSE UNCHANGED <<key_id, memo, owner, lease>>,
              UNCHANGED disturbed
       PROVE  owner' = m /\ Guards(dict', lease'[m])
  <2>1. PICK w \in Workers : w = Home[l] /\ Now(l) = clock[w]
    BY <1>5
  <2>2. r = Store(dict, "add", LockKey, Locked, Exptime, clock[w])
    BY <1>12, <2>1 DEF TryAdd
  <2>3. /\ r.res = "ok" => Guards(r.dict, clock[w] + Exptime)
        /\ Unexpired(dict, LockKey, clock[w])
             => r.res = "exists" /\ r.dict.tree[LockKey] = dict.tree[LockKey]
    BY <2>2, LockStored, LockConstants DEF Guards
  <2>4. CASE r.res = "ok"
    <3>1. owner' = l /\ lease' = [lease EXCEPT ![l] = Now(l) + Exptime]
          /\ \A j \in Lockers \ {l} : key_id'[j] = key_id[j]
      BY <1>1, <1>12, <2>4 DEF Acquires
    <3>2. m = l
      <4>1. SUFFICES ASSUME m # l PROVE FALSE
        OBVIOUS
      <4>2. key_id'[m] = key_id[m] /\ lease'[m] = lease[m]
        BY <1>1, <3>1, <4>1
      <4>3. Unexpired(dict, LockKey, clock[w])
        BY <1>2, <1>3, <1>12, <4>2
      <4>. QED
        BY <2>3, <2>4, <4>3
    <3>3. lease'[m] = clock[w] + Exptime
      BY <1>1, <2>1, <3>1, <3>2
    <3>. QED
      BY <1>12, <2>3, <2>4, <3>1, <3>2, <3>3
  <2>5. CASE r.res # "ok"
    <3>1. UNCHANGED <<key_id, owner, lease>>
      BY <1>12, <2>5
    <3>2. Unexpired(dict, LockKey, clock[w])
      BY <1>2, <1>3, <1>12, <3>1
    <3>. QED
      BY <1>4, <1>12, <2>3, <3>1, <3>2
  <2>. QED
    BY <2>4, <2>5
<1>13. ASSUME NEW l \in Lockers, LockNow(l)
       PROVE  owner' = m /\ Guards(dict', lease'[m])
  <2>1. PICK r : /\ r = TryAdd(l) /\ dict' = r.dict
                 /\ IF r.res = "ok" THEN Acquires(l)
                                    ELSE UNCHANGED <<key_id, memo, owner, lease>>
    BY <1>13 DEF LockNow
  <2>2. UNCHANGED disturbed
    BY <1>13 DEF LockNow
  <2>. QED
    BY <1>12, <2>1, <2>2
<1>14. ASSUME NEW l \in Lockers, LockWaits(l)
       PROVE  owner' = m /\ Guards(dict', lease'[m])
  <2>1. PICK r : r = TryAdd(l) /\ dict' = r.dict /\ r.res = "exists"
    BY <1>14 DEF LockWaits
  <2>2. UNCHANGED <<key_id, memo, owner, lease, disturbed>>
    BY <1>14 DEF LockWaits
  <2>. QED
    BY <1>12, <2>1, <2>2
<1>15. ASSUME NEW l \in Lockers, LockRetries(l)
       PROVE  owner' = m /\ Guards(dict', lease'[m])
  <2>1. PICK r : /\ r = TryAdd(l) /\ dict' = r.dict
                 /\ IF r.res = "ok" THEN Acquires(l)
                                    ELSE UNCHANGED <<key_id, memo, owner, lease>>
    BY <1>15 DEF LockRetries
  <2>2. UNCHANGED disturbed
    BY <1>15 DEF LockRetries
  <2>. QED
    BY <1>12, <2>1, <2>2
<1>16. ASSUME NEW l \in Lockers, DeletesEntry(l), lease' = [lease EXCEPT ![l] = 0],
              key_id' = [key_id EXCEPT ![l] = 0]
       PROVE  FALSE
  <2>1. m # l
    BY <1>1, <1>2, <1>5, <1>16
  <2>2. key_id'[m] = key_id[m] /\ lease'[m] = lease[m]
    BY <1>1, <1>16, <2>1
  <2>3. ~disturbed /\ (dict.tree[LockKey] = NoEntry \/ owner = l)
    BY <1>2, <1>16 DEF DeletesEntry
  <2>. QED
    BY <1>3, <2>1, <2>2, <2>3 DEF Guards
<1>17. ASSUME NEW l \in Lockers, Unlock(l)
       PROVE  owner' = m /\ Guards(dict', lease'[m])
  BY <1>16, <1>17 DEF Unlock
<1>18. ASSUME NEW l \in Lockers, ExpireLock(l, Exptime)
       PROVE  owner' = m /\ Guards(dict', lease'[m])
  <2>1. PICK w \in Workers : w = Home[l] /\ Now(l) = clock[w]
    BY <1>5
  <2>2. PICK r : r = Store(dict, "replace", LockKey, Locked, Exptime, clock[w])
    OBVIOUS
  <2>3. /\ dict' = r.dict
        /\ lease' = [lease EXCEPT ![l] = IF r.res = "ok" THEN Now(l) + Exptime ELSE lease[l]]
        /\ disturbed' = (disturbed \/ (r.res = "ok" /\ owner # l))
        /\ UNCHANGED <<key_id, owner>>
    BY <1>18, <2>1, <2>2 DEF ExpireLock
  <2>4. /\ r.res = "ok" => Guards(r.dict, clock[w] + Exptime)
        /\ Unexpired(dict, LockKey, clock[w]) => r.res = "ok"
    BY <2>2, LockStored, LockConstants DEF Guards
  <2>5. ~disturbed /\ (r.res = "ok" => owner = l)
    BY <1>2, <2>3
  <2>6. CASE r.res = "ok"
    <3>1. m = l
      <4>1. m # l => lease'[m] = lease[m] /\ key_id'[m] = key_id[m]
        BY <1>1, <2>3
      <4>. QED
        BY <1>3, <2>5, <2>6, <4>1
    <3>2. lease'[m] = clock[w] + Exptime
      BY <1>1, <2>1, <2>3, <2>6, <3>1
    <3>. QED
      BY <2>3, <2>4, <2>5, <2>6, <3>1, <3>2
  <2>7. CASE r.res # "ok"
    <3>1. lease'[m] = lease[m] /\ key_id'[m] = key_id[m]
      BY <1>1, <2>3, <2>7
    <3>. QED
      BY <1>3, <2>4, <2>5, <2>7, <3>1
  <2>. QED
    BY <2>6, <2>7
<1>19. ASSUME NEW l \in Lockers, GcLock(l)
       PROVE  owner' = m /\ Guards(dict', lease'[m])
  <2>1. CASE key_id[l] > 0
    BY <1>16, <1>19, <2>1 DEF GcLock
  <2>2. CASE ~(key_id[l] > 0)
    <3>1. /\ UNCHANGED <<dict, disturbed, owner>>
          /\ key_id' = [key_id EXCEPT ![l] = 0] /\ lease' = [lease EXCEPT ![l] = 0]
      BY <1>19, <2>2 DEF GcLock
    <3>2. m # l
      BY <1>1, <1>2, <1>5, <3>1
    <3>. QED
      BY <1>1, <1>4, <3>1, <3>2
  <2>. QED
    BY <2>1, <2>2
<1>. QED
  BY <1>6, <1>7, <1>8, <1>9, <1>10, <1>11, <1>13, <1>14, <1>15, <1>17, <1>18, <1>19
     DEF LockNext, LockerNext

----------------------------------------------------------------------------
(* The theorems.                                                           *)

LEMMA EmptyZone == LockInit => ZoneInv
<1>1. SUFFICES ASSUME LockInit PROVE ZoneInv
  OBVIOUS
<1>2. dict = Empty /\ LastEnd \in Nat
  BY <1>1, LockConstants DEF LockInit
<1>3. Consistent(Empty, LastEnd)
  BY <1>2, EmptyConsistent
<1>4. OnlyLocks(Empty)
  BY DEF OnlyLocks, Empty, Present
<1>. QED
  BY <1>2, <1>3, <1>4 DEF ZoneInv

LEMMA InitLockInv == LockInit => LockInv
<1>1. SUFFICES ASSUME LockInit PROVE LockInv
  OBVIOUS
<1>2. TimeInv
  <2>1. /\ Base \in (Base - MaxLag)..Base /\ 0 \in 0..Timeout
        /\ 0 \in 0..Max({Step, MaxStep}) /\ 0 \in Times
    BY StepBounds, LockConstants
  <2>. QED
    BY <1>1, <2>1 DEF LockInit, TimeInv
<1>3. ObjectInv
  BY <1>1 DEF LockInit, ObjectInv
<1>4. MemoInv
  <2>1. PICK n : n = [free |-> <<>>, refs |-> <<>>]
    OBVIOUS
  <2>2. FreeSlots(n) /\ Len(n.free) = 0 /\ Len(n.refs) = 0 /\ n \in Memos
    BY <2>1 DEF FreeSlots, Memos, IsInjective, Range
  <2>3. \A l \in Lockers : key_id[l] = 0 /\ dict_id[l] = 0
    BY <1>1 DEF LockInit
  <2>4. ASSUME NEW w \in Workers
        PROVE  MemoSound(n, At(w), key_id, "key", dict_id, "dict")
    <3>1. OwnSlots(n, At(w), key_id, "key") /\ OwnSlots(n, At(w), dict_id, "dict")
      BY <2>3 DEF OwnSlots, At
    <3>2. Live(At(w), key_id) = {} /\ Live(At(w), dict_id) = {}
      BY <2>3 DEF Live, At
    <3>. QED
      BY <2>2, <3>1, <3>2, FS_EmptySet DEF MemoSound
  <2>5. memo = [w \in Workers |-> n]
    BY <1>1, <2>1 DEF LockInit
  <2>. QED
    BY <2>2, <2>4, <2>5 DEF MemoInv
<1>5. MutualExclusion
  BY <1>1 DEF LockInit, MutualExclusion, HoldsValidly
<1>. QED
  BY <1>1, <1>2, <1>3, <1>4, <1>5, EmptyZone DEF LockInv

LEMMA NextLockInv == LockInv /\ [LockNext]_lockVars => LockInv'
BY ZoneKept, TimeKept, ObjectKept, MemoKept, ExclusionKept DEF LockInv

LEMMA LockInvariant == LockSpec => []LockInv
BY InitLockInv, NextLockInv, PTL DEF LockSpec

\* The handles of all objects of a worker, and the free slots, are different
\* slots of its memo, and they are all its slots: unlock and __gc delete the
\* right key from the right zone (memo and ref_obj of lock.lua).
THEOREM HandlesSafe == LockSpec => []HandlesSound
<1>1. LockInv => HandlesSound
  <2>1. SUFFICES ASSUME LockInv PROVE HandlesSound
    OBVIOUS
  <2>2. /\ dict.tree \in Trees(LastEnd)
        /\ clock \in [Workers -> (Base - MaxLag)..Base]
        /\ Times = 0..LastEnd
    BY <2>1, DictFields, LockConstants DEF LockInv, ZoneInv, Consistent, TimeInv
  <2>3. \A k \in Present(dict) : dict.tree[k].expires \in Times
    BY <2>2 DEF Trees, Entries, Present
  <2>4. LockTypeOK
    BY <2>1, <2>3 DEF LockInv, TimeInv, ObjectInv, LockTypeOK
  <2>5. ASSUME NEW w \in Workers
        PROVE  MemoSound(memo[w], At(w), key_id, "key", dict_id, "dict")
    BY <2>1 DEF LockInv, MemoInv
  <2>6. \A w \in Workers :
           /\ {l \in Lockers : Home[l] = w /\ key_id[l] > 0} = Live(At(w), key_id)
           /\ {l \in Lockers : Home[l] = w /\ dict_id[l] > 0} = Live(At(w), dict_id)
    BY DEF Live, At
  <2>7. HandlesDistinct
    BY <2>5, <2>6 DEF HandlesDistinct, MemoSound, OwnSlots, Live, At
  <2>. QED
    BY <2>4, <2>7 DEF HandlesSound
<1>. QED
  BY <1>1, LockInvariant, PTL

\* Two objects never hold the lock with leases that have not ended, whatever
\* the workers' clocks show and whenever a worker dies, as long as nobody
\* deletes or renews a foreign lease and the entry is not evicted (lock,
\* unlock, expire and the __gc of lock.lua on dict:add, replace and delete).
THEOREM ExclusionSafe == LockSpec => []MutualExclusion
<1>1. LockInv => MutualExclusion
  BY DEF LockInv
<1>. QED
  BY <1>1, LockInvariant, PTL
=============================================================================
