-------------------------- MODULE SocketPoolProofs --------------------------
(***************************************************************************)
(* Proofs about SocketPool, for any number of sockets, pools and           *)
(* connections, of any size and backlog.  A step of the code is a chain of *)
(* small changes (the old connection is closed, a pool made, the operation *)
(* counted, a connection taken), so the invariant is an operator of the    *)
(* pools, the sockets and the open connections, and each change has a      *)
(* lemma that keeps it.                                                    *)
(***************************************************************************)
EXTENDS SocketPool, CollectionLemmas

----------------------------------------------------------------------------
(* The inductive invariant.                                                *)

PoolRecord ==
    [listed: BOOLEAN, backlog: {-1, Backlog}, connections: Int, cache: Seq(Conns),
     wait_connect_op: Seq(Socks), timed: SUBSET Socks, posted: SUBSET Socks,
     mismatched: BOOLEAN]

SockRecord == [st: States, conn: Conns \cup {None}, spool: Keys \cup {None},
               key: Keys \cup {None}]

\* A pool that counts the sockets C, with those of W in its queue.
CacheFits(p) == IsInjective(p.cache) /\ Len(p.cache) <= PoolSize

QueueFits(p, W) ==
    /\ Range(p.wait_connect_op) = W
    /\ IsInjective(p.wait_connect_op)
    /\ Len(p.wait_connect_op) <= PoolSize + Backlog
    /\ p.timed \cap p.posted = {} /\ p.timed \cup p.posted = W
    /\ \A s \in p.posted : p.wait_connect_op # <<>> /\ s = Head(p.wait_connect_op)

Unused(p, C) == C = {} /\ p.cache = <<>> /\ p.wait_connect_op = <<>>

CountFits(p, C) ==
    /\ p.connections = Cardinality(C) + Len(p.cache) + Len(p.wait_connect_op)
    /\ p.mismatched = FALSE
    /\ p.listed = TRUE \/ Unused(p, C)

Fits(p, C, W) ==
    /\ p \in PoolRecord
    /\ CacheFits(p) /\ QueueFits(p, W) /\ CountFits(p, C)

\* A pool whose counter is one above what it counts.
Exceeds(p, C, W) ==
    /\ p \in PoolRecord
    /\ CacheFits(p) /\ QueueFits(p, W)
    /\ p.connections = Cardinality(C) + Len(p.cache) + Len(p.wait_connect_op) + 1
    /\ p.mismatched = FALSE
    /\ p.listed = TRUE

\* A socket has a connection as long as it makes or uses one, and its name is
\* that of the pool that counts it.
SockFits(u) ==
    /\ u \in SockRecord
    /\ u.conn # None <=> u.st \in {"connecting", "open"}
    /\ u.st = "closed" => u.spool = None
    /\ u.st = "queued" => u.spool # None
    /\ u.st # "closed" => u.key # None
    /\ u.spool # None => u.spool = u.key

CountedIn(ss, k) == {s \in Socks : /\ ss[s].spool = k
                                   /\ ss[s].st \in {"resolving", "connecting", "open"}}
WaitingIn(ss, k) == {s \in Socks : ss[s].st = "queued" /\ ss[s].spool = k}

\* Each open connection has one owner, a socket or the cache of a pool.
Owned(ps, ss, os) ==
    /\ os \subseteq Conns
    /\ \A s \in Socks : ss[s].conn # None => ss[s].conn \in os
    /\ \A k \in Keys : Range(ps[k].cache) \subseteq os
    /\ \A c \in os : \/ \E s \in Socks : ss[s].conn = c
                     \/ \E k \in Keys : c \in Range(ps[k].cache)
    /\ \A s \in Socks, k \in Keys : ss[s].conn \notin Range(ps[k].cache)
    /\ \A s, t \in Socks : ss[s].conn = ss[t].conn /\ ss[s].conn # None => s = t
    /\ \A j, k \in Keys : j # k => Range(ps[j].cache) \cap Range(ps[k].cache) = {}

\* Every pool counts what it has, but pool ref (None for no pool) one more.
PoolsFit(ps, ss, ref) ==
    /\ ps \in [Keys -> PoolRecord]
    /\ \A k \in Keys : k # ref => Fits(ps[k], CountedIn(ss, k), WaitingIn(ss, k))
    /\ \A k \in Keys : k = ref => Exceeds(ps[k], CountedIn(ss, k), WaitingIn(ss, k))

SocksFit(ss) == ss \in [Socks -> SockRecord] /\ \A s \in Socks : SockFits(ss[s])

Good(ps, ss, os) == PoolsFit(ps, ss, None) /\ SocksFit(ss) /\ Owned(ps, ss, os)

\* The caches are gone, the counters left as they were.
Down ==
    /\ pool \in [Keys -> PoolRecord]
    /\ \A k \in Keys : /\ pool[k].cache = <<>> /\ pool[k].wait_connect_op = <<>>
                       /\ pool[k].timed = {} /\ pool[k].posted = {}
                       /\ pool[k].mismatched = FALSE
    /\ sock \in [Socks -> SockRecord]
    /\ \A s \in Socks : sock[s].st = "closed" /\ sock[s].conn = None
    /\ open = {}

IInv == \/ phase \in {"running", "exiting"} /\ Good(pool, sock, open)
        \/ phase = "down" /\ Down

----------------------------------------------------------------------------
(* What the small changes do to a pool.                                    *)

LEMMA MoreLess ==
    ASSUME NEW p \in PoolRecord, NEW q \in {More(p), Less(p)}
    PROVE  /\ q \in PoolRecord
           /\ q.connections = IF q = More(p) THEN p.connections + 1 ELSE p.connections - 1
           /\ q.listed = p.listed /\ q.backlog = p.backlog /\ q.mismatched = p.mismatched
           /\ q.cache = p.cache /\ q.wait_connect_op = p.wait_connect_op
           /\ q.timed = p.timed /\ q.posted = p.posted
BY DEF More, Less, PoolRecord

LEMMA MoreLessCount ==
    ASSUME NEW p \in PoolRecord
    PROVE  /\ More(p).connections = p.connections + 1
           /\ Less(p).connections = p.connections - 1
BY DEF More, Less, PoolRecord

LEMMA CachingFields ==
    ASSUME NEW p \in PoolRecord, NEW c \in Seq(Conns)
    PROVE  LET q == Caching(p, c) IN
           /\ q \in PoolRecord /\ q.cache = c /\ q.connections = p.connections
           /\ q.listed = p.listed /\ q.backlog = p.backlog /\ q.mismatched = p.mismatched
           /\ q.wait_connect_op = p.wait_connect_op
           /\ q.timed = p.timed /\ q.posted = p.posted
BY DEF Caching, PoolRecord

\* The head of a queue without repetitions is where its first element is.
LEMMA RemovesOne ==
    ASSUME NEW S, NEW q \in Seq(S), IsInjective(q), NEW s \in Range(q)
    PROVE  /\ RemoveFirst(q, s) \in Seq(S) /\ IsInjective(RemoveFirst(q, s))
           /\ Len(RemoveFirst(q, s)) = Len(q) - 1
           /\ Range(RemoveFirst(q, s)) = Range(q) \ {s}
           /\ s # Head(q) => RemoveFirst(q, s) # <<>> /\ Head(RemoveFirst(q, s)) = Head(q)
<1>1. PICK i \in 1..Len(q) : q[i] = s
  BY LenProperties DEF Range
<1>2. RemoveFirst(q, s) = RemoveAt(q, i)
  <2>1. {j \in 1..Len(q) : q[j] = s} = {i}
    BY <1>1, LenProperties DEF IsInjective
  <2>2. Min({i}) = i
    BY LenProperties DEF Min
  <2>. QED
    BY <1>1, <2>1, <2>2 DEF RemoveFirst, SelectInSeq
<1>3. /\ RemoveAt(q, i) \in Seq(S)
      /\ Len(RemoveAt(q, i)) = Len(q) - 1
      /\ \A j \in 1..(Len(q) - 1) :
            RemoveAt(q, i)[j] = IF j < i THEN q[j] ELSE q[j + 1]
  BY QueueRemoveAt
<1>4. IsInjective(RemoveAt(q, i)) /\ Range(RemoveAt(q, i)) = Range(q) \ {s}
  BY <1>1, QueueLeft
<1>5. ASSUME s # Head(q) PROVE RemoveAt(q, i) # <<>> /\ Head(RemoveAt(q, i)) = Head(q)
  <2>1. Len(q) \in Nat /\ Len(q) >= 1 /\ Head(q) = q[1]
    BY <1>1, LenProperties, QueueTail, EmptySeq
  <2>2. i # 1 /\ i >= 2 /\ 1 \in 1..(Len(q) - 1)
    BY <1>1, <1>5, <2>1
  <2>3. RemoveAt(q, i)[1] = q[1]
    BY <1>3, <2>2
  <2>4. RemoveAt(q, i) # <<>>
    BY <1>3, <2>2, EmptySeq
  <2>5. Head(RemoveAt(q, i)) = RemoveAt(q, i)[1]
    <3>1. PICK r : r = RemoveAt(q, i)
      OBVIOUS
    <3>2. r \in Seq(S) /\ r # <<>>
      BY <1>3, <2>4, <3>1
    <3>3. Head(r) = r[1]
      BY <3>2, QueueTail
    <3>. QED
      BY <3>1, <3>3
  <2>. QED
    BY <2>1, <2>3, <2>4, <2>5
<1>. QED
  BY <1>2, <1>3, <1>4, <1>5

----------------------------------------------------------------------------
(* Pools that fit: C are the sockets counted, W those queued.              *)

LEMMA Sizes ==
    ASSUME NEW C \in SUBSET Socks, NEW s \in Socks
    PROVE  /\ IsFiniteSet(C) /\ Cardinality(C) \in Nat
           /\ s \in C => Cardinality(C \ {s}) = Cardinality(C) - 1 /\ Cardinality(C) >= 1
           /\ s \notin C => Cardinality(C \cup {s}) = Cardinality(C) + 1
           /\ Cardinality(C) = 0 => C = {}
<1>1. IsFiniteSet(C) /\ Cardinality(C) \in Nat
  BY NamesAssumption, FS_Subset, FS_CardinalityType
<1>2. ASSUME s \in C PROVE Cardinality(C \ {s}) = Cardinality(C) - 1 /\ Cardinality(C) >= 1
  <2>1. Cardinality(C \ {s}) = Cardinality(C) - 1
    BY <1>1, <1>2, FS_RemoveElement
  <2>2. Cardinality(C) # 0
    BY <1>1, <1>2, FS_EmptySet
  <2>. QED
    BY <1>1, <2>1, <2>2
<1>3. s \notin C => Cardinality(C \cup {s}) = Cardinality(C) + 1
  BY <1>1, FS_AddElement
<1>4. Cardinality(C) = 0 => C = {}
  BY <1>1, FS_EmptySet
<1>. QED
  BY <1>1, <1>2, <1>3, <1>4

LEMMA Lengths ==
    ASSUME NEW p \in PoolRecord
    PROVE  /\ Len(p.cache) \in Nat /\ Len(p.wait_connect_op) \in Nat
           /\ p.cache \in Seq(Conns) /\ p.wait_connect_op \in Seq(Socks)
           /\ Len(p.cache) = 0 => p.cache = <<>>
           /\ Len(p.wait_connect_op) = 0 => p.wait_connect_op = <<>>
           /\ p.connections \in Int /\ p.timed \subseteq Socks /\ p.posted \subseteq Socks
           /\ p.backlog \in {-1, Backlog}
<1>1. /\ p.cache \in Seq(Conns) /\ p.wait_connect_op \in Seq(Socks)
      /\ p.connections \in Int /\ p.timed \subseteq Socks /\ p.posted \subseteq Socks
      /\ p.backlog \in {-1, Backlog}
  BY DEF PoolRecord
<1>. QED
  BY <1>1, LenProperties, EmptySeq

\* A fresh pool, and one that takes the place of a pool that has left.
LEMMA FitsNew ==
    ASSUME NEW b \in {-1, Backlog}
    PROVE  Fits(NewPool(b), {}, {}) /\ Fits(NoPool, {}, {})
<1>1. <<>> \in Seq(Conns) /\ <<>> \in Seq(Socks) /\ Len(<<>>) = 0
      /\ IsInjective(<<>>) /\ Range(<<>>) = {}
  BY DEF IsInjective, Range
<1>2. NewPool(b) \in PoolRecord /\ NoPool \in PoolRecord
  <2>1. ASSUME NEW c \in {-1, Backlog} PROVE NewPool(c) \in PoolRecord
    BY <1>1 DEF NewPool, PoolRecord
  <2>2. NewPool(-1) \in PoolRecord
    BY <2>1
  <2>3. NoPool \in PoolRecord
    <3>1. PICK n : n = NewPool(-1)
      OBVIOUS
    <3>2. NoPool = [n EXCEPT !.listed = FALSE] /\ n \in PoolRecord
      BY <2>2, <3>1 DEF NoPool
    <3>. QED
      BY <3>2 DEF PoolRecord
  <2>. QED
    BY <2>1, <2>3
<1>3. ASSUME NEW p \in {NewPool(b), NoPool} PROVE Fits(p, {}, {})
  <2>1. /\ p.cache = <<>> /\ p.wait_connect_op = <<>> /\ p.timed = {} /\ p.posted = {}
        /\ p.connections = 0 /\ p.mismatched = FALSE
    BY <1>3 DEF NewPool, NoPool
  <2>2. p \in PoolRecord /\ Cardinality({}) = 0
    BY <1>2, FS_EmptySet
  <2>. QED
    BY <1>1, <2>1, <2>2, SizeAssumption DEF Fits, CacheFits, QueueFits, CountFits, Unused
<1>. QED
  BY <1>3

LEMMA UnlistedUnused ==
    ASSUME NEW p, NEW C \in SUBSET Socks, NEW W, Fits(p, C, W), p.listed = FALSE
    PROVE  C = {} /\ W = {}
BY DEF Fits, CountFits, QueueFits, Unused, Range

\* The head of the queue is posted: it keeps its place.
LEMMA FitsResumed ==
    ASSUME NEW p, NEW C \in SUBSET Socks, NEW W, Fits(p, C, W)
    PROVE  Fits(ResumeConnOp(p), C, W)
<1>1. p \in PoolRecord /\ CacheFits(p) /\ QueueFits(p, W) /\ CountFits(p, C)
  BY DEF Fits
<1>2. ~(p.connections < 0)
  BY <1>1, Lengths, NamesAssumption, FS_Subset, FS_CardinalityType DEF CountFits
<1>3. CASE p.wait_connect_op = <<>>
  BY <1>2, <1>3 DEF ResumeConnOp
<1>4. CASE p.wait_connect_op # <<>>
  <2>1. PICK h, q : h = Head(p.wait_connect_op) /\ q = ResumePosted(p, h)
    OBVIOUS
  <2>2. ResumeConnOp(p) = q
    BY <1>2, <1>4, <2>1 DEF ResumeConnOp
  <2>3. p.wait_connect_op \in Seq(Socks) /\ p.timed \subseteq Socks /\ p.posted \subseteq Socks
    BY <1>1, Lengths
  <2>4. h \in Range(p.wait_connect_op) /\ h \in Socks /\ h \in W
    <3>1. h \in Range(p.wait_connect_op)
      BY <1>1, <1>4, <2>1, <2>3, QueueServed DEF QueueFits
    <3>2. h \in Socks
      BY <1>4, <2>1, <2>3
    <3>. QED
      BY <1>1, <3>1, <3>2 DEF QueueFits
  <2>5. /\ q \in PoolRecord /\ q.wait_connect_op = p.wait_connect_op
        /\ q.timed = p.timed \ {h} /\ q.posted = p.posted \cup {h}
        /\ q.cache = p.cache /\ q.connections = p.connections
        /\ q.listed = p.listed /\ q.backlog = p.backlog /\ q.mismatched = p.mismatched
    BY <1>1, <2>1, <2>4 DEF ResumePosted, PoolRecord
  <2>6. QueueFits(q, W)
    BY <1>1, <1>4, <2>1, <2>4, <2>5 DEF QueueFits
  <2>7. CacheFits(q) /\ CountFits(q, C)
    BY <1>1, <2>5 DEF CacheFits, CountFits, Unused
  <2>. QED
    BY <2>2, <2>5, <2>6, <2>7 DEF Fits
<1>. QED
  BY <1>3, <1>4

LEMMA ExceedsLess ==
    ASSUME NEW p, NEW C \in SUBSET Socks, NEW W, Exceeds(p, C, W)
    PROVE  Fits(Less(p), C, W)
<1>1. p \in PoolRecord /\ CacheFits(p) /\ QueueFits(p, W) /\ IsFiniteSet(C)
  BY NamesAssumption, FS_Subset DEF Exceeds
<1>2. PICK q : q = Less(p)
  OBVIOUS
<1>3. /\ q \in PoolRecord /\ q.connections = p.connections - 1
      /\ q.listed = p.listed /\ q.backlog = p.backlog /\ q.mismatched = p.mismatched
      /\ q.cache = p.cache /\ q.wait_connect_op = p.wait_connect_op
      /\ q.timed = p.timed /\ q.posted = p.posted
  BY <1>1, <1>2, MoreLess, MoreLessCount
<1>4. CacheFits(q) /\ QueueFits(q, W)
  BY <1>1, <1>3 DEF CacheFits, QueueFits
<1>5. CountFits(q, C)
  <2>1. Cardinality(C) \in Nat /\ Len(p.cache) \in Nat /\ Len(p.wait_connect_op) \in Nat
    BY <1>1, Lengths, FS_CardinalityType
  <2>. QED
    BY <1>3, <2>1 DEF CountFits, Exceeds
<1>. QED
  BY <1>2, <1>3, <1>4, <1>5 DEF Fits

LEMMA ExceedsGaveUp ==
    ASSUME NEW p, NEW C \in SUBSET Socks, NEW W, Exceeds(p, C, W)
    PROVE  Fits(GaveUp(p), C, W)
BY ExceedsLess, FitsResumed DEF GaveUp

\* The last one takes the pool with it.
LEMMA ExceedsClosedOne ==
    ASSUME NEW p, NEW C \in SUBSET Socks, NEW W, Exceeds(p, C, W)
    PROVE  Fits(ClosedOne(p), C, W)
<1>1. p \in PoolRecord /\ CacheFits(p) /\ QueueFits(p, W) /\ IsFiniteSet(C)
  BY NamesAssumption, FS_Subset DEF Exceeds
<1>2. CASE p.connections = 1
  <2>1. PICK q : q = [p EXCEPT !.connections = 0, !.listed = FALSE]
    OBVIOUS
  <2>2. ClosedOne(p) = q
    BY <1>2, <2>1 DEF ClosedOne
  <2>3. /\ q \in PoolRecord /\ q.connections = 0
        /\ q.mismatched = p.mismatched
        /\ q.cache = p.cache /\ q.wait_connect_op = p.wait_connect_op
        /\ q.timed = p.timed /\ q.posted = p.posted
    <3>1. p \in PoolRecord
      BY <1>1
    <3>2. PICK r : r = [p EXCEPT !.connections = 0]
      OBVIOUS
    <3>3. /\ r \in PoolRecord /\ r.connections = 0 /\ r.mismatched = p.mismatched
          /\ r.cache = p.cache /\ r.wait_connect_op = p.wait_connect_op
          /\ r.timed = p.timed /\ r.posted = p.posted
      BY <3>1, <3>2 DEF PoolRecord
    <3>4. q = [r EXCEPT !.listed = FALSE]
      BY <2>1, <3>1, <3>2 DEF PoolRecord
    <3>. QED
      BY <3>3, <3>4 DEF PoolRecord
  <2>4. /\ Cardinality(C) \in Nat /\ Len(p.cache) \in Nat /\ Len(p.wait_connect_op) \in Nat
    BY <1>1, Lengths, FS_CardinalityType
  <2>5. Cardinality(C) = 0 /\ Len(p.cache) = 0 /\ Len(p.wait_connect_op) = 0
    BY <1>2, <2>4 DEF Exceeds
  <2>6. C = {} /\ p.cache = <<>> /\ p.wait_connect_op = <<>>
    BY <1>1, <2>5, Lengths, FS_EmptySet
  <2>7. CacheFits(q) /\ QueueFits(q, W)
    BY <1>1, <2>3 DEF CacheFits, QueueFits
  <2>8. CountFits(q, C)
    BY <2>3, <2>5, <2>6 DEF CountFits, Unused, Exceeds
  <2>. QED
    BY <2>2, <2>3, <2>7, <2>8 DEF Fits
<1>3. CASE p.connections # 1
  BY <1>3, ExceedsGaveUp DEF ClosedOne
<1>. QED
  BY <1>2, <1>3

LEMMA ExceedsCounted ==
    ASSUME NEW p, NEW C \in SUBSET Socks, NEW W, Exceeds(p, C, W),
           NEW s \in Socks, s \notin C
    PROVE  Fits(p, C \cup {s}, W)
<1>1. p \in PoolRecord /\ CacheFits(p) /\ QueueFits(p, W)
  BY DEF Exceeds
<1>2. Cardinality(C \cup {s}) = Cardinality(C) + 1 /\ Cardinality(C) \in Nat
  BY Sizes
<1>3. Len(p.cache) \in Nat /\ Len(p.wait_connect_op) \in Nat
  BY <1>1, Lengths
<1>4. CountFits(p, C \cup {s})
  BY <1>2, <1>3 DEF CountFits, Exceeds
<1>. QED
  BY <1>1, <1>4 DEF Fits

LEMMA ExceedsQueued ==
    ASSUME NEW p, NEW C \in SUBSET Socks, NEW W, Exceeds(p, C, W),
           NEW s \in Socks, s \notin W,
           Len(p.wait_connect_op) + 1 <= PoolSize + Backlog
    PROVE  Fits(Queued(p, s), C, W \cup {s})
<1>1. p \in PoolRecord /\ CacheFits(p) /\ QueueFits(p, W)
  BY DEF Exceeds
<1>2. /\ p.wait_connect_op \in Seq(Socks) /\ p.timed \subseteq Socks /\ p.posted \subseteq Socks
      /\ Len(p.cache) \in Nat /\ Len(p.wait_connect_op) \in Nat /\ Cardinality(C) \in Nat
  BY <1>1, Lengths, Sizes
<1>3. PICK w, q : w = Append(p.wait_connect_op, s) /\ q = Queued(p, s)
  OBVIOUS
<1>4. /\ w \in Seq(Socks) /\ Len(w) = Len(p.wait_connect_op) + 1
      /\ IsInjective(w) /\ Range(w) = W \cup {s}
  BY <1>1, <1>2, <1>3, QueueJoined DEF QueueFits
<1>5. /\ q \in PoolRecord /\ q.wait_connect_op = w
      /\ q.timed = p.timed \cup {s} /\ q.posted = p.posted
      /\ q.cache = p.cache /\ q.connections = p.connections
      /\ q.listed = p.listed /\ q.backlog = p.backlog /\ q.mismatched = p.mismatched
  <2>1. q = [p EXCEPT !.wait_connect_op = w, !.timed = p.timed \cup {s}]
    BY <1>3 DEF Queued
  <2>. QED
    BY <1>1, <1>2, <1>4, <2>1 DEF PoolRecord
<1>6. QueueFits(q, W \cup {s})
  <2>1. \A e \in p.posted : w # <<>> /\ e = Head(w)
    <3>. SUFFICES ASSUME NEW e \in p.posted PROVE w # <<>> /\ e = Head(w)
      OBVIOUS
    <3>1. p.wait_connect_op # <<>> /\ e = Head(p.wait_connect_op)
      BY <1>1 DEF QueueFits
    <3>. QED
      BY <1>2, <1>3, <3>1, HeadTailAppend
  <2>2. s \notin p.posted /\ p.timed \cap p.posted = {} /\ p.timed \cup p.posted = W
    BY <1>1 DEF QueueFits
  <2>3. q.timed \cap q.posted = {} /\ q.timed \cup q.posted = W \cup {s}
    BY <1>5, <2>2
  <2>4. Len(q.wait_connect_op) <= PoolSize + Backlog
    BY <1>4, <1>5
  <2>. QED
    BY <1>4, <1>5, <2>1, <2>3, <2>4 DEF QueueFits
<1>7. CacheFits(q) /\ CountFits(q, C)
  <2>1. CacheFits(p)
    BY <1>1
  <2>2. q.connections = Cardinality(C) + Len(q.cache) + Len(q.wait_connect_op)
    <3>1. /\ p.connections = Cardinality(C) + Len(p.cache) + Len(p.wait_connect_op) + 1
          /\ q.connections = p.connections /\ Len(q.cache) = Len(p.cache)
          /\ Len(q.wait_connect_op) = Len(p.wait_connect_op) + 1
      BY <1>4, <1>5 DEF Exceeds
    <3>2. PICK a, b, c : a = Cardinality(C) /\ b = Len(p.cache) /\ c = Len(p.wait_connect_op)
      OBVIOUS
    <3>3. a \in Nat /\ b \in Nat /\ c \in Nat
      BY <1>2, <3>2
    <3>4. a + b + c + 1 = a + b + (c + 1)
      BY <3>3
    <3>. QED
      BY <3>1, <3>2, <3>4
  <2>3. q.mismatched = FALSE /\ q.listed = TRUE
    BY <1>5 DEF Exceeds
  <2>. QED
    BY <1>5, <2>1, <2>2, <2>3 DEF CacheFits, CountFits
<1>. QED
  BY <1>3, <1>5, <1>6, <1>7 DEF Fits

LEMMA FitsMore ==
    ASSUME NEW p, NEW C \in SUBSET Socks, NEW W, Fits(p, C, W), p.listed = TRUE
    PROVE  Exceeds(More(p), C, W)
<1>1. p \in PoolRecord /\ CacheFits(p) /\ QueueFits(p, W) /\ CountFits(p, C)
  BY DEF Fits
<1>2. PICK q : q = More(p)
  OBVIOUS
<1>3. /\ q \in PoolRecord /\ q.connections = p.connections + 1
      /\ q.listed = p.listed /\ q.backlog = p.backlog /\ q.mismatched = p.mismatched
      /\ q.cache = p.cache /\ q.wait_connect_op = p.wait_connect_op
      /\ q.timed = p.timed /\ q.posted = p.posted
  BY <1>1, <1>2, MoreLess, MoreLessCount
<1>. QED
  BY <1>1, <1>2, <1>3 DEF Exceeds, CacheFits, QueueFits, CountFits

\* A counted socket is about to leave.
LEMMA FitsLeaving ==
    ASSUME NEW p, NEW C \in SUBSET Socks, NEW W, Fits(p, C, W), NEW s \in C
    PROVE  Exceeds(p, C \ {s}, W)
<1>1. p \in PoolRecord /\ CacheFits(p) /\ QueueFits(p, W) /\ CountFits(p, C)
  BY DEF Fits
<1>2. Cardinality(C \ {s}) = Cardinality(C) - 1 /\ Cardinality(C) \in Nat
  BY Sizes
<1>3. Len(p.cache) \in Nat /\ Len(p.wait_connect_op) \in Nat
  BY <1>1, Lengths
<1>4. p.listed = TRUE
  BY <1>1 DEF CountFits, Unused
<1>. QED
  BY <1>1, <1>2, <1>3, <1>4 DEF Exceeds, CountFits

\* An idle connection is about to leave, or to be used.
LEMMA FitsUncached ==
    ASSUME NEW p, NEW C \in SUBSET Socks, NEW W, Fits(p, C, W),
           NEW i \in 1..Len(p.cache)
    PROVE  Exceeds(Caching(p, RemoveAt(p.cache, i)), C, W)
<1>1. p \in PoolRecord /\ CacheFits(p) /\ QueueFits(p, W) /\ CountFits(p, C)
  BY DEF Fits
<1>2. /\ p.cache \in Seq(Conns) /\ Len(p.cache) \in Nat /\ Len(p.wait_connect_op) \in Nat
      /\ Cardinality(C) \in Nat
  BY <1>1, Lengths, NamesAssumption, FS_Subset, FS_CardinalityType
<1>3. PICK c, q : c = RemoveAt(p.cache, i) /\ q = Caching(p, c)
  OBVIOUS
<1>4. c \in Seq(Conns) /\ Len(c) = Len(p.cache) - 1 /\ IsInjective(c)
  BY <1>1, <1>2, <1>3, QueueRemoveAt, QueueLeft DEF CacheFits
<1>5. /\ q \in PoolRecord /\ q.cache = c /\ q.connections = p.connections
      /\ q.listed = p.listed /\ q.backlog = p.backlog /\ q.mismatched = p.mismatched
      /\ q.wait_connect_op = p.wait_connect_op
      /\ q.timed = p.timed /\ q.posted = p.posted
  BY <1>1, <1>3, <1>4, CachingFields
<1>6. p.listed = TRUE
  <2>1. p.cache # <<>>
    BY <1>2
  <2>. QED
    BY <1>1, <2>1 DEF CountFits, Unused
<1>7. CacheFits(q) /\ QueueFits(q, W)
  <2>1. Len(c) <= PoolSize
    BY <1>1, <1>2, <1>4, SizeAssumption DEF CacheFits
  <2>2. CacheFits(q)
    BY <1>4, <1>5, <2>1 DEF CacheFits
  <2>3. QueueFits(p, W)
    BY <1>1
  <2>4. QueueFits(q, W)
    BY <1>5, <2>3 DEF QueueFits
  <2>. QED
    BY <2>2, <2>4
<1>8. q.connections = Cardinality(C) + Len(q.cache) + Len(q.wait_connect_op) + 1
  <2>1. /\ p.connections = Cardinality(C) + Len(p.cache) + Len(p.wait_connect_op)
        /\ q.connections = p.connections /\ Len(q.cache) = Len(p.cache) - 1
        /\ Len(q.wait_connect_op) = Len(p.wait_connect_op)
    BY <1>1, <1>4, <1>5 DEF CountFits
  <2>. QED
    BY <1>2, <2>1
<1>9. q.mismatched = FALSE
  BY <1>1, <1>5 DEF CountFits
<1>. QED
  BY <1>3, <1>5, <1>6, <1>7, <1>8, <1>9 DEF Exceeds

\* A queued operation leaves the queue: it is given up, or its turn has come.
LEMMA FitsDequeued ==
    ASSUME NEW p, NEW C \in SUBSET Socks, NEW W, Fits(p, C, W), NEW s \in W
    PROVE  /\ Exceeds(Dequeued(p, s), C, W \ {s})
           /\ s \in p.posted => Exceeds(TakenFromQueue(p, s), C, W \ {s})
<1>1. p \in PoolRecord /\ CacheFits(p) /\ QueueFits(p, W) /\ CountFits(p, C)
  BY DEF Fits
<1>2. /\ p.wait_connect_op \in Seq(Socks) /\ p.timed \subseteq Socks /\ p.posted \subseteq Socks
      /\ Len(p.cache) \in Nat /\ Len(p.wait_connect_op) \in Nat /\ Cardinality(C) \in Nat
      /\ IsInjective(p.wait_connect_op) /\ Range(p.wait_connect_op) = W
      /\ Len(p.wait_connect_op) <= PoolSize + Backlog
  BY <1>1, Lengths, NamesAssumption, FS_Subset, FS_CardinalityType DEF QueueFits
<1>3. p.wait_connect_op # <<>> /\ p.listed = TRUE
  <2>1. p.wait_connect_op # <<>>
    BY <1>2 DEF Range
  <2>. QED
    BY <1>1, <2>1 DEF CountFits, Unused
<1>4. ASSUME NEW w \in Seq(Socks), IsInjective(w), Range(w) = W \ {s},
             Len(w) = Len(p.wait_connect_op) - 1,
             NEW t \in SUBSET Socks, t = p.timed \ {s},
             NEW e \in SUBSET Socks, e = p.posted \ {s},
             \A x \in e : w # <<>> /\ x = Head(w),
             NEW q, q = [p EXCEPT !.wait_connect_op = w, !.timed = t, !.posted = e]
      PROVE  Exceeds(q, C, W \ {s})
  <2>1. /\ q \in PoolRecord /\ q.wait_connect_op = w /\ q.timed = t /\ q.posted = e
        /\ q.cache = p.cache /\ q.connections = p.connections
        /\ q.listed = p.listed /\ q.backlog = p.backlog /\ q.mismatched = p.mismatched
    <3>1. p \in PoolRecord
      BY <1>1
    <3>2. q = [p EXCEPT !.wait_connect_op = w, !.timed = t, !.posted = e]
      BY <1>4
    <3>3. w \in Seq(Socks) /\ t \in SUBSET Socks /\ e \in SUBSET Socks
      BY <1>4
    <3>. QED
      BY <3>1, <3>2, <3>3 DEF PoolRecord
  <2>2. t \cap e = {} /\ t \cup e = W \ {s}
    BY <1>1, <1>4 DEF QueueFits
  <2>3. Len(w) <= PoolSize + Backlog
    BY <1>2, <1>4, SizeAssumption
  <2>4. QueueFits(q, W \ {s})
    BY <1>4, <2>1, <2>2, <2>3 DEF QueueFits
  <2>5. CacheFits(q)
    <3>1. CacheFits(p) /\ q.cache = p.cache
      BY <1>1, <2>1
    <3>. QED
      BY <3>1 DEF CacheFits
  <2>6. q.connections = Cardinality(C) + Len(q.cache) + Len(q.wait_connect_op) + 1
    <3>1. /\ p.connections = Cardinality(C) + Len(p.cache) + Len(p.wait_connect_op)
          /\ q.connections = p.connections /\ Len(q.cache) = Len(p.cache)
          /\ Len(q.wait_connect_op) = Len(p.wait_connect_op) - 1
      BY <1>1, <1>4, <2>1 DEF CountFits
    <3>. QED
      BY <1>2, <3>1
  <2>7. q.mismatched = FALSE
    BY <1>1, <2>1 DEF CountFits
  <2>. QED
    BY <1>3, <2>1, <2>4, <2>5, <2>6, <2>7 DEF Exceeds
<1>5. Exceeds(Dequeued(p, s), C, W \ {s})
  <2>1. PICK w : w = RemoveFirst(p.wait_connect_op, s)
    OBVIOUS
  <2>2. /\ w \in Seq(Socks) /\ IsInjective(w) /\ Range(w) = W \ {s}
        /\ Len(w) = Len(p.wait_connect_op) - 1
        /\ s # Head(p.wait_connect_op) => w # <<>> /\ Head(w) = Head(p.wait_connect_op)
    BY <1>2, <2>1, RemovesOne
  <2>3. \A x \in p.posted \ {s} : w # <<>> /\ x = Head(w)
    BY <1>1, <2>2 DEF QueueFits
  <2>4. p.timed \ {s} \in SUBSET Socks /\ p.posted \ {s} \in SUBSET Socks
    BY <1>2
  <2>5. Dequeued(p, s) = [p EXCEPT !.wait_connect_op = w, !.timed = p.timed \ {s},
                                   !.posted = p.posted \ {s}]
    BY <2>1 DEF Dequeued
  <2>. QED
    BY <1>4, <2>2, <2>3, <2>4, <2>5
<1>6. ASSUME s \in p.posted PROVE Exceeds(TakenFromQueue(p, s), C, W \ {s})
  <2>1. PICK w : w = Tail(p.wait_connect_op)
    OBVIOUS
  <2>2. s = Head(p.wait_connect_op) /\ \A x \in p.posted : x = s
    BY <1>1, <1>6 DEF QueueFits
  <2>3. /\ w \in Seq(Socks) /\ IsInjective(w) /\ Range(w) = W \ {s}
        /\ Len(w) = Len(p.wait_connect_op) - 1
    BY <1>2, <1>3, <2>1, <2>2, QueueServed
  <2>4. p.posted \ {s} = {}
    BY <2>2
  <2>5. p.timed \ {s} = p.timed
    BY <1>1, <1>6 DEF QueueFits
  <2>6. TakenFromQueue(p, s) = [p EXCEPT !.wait_connect_op = w, !.timed = p.timed,
                                         !.posted = {}]
    <3>1. [p EXCEPT !.timed = p.timed] = p
      BY <1>1 DEF PoolRecord
    <3>2. TakenFromQueue(p, s) = [p EXCEPT !.wait_connect_op = w, !.posted = {}]
      BY <2>1, <2>4 DEF TakenFromQueue
    <3>. QED
      BY <1>1, <3>2 DEF PoolRecord
  <2>7. p.timed \in SUBSET Socks /\ {} \in SUBSET Socks
    BY <1>2
  <2>. QED
    BY <1>4, <2>3, <2>4, <2>5, <2>6, <2>7
<1>. QED
  BY <1>5, <1>6
\* The cache after a connection has been put at its head.
Stores(q, c, kept, E, n) ==
    /\ q \in Seq(Conns) /\ IsInjective(q) /\ Len(q) <= PoolSize
    /\ c \in Conns /\ c \notin Range(q)
    /\ kept = IF Len(q) = PoolSize THEN Front(q) ELSE q
    /\ E = IF Len(q) = PoolSize THEN {Last(q)} ELSE {}
    /\ n = <<c>> \o kept

LEMMA StoredCache ==
    ASSUME NEW q, NEW c, NEW kept, NEW E, NEW n, Stores(q, c, kept, E, n)
    PROVE  /\ n \in Seq(Conns) /\ IsInjective(n)
           /\ Len(n) = IF Len(q) = PoolSize THEN Len(q) ELSE Len(q) + 1
           /\ Range(n) = (Range(q) \ E) \cup {c}
           /\ E \subseteq Range(q)
           /\ n # <<>> /\ Head(n) = c
<1>. /\ q \in Seq(Conns) /\ IsInjective(q) /\ Len(q) <= PoolSize
     /\ c \in Conns /\ c \notin Range(q)
  BY DEF Stores
<1>. kept = IF Len(q) = PoolSize THEN Front(q) ELSE q
  BY DEF Stores
<1>. E = IF Len(q) = PoolSize THEN {Last(q)} ELSE {}
  BY DEF Stores
<1>. n = <<c>> \o kept
  BY DEF Stores
<1>1. Len(q) \in Nat /\ DOMAIN q = 1..Len(q)
  BY LenProperties
<1>2. /\ kept \in Seq(Conns) /\ IsInjective(kept) /\ Range(kept) = Range(q) \ E
      /\ Len(kept) = IF Len(q) = PoolSize THEN Len(q) - 1 ELSE Len(q)
      /\ E \subseteq Range(q)
  <2>1. CASE Len(q) # PoolSize
    BY <2>1
  <2>2. CASE Len(q) = PoolSize
    <3>1. PICK l : l = Len(q)
      OBVIOUS
    <3>2. l \in Nat /\ l >= 1 /\ l \in 1..Len(q) /\ q # <<>>
      BY <1>1, <2>2, <3>1, SizeAssumption
    <3>3. kept = SubSeq(q, 1, l - 1) /\ E = {q[l]}
      BY <2>2, <3>1 DEF Front, Last
    <3>4. /\ RemoveAt(q, l) \in Seq(Conns) /\ Len(RemoveAt(q, l)) = l - 1
          /\ \A j \in 1..(l - 1) : RemoveAt(q, l)[j] = IF j < l THEN q[j] ELSE q[j + 1]
          /\ IsInjective(RemoveAt(q, l)) /\ Range(RemoveAt(q, l)) = Range(q) \ {q[l]}
      BY <3>1, <3>2, QueueRemoveAt, QueueLeft
    <3>5. /\ kept \in Seq(Conns) /\ Len(kept) = l - 1
          /\ \A j \in 1..(l - 1) : kept[j] = q[j]
      <4>1. \A j \in 1..(l - 1) : q[j] \in Conns
        BY <1>1, <3>1, <3>2, ElementOfSeq
      <4>2. PICK m : m = l - 1
        OBVIOUS
      <4>3. m \in Int /\ m = m - 1 + 1 /\ (1 <= m \/ m = 0) /\ \A i \in 1..m : 1 + i - 1 = i
        BY <3>2, <4>2
      <4>4. /\ SubSeq(q, 1, m) \in Seq(Conns)
            /\ Len(SubSeq(q, 1, m)) = IF 1 <= m THEN m - 1 + 1 ELSE 0
            /\ \A i \in 1..(m - 1 + 1) : SubSeq(q, 1, m)[i] = q[1 + i - 1]
        BY <4>1, <4>2, <4>3, SubSeqProperties
      <4>5. kept = SubSeq(q, 1, m)
        BY <3>3, <4>2
      <4>. QED
        BY <4>2, <4>3, <4>4, <4>5
    <3>6. kept = RemoveAt(q, l)
      BY <3>2, <3>4, <3>5, SeqEqual
    <3>7. q[l] \in Range(q)
      BY <1>1, <3>2 DEF Range
    <3>. QED
      BY <2>2, <3>1, <3>3, <3>4, <3>6, <3>7
  <2>. QED
    BY <2>1, <2>2
<1>3. c \notin Range(kept)
  BY <1>2
<1>4. /\ <<c>> \o kept \in Seq(Conns) /\ IsInjective(<<c>> \o kept)
      /\ Range(<<c>> \o kept) = Range(kept) \cup {c}
  BY <1>2, <1>3, QueueJumped
<1>5. Len(<<c>> \o kept) = Len(kept) + 1
  <2>1. <<c>> \in Seq(Conns) /\ Len(<<c>>) = 1
    OBVIOUS
  <2>. QED
    BY <1>2, <2>1, ConcatProperties, LenProperties
<1>6. <<c>> \o kept # <<>> /\ Head(<<c>> \o kept) = c
  <2>1. <<c>> \in Seq(Conns) /\ Len(<<c>>) = 1 /\ <<c>>[1] = c
    OBVIOUS
  <2>2. Len(kept) \in Nat
    BY <1>2, LenProperties
  <2>3. (<<c>> \o kept)[1] = c
    BY <1>2, <2>1, <2>2, ConcatProperties
  <2>5. n \in Seq(Conns) /\ Len(n) # 0
    BY <1>4, <1>5, <2>2
  <2>6. n # <<>> /\ Head(n) = n[1]
    BY <2>5, EmptySeq, QueueTail
  <2>. QED
    BY <2>3, <2>6
<1>. QED
  BY <1>1, <1>2, <1>4, <1>5, <1>6

\* A pool whose cache and counter are changed alike.
LEMMA FitsRecached ==
    ASSUME NEW p, NEW C \in SUBSET Socks, NEW W, Fits(p, C, W), p.listed = TRUE,
           NEW c \in Seq(Conns), IsInjective(c), Len(c) <= PoolSize,
           NEW D \in SUBSET Socks,
           NEW q \in {Caching(p, c), Less(Caching(p, c)), More(Caching(p, c))},
           q.connections - Cardinality(D) - Len(c)
              = p.connections - Cardinality(C) - Len(p.cache)
    PROVE  Fits(q, D, W)
<1>1. p \in PoolRecord /\ CacheFits(p) /\ QueueFits(p, W) /\ CountFits(p, C)
  BY DEF Fits
<1>2. PICK r : r = Caching(p, c)
  OBVIOUS
<1>3. /\ r \in PoolRecord /\ r.cache = c
      /\ r.listed = p.listed /\ r.mismatched = p.mismatched
      /\ r.wait_connect_op = p.wait_connect_op
      /\ r.timed = p.timed /\ r.posted = p.posted
  BY <1>1, <1>2, CachingFields
<1>4. /\ q \in PoolRecord /\ q.cache = c
      /\ q.listed = TRUE /\ q.mismatched = p.mismatched
      /\ q.wait_connect_op = p.wait_connect_op
      /\ q.timed = p.timed /\ q.posted = p.posted
  BY <1>2, <1>3, MoreLess
<1>5. QueueFits(q, W)
  <2>1. QueueFits(p, W)
    BY <1>1
  <2>. QED
    BY <1>4, <2>1 DEF QueueFits
<1>6. CacheFits(q)
  BY <1>4 DEF CacheFits
<1>7. q.connections = Cardinality(D) + Len(q.cache) + Len(q.wait_connect_op)
  <2>1. /\ Len(p.cache) \in Nat /\ Len(c) \in Nat /\ Len(p.wait_connect_op) \in Nat
        /\ Cardinality(C) \in Nat /\ Cardinality(D) \in Nat
        /\ p.connections \in Int /\ q.connections \in Int
    BY <1>1, <1>4, Lengths, LenProperties, NamesAssumption, FS_Subset, FS_CardinalityType
  <2>2. p.connections = Cardinality(C) + Len(p.cache) + Len(p.wait_connect_op)
    BY <1>1 DEF CountFits
  <2>3. PICK a, b, x, y, w, u, v :
           /\ a = Cardinality(C) /\ b = Cardinality(D) /\ x = Len(p.cache) /\ y = Len(c)
           /\ w = Len(p.wait_connect_op) /\ u = q.connections /\ v = p.connections
    OBVIOUS
  <2>4. u - b - y = v - a - x
    BY <2>3, Zenon
  <2>5. u = b + y + w
    <3>1. /\ a \in Nat /\ b \in Nat /\ x \in Nat /\ y \in Nat /\ w \in Nat
          /\ u \in Int /\ v \in Int /\ v = a + x + w
      BY <2>1, <2>2, <2>3, Zenon
    <3>. QED
      BY <2>4, <3>1
  <2>. QED
    BY <1>4, <2>3, <2>5
<1>8. q.mismatched = FALSE
  BY <1>1, <1>4 DEF CountFits
<1>. QED
  BY <1>4, <1>5, <1>6, <1>7, <1>8 DEF Fits, CountFits
----------------------------------------------------------------------------
(* All pools, when one socket changes.                                     *)

Active == {"resolving", "connecting", "open"}

LEMMA SocksChanged ==
    ASSUME NEW ss, SocksFit(ss), NEW s \in Socks, NEW v, SockFits(v)
    PROVE  SocksFit([ss EXCEPT ![s] = v])
<1>1. v \in SockRecord /\ ss \in [Socks -> SockRecord] /\ \A t \in Socks : SockFits(ss[t])
  BY DEF SockFits, SocksFit
<1>2. PICK tt : tt = [ss EXCEPT ![s] = v]
  OBVIOUS
<1>3. tt \in [Socks -> SockRecord] /\ tt[s] = v /\ \A t \in Socks \ {s} : tt[t] = ss[t]
  BY <1>1, <1>2
<1>4. \A t \in Socks : SockFits(tt[t])
  BY <1>1, <1>3
<1>. QED
  BY <1>2, <1>3, <1>4 DEF SocksFit

LEMMA ClosedFits == SockFits(ClosedSock) /\ ClosedSock \in SockRecord
BY DEF ClosedSock, SockFits, SockRecord, States

\* One pool changes; the one that counted too many, if it is that.
LEMMA PoolChanged ==
    ASSUME NEW ps, NEW ss, NEW k \in Keys, NEW ref \in {k, None}, PoolsFit(ps, ss, ref),
           NEW q
    PROVE  /\ Fits(q, CountedIn(ss, k), WaitingIn(ss, k))
                 => PoolsFit([ps EXCEPT ![k] = q], ss, None)
           /\ Exceeds(q, CountedIn(ss, k), WaitingIn(ss, k))
                 => PoolsFit([ps EXCEPT ![k] = q], ss, k)
<1>1. None \notin Keys /\ ps \in [Keys -> PoolRecord]
  BY NamesAssumption DEF PoolsFit
<1>2. PICK qs : qs = [ps EXCEPT ![k] = q]
  OBVIOUS
<1>3. /\ qs[k] = q /\ \A j \in Keys \ {k} : qs[j] = ps[j]
      /\ q \in PoolRecord => qs \in [Keys -> PoolRecord]
  BY <1>1, <1>2
<1>4. \A j \in Keys \ {k} : Fits(ps[j], CountedIn(ss, j), WaitingIn(ss, j))
  BY <1>1 DEF PoolsFit
<1>5. ASSUME Fits(q, CountedIn(ss, k), WaitingIn(ss, k)) PROVE PoolsFit(qs, ss, None)
  <2>1. q \in PoolRecord
    BY <1>5 DEF Fits
  <2>2. \A j \in Keys : Fits(qs[j], CountedIn(ss, j), WaitingIn(ss, j))
    BY <1>3, <1>4, <1>5
  <2>. QED
    BY <1>1, <1>3, <2>1, <2>2 DEF PoolsFit
<1>6. ASSUME Exceeds(q, CountedIn(ss, k), WaitingIn(ss, k)) PROVE PoolsFit(qs, ss, k)
  <2>1. q \in PoolRecord
    BY <1>6 DEF Exceeds
  <2>. QED
    BY <1>3, <1>4, <1>6, <2>1 DEF PoolsFit
<1>. QED
  BY <1>2, <1>5, <1>6

LEMMA PoolOf ==
    ASSUME NEW ps, NEW ss, NEW ref, PoolsFit(ps, ss, ref), NEW k \in Keys
    PROVE  /\ ps[k] \in PoolRecord
           /\ k # ref => Fits(ps[k], CountedIn(ss, k), WaitingIn(ss, k))
           /\ k = ref => Exceeds(ps[k], CountedIn(ss, k), WaitingIn(ss, k))
           /\ CountedIn(ss, k) \in SUBSET Socks
           /\ WaitingIn(ss, k) \in SUBSET Socks
BY DEF PoolsFit, CountedIn, WaitingIn

\* A socket leaves whatever it was doing: its pool counts one more than it has.
LEMMA Withdrawn ==
    ASSUME NEW ps, NEW ss, PoolsFit(ps, ss, None), SocksFit(ss), NEW s \in Socks,
           ss[s].st # "queued"
    PROVE  PoolsFit(ps, [ss EXCEPT ![s] = ClosedSock], ss[s].spool)
<1>1. PICK tt, r : tt = [ss EXCEPT ![s] = ClosedSock] /\ r = ss[s].spool
  OBVIOUS
<1>2. /\ ss \in [Socks -> SockRecord] /\ SockFits(ss[s]) /\ None \notin Keys
      /\ ps \in [Keys -> PoolRecord]
  BY NamesAssumption DEF SocksFit, PoolsFit
<1>3. ASSUME NEW k \in Keys
      PROVE  /\ CountedIn(tt, k) = CountedIn(ss, k) \ {s}
             /\ WaitingIn(tt, k) = WaitingIn(ss, k)
             /\ s \in CountedIn(ss, k) <=> r = k
  <2>1. ClosedSock.st \notin Active /\ ClosedSock.st # "queued" /\ ClosedSock \in SockRecord
    BY ClosedFits DEF ClosedSock, Active
  <2>2. /\ CountedIn(tt, k) = CountedIn(ss, k) \ {s}
        /\ WaitingIn(tt, k) = WaitingIn(ss, k) \ {s}
    <3>1. tt[s] = ClosedSock /\ \A t \in Socks \ {s} : tt[t] = ss[t]
      BY <1>1, <1>2
    <3>2. /\ CountedIn(tt, k) = (CountedIn(ss, k) \ {s})
                 \cup (IF ClosedSock.spool = k /\ ClosedSock.st \in Active THEN {s} ELSE {})
          /\ WaitingIn(tt, k) = (WaitingIn(ss, k) \ {s})
                 \cup (IF ClosedSock.spool = k /\ ClosedSock.st = "queued" THEN {s} ELSE {})
      BY <3>1 DEF CountedIn, WaitingIn, Active
    <3>. QED
      BY <2>1, <3>2
  <2>3. s \notin WaitingIn(ss, k)
    BY DEF WaitingIn
  <2>4. s \in CountedIn(ss, k) <=> r = k
    BY <1>1, <1>2 DEF CountedIn, SockFits, SockRecord, States
  <2>. QED
    BY <2>2, <2>3, <2>4
<1>4. ASSUME NEW k \in Keys, k # r PROVE Fits(ps[k], CountedIn(tt, k), WaitingIn(tt, k))
  <2>1. CountedIn(tt, k) = CountedIn(ss, k)
    BY <1>3, <1>4
  <2>2. Fits(ps[k], CountedIn(ss, k), WaitingIn(ss, k))
    BY <1>2, <1>4 DEF PoolsFit
  <2>. QED
    BY <1>3, <2>1, <2>2
<1>5. ASSUME NEW k \in Keys, k = r PROVE Exceeds(ps[k], CountedIn(tt, k), WaitingIn(tt, k))
  <2>1. CountedIn(tt, k) = CountedIn(ss, k) \ {s} /\ s \in CountedIn(ss, k)
    BY <1>3, <1>5
  <2>2. /\ Fits(ps[k], CountedIn(ss, k), WaitingIn(ss, k))
        /\ CountedIn(ss, k) \in SUBSET Socks
    BY <1>2, <1>5, PoolOf
  <2>3. Exceeds(ps[k], CountedIn(ss, k) \ {s}, WaitingIn(ss, k))
    BY <2>1, <2>2, FitsLeaving
  <2>. QED
    BY <1>3, <2>1, <2>3
<1>. QED
  BY <1>1, <1>2, <1>4, <1>5 DEF PoolsFit

\* A closed socket takes the place that its pool has counted for it.
LEMMA Entered ==
    ASSUME NEW ps, NEW ss, SocksFit(ss), NEW s \in Socks, ss[s].st = "closed",
           NEW v, SockFits(v), v.st \in Active, PoolsFit(ps, ss, v.spool)
    PROVE  PoolsFit(ps, [ss EXCEPT ![s] = v], None)
<1>1. PICK tt : tt = [ss EXCEPT ![s] = v]
  OBVIOUS
<1>2. /\ ss \in [Socks -> SockRecord] /\ v \in SockRecord /\ None \notin Keys
      /\ ps \in [Keys -> PoolRecord]
  BY NamesAssumption DEF SocksFit, SockFits, PoolsFit
<1>3. ASSUME NEW k \in Keys
      PROVE  /\ CountedIn(tt, k) = CountedIn(ss, k) \cup (IF v.spool = k THEN {s} ELSE {})
             /\ WaitingIn(tt, k) = WaitingIn(ss, k)
             /\ s \notin CountedIn(ss, k)
  <2>1. v.st # "queued"
    BY DEF Active
  <2>2. s \notin WaitingIn(ss, k) /\ s \notin CountedIn(ss, k)
    BY DEF WaitingIn, CountedIn
  <2>3. /\ CountedIn(tt, k) = (CountedIn(ss, k) \ {s})
                                  \cup (IF v.spool = k /\ v.st \in Active THEN {s} ELSE {})
        /\ WaitingIn(tt, k) = (WaitingIn(ss, k) \ {s})
                                  \cup (IF v.spool = k /\ v.st = "queued" THEN {s} ELSE {})
    <3>1. tt[s] = v /\ \A t \in Socks \ {s} : tt[t] = ss[t]
      BY <1>1, <1>2
    <3>. QED
      BY <3>1 DEF CountedIn, WaitingIn, Active
  <2>. QED
    BY <2>1, <2>2, <2>3
<1>4. ASSUME NEW k \in Keys PROVE Fits(ps[k], CountedIn(tt, k), WaitingIn(tt, k))
  <2>1. CASE k # v.spool
    <3>1. CountedIn(tt, k) = CountedIn(ss, k)
      BY <1>3, <2>1
    <3>2. Fits(ps[k], CountedIn(ss, k), WaitingIn(ss, k))
      BY <2>1, PoolOf
    <3>. QED
      BY <1>3, <3>1, <3>2
  <2>2. CASE k = v.spool
    <3>1. CountedIn(tt, k) = CountedIn(ss, k) \cup {s}
      BY <1>3, <2>2
    <3>2. /\ Exceeds(ps[k], CountedIn(ss, k), WaitingIn(ss, k))
          /\ CountedIn(ss, k) \in SUBSET Socks
      BY <2>2, PoolOf
    <3>3. Fits(ps[k], CountedIn(ss, k) \cup {s}, WaitingIn(ss, k))
      BY <1>3, <3>2, ExceedsCounted
    <3>. QED
      BY <1>3, <3>1, <3>3
  <2>. QED
    BY <2>1, <2>2
<1>. QED
  BY <1>1, <1>2, <1>4 DEF PoolsFit
----------------------------------------------------------------------------
(* Connections change hands: those of one socket, a before and b after, and *)
(* of one cache, X before and Y after (k is None when no cache changes).    *)

Moves(ps, ss, os, qs, tt, ot, s, a, b, k, X, Y) ==
    /\ s \in Socks /\ ss[s].conn = a /\ tt[s].conn = b /\ b \in Conns \cup {None}
    /\ \A t \in Socks \ {s} : tt[t].conn = ss[t].conn
    /\ k \in Keys \cup {None} /\ Y \subseteq Conns
    /\ k \in Keys => Range(ps[k].cache) = X /\ Range(qs[k].cache) = Y
    /\ k = None => X = {} /\ Y = {}
    /\ \A j \in Keys \ {k} : qs[j].cache = ps[j].cache
    /\ b \notin Y
    /\ \A c \in (Y \cup {b}) \cap os : c \in X \cup {a}
    /\ ot = (os \ (X \cup {a})) \cup Y \cup ({b} \ {None})

LEMMA OwnedMoved ==
    ASSUME NEW ps, NEW ss, NEW os, Owned(ps, ss, os), NEW qs, NEW tt, NEW ot,
           NEW s, NEW a, NEW b, NEW k, NEW X, NEW Y,
           Moves(ps, ss, os, qs, tt, ot, s, a, b, k, X, Y)
    PROVE  Owned(qs, tt, ot)
<1>. s \in Socks /\ ss[s].conn = a /\ tt[s].conn = b /\ b \in Conns \cup {None}
  BY DEF Moves
<1>. \A t \in Socks \ {s} : tt[t].conn = ss[t].conn
  BY DEF Moves
<1>. k \in Keys \cup {None} /\ Y \subseteq Conns
  BY DEF Moves
<1>. k \in Keys => Range(ps[k].cache) = X /\ Range(qs[k].cache) = Y
  BY DEF Moves
<1>. k = None => X = {} /\ Y = {}
  BY DEF Moves
<1>. \A j \in Keys \ {k} : qs[j].cache = ps[j].cache
  BY DEF Moves
<1>. b \notin Y
  BY DEF Moves
<1>. \A c \in (Y \cup {b}) \cap os : c \in X \cup {a}
  BY DEF Moves
<1>. ot = (os \ (X \cup {a})) \cup Y \cup ({b} \ {None})
  BY DEF Moves
<1>1. /\ None \notin Keys /\ None \notin Conns /\ os \subseteq Conns
  BY NamesAssumption DEF Owned
<1>2. ot \subseteq Conns
  BY <1>1
<1>3. \A t \in Socks \ {s} : /\ ss[t].conn # None => ss[t].conn \in os /\ ss[t].conn # a
                             /\ ss[t].conn \notin X
  <2>. SUFFICES ASSUME NEW t \in Socks \ {s}
                PROVE  /\ ss[t].conn # None => ss[t].conn \in os /\ ss[t].conn # a
                       /\ ss[t].conn \notin X
    OBVIOUS
  <2>1. ss[t].conn # None => ss[t].conn \in os /\ ss[t].conn # a
    BY DEF Owned
  <2>2. ss[t].conn \notin X
    <3>1. CASE k \in Keys
      BY <3>1 DEF Owned
    <3>2. CASE k = None
      BY <3>2
    <3>. QED
      BY <3>1, <3>2
  <2>. QED
    BY <2>1, <2>2
<1>4. \A j \in Keys \ {k} : /\ Range(ps[j].cache) \subseteq os \ (X \cup {a})
                            /\ Range(qs[j].cache) = Range(ps[j].cache)
  <2>. SUFFICES ASSUME NEW j \in Keys \ {k}
                PROVE  /\ Range(ps[j].cache) \subseteq os \ (X \cup {a})
                       /\ Range(qs[j].cache) = Range(ps[j].cache)
    OBVIOUS
  <2>1. Range(ps[j].cache) \subseteq os /\ a \notin Range(ps[j].cache)
    BY DEF Owned
  <2>2. Range(ps[j].cache) \cap X = {}
    <3>1. CASE k \in Keys
      BY <3>1 DEF Owned
    <3>2. CASE k = None
      BY <3>2
    <3>. QED
      BY <3>1, <3>2
  <2>. QED
    BY <2>1, <2>2
<1>5. \A t \in Socks : tt[t].conn # None => tt[t].conn \in ot
  BY <1>1, <1>3
<1>6. \A j \in Keys : Range(qs[j].cache) \subseteq ot
  BY <1>4
<1>7. \A c \in ot : \/ \E t \in Socks : tt[t].conn = c
                    \/ \E j \in Keys : c \in Range(qs[j].cache)
  <2>. SUFFICES ASSUME NEW c \in ot
                PROVE  \/ \E t \in Socks : tt[t].conn = c
                       \/ \E j \in Keys : c \in Range(qs[j].cache)
    OBVIOUS
  <2>1. CASE c = b
    BY <2>1
  <2>2. CASE c \in Y
    BY <2>2
  <2>3. CASE c \in os \ (X \cup {a})
    <3>1. CASE \E t \in Socks : ss[t].conn = c
      BY <2>3, <3>1
    <3>2. CASE \E j \in Keys : c \in Range(ps[j].cache)
      BY <1>4, <2>3, <3>2
    <3>. QED
      BY <2>3, <3>1, <3>2 DEF Owned
  <2>. QED
    BY <2>1, <2>2, <2>3
<1>8. \A t \in Socks, j \in Keys : tt[t].conn \notin Range(qs[j].cache)
  <2>. SUFFICES ASSUME NEW t \in Socks, NEW j \in Keys
                PROVE  tt[t].conn \notin Range(qs[j].cache)
    OBVIOUS
  <2>1. CASE t = s /\ j = k
    BY <2>1
  <2>2. CASE t = s /\ j # k
    BY <1>4, <2>2
  <2>3. CASE t # s /\ j = k
    <3>1. tt[t].conn = ss[t].conn /\ Range(qs[j].cache) = Y /\ None \notin Y
      BY <1>1, <2>3
    <3>2. CASE ss[t].conn = None
      BY <3>1, <3>2
    <3>3. CASE ss[t].conn # None
      BY <1>3, <2>3, <3>1, <3>3
    <3>. QED
      BY <3>2, <3>3
  <2>4. CASE t # s /\ j # k
    BY <1>4, <2>4 DEF Owned
  <2>. QED
    BY <2>1, <2>2, <2>3, <2>4
<1>9. \A t, u \in Socks : tt[t].conn = tt[u].conn /\ tt[t].conn # None => t = u
  <2>1. \A t \in Socks \ {s} : tt[t].conn # None => tt[t].conn # b
    BY <1>3
  <2>2. \A t, u \in Socks \ {s} : tt[t].conn = tt[u].conn /\ tt[t].conn # None => t = u
    BY DEF Owned
  <2>. QED
    BY <2>1, <2>2
<1>10. \A i, j \in Keys : i # j => Range(qs[i].cache) \cap Range(qs[j].cache) = {}
  <2>. SUFFICES ASSUME NEW i \in Keys, NEW j \in Keys, i # j
                PROVE  Range(qs[i].cache) \cap Range(qs[j].cache) = {}
    OBVIOUS
  <2>1. \A n \in Keys \ {k} : k \in Keys => Range(qs[n].cache) \cap Range(qs[k].cache) = {}
    BY <1>4
  <2>2. CASE i # k /\ j # k
    BY <1>4, <2>2 DEF Owned
  <2>. QED
    BY <2>1, <2>2
<1>. QED
  BY <1>2, <1>5, <1>6, <1>7, <1>8, <1>9, <1>10 DEF Owned

\* Nothing changes hands.
LEMMA OwnedKept ==
    ASSUME NEW ps, NEW ss, NEW os, Owned(ps, ss, os), NEW qs, NEW tt,
           \A t \in Socks : tt[t].conn = ss[t].conn,
           \A j \in Keys : qs[j].cache = ps[j].cache
    PROVE  Owned(qs, tt, os)
BY DEF Owned

\* A socket with the connection a, or None, loses it.
LEMMA OwnedDropped ==
    ASSUME NEW ps, NEW ss, NEW os, Owned(ps, ss, os), NEW qs, NEW tt,
           NEW s \in Socks, tt[s].conn = None, 
           \A t \in Socks \ {s} : tt[t].conn = ss[t].conn,
           \A j \in Keys : qs[j].cache = ps[j].cache
    PROVE  Owned(qs, tt, os \ {ss[s].conn})
<1>1. PICK a, ot : a = ss[s].conn /\ ot = os \ {a}
  OBVIOUS
<1>2. None \notin Keys /\ None \notin Conns /\ os \subseteq Conns
  BY NamesAssumption DEF Owned
<1>3. PICK k, X, b : k = None /\ X = {} /\ b = None
  OBVIOUS
<1>4. ot = (os \ (X \cup {a})) \cup X \cup ({b} \ {None})
  BY <1>1, <1>3
<1>5. /\ \A c \in (X \cup {b}) \cap os : c \in X \cup {a}
      /\ k \in Keys => Range(ps[k].cache) = X /\ Range(qs[k].cache) = X
      /\ k = None => X = {} /\ X = {}
      /\ \A j \in Keys \ {k} : qs[j].cache = ps[j].cache
      /\ k \in Keys \cup {None} /\ X \in SUBSET Conns /\ b \in Conns \cup {None} /\ b \notin X
      /\ ss[s].conn = a /\ tt[s].conn = b
  BY <1>1, <1>2, <1>3
<1>6. Moves(ps, ss, os, qs, tt, ot, s, a, b, k, X, X)
  BY <1>4, <1>5 DEF Moves
<1>7. Owned(qs, tt, ot)
  BY <1>6, OwnedMoved
<1>. QED
  BY <1>1, <1>7

\* A socket without a connection gets one that was not open.
LEMMA OwnedGained ==
    ASSUME NEW ps, NEW ss, NEW os, Owned(ps, ss, os), NEW qs, NEW tt,
           NEW s \in Socks, ss[s].conn = None, NEW b \in Conns \ os, tt[s].conn = b,
           \A t \in Socks \ {s} : tt[t].conn = ss[t].conn,
           \A j \in Keys : qs[j].cache = ps[j].cache
    PROVE  Owned(qs, tt, os \cup {b})
<1>1. PICK ot : ot = os \cup {b}
  OBVIOUS
<1>2. None \notin Keys /\ None \notin Conns /\ os \subseteq Conns
  BY NamesAssumption DEF Owned
<1>3. PICK k, X, a : k = None /\ X = {} /\ a = None
  OBVIOUS
<1>4. ot = (os \ (X \cup {a})) \cup X \cup ({b} \ {None})
  BY <1>1, <1>2, <1>3
<1>5. /\ \A c \in (X \cup {b}) \cap os : c \in X \cup {a}
      /\ k \in Keys => Range(ps[k].cache) = X /\ Range(qs[k].cache) = X
      /\ k = None => X = {} /\ X = {}
      /\ \A j \in Keys \ {k} : qs[j].cache = ps[j].cache
      /\ k \in Keys \cup {None} /\ X \in SUBSET Conns /\ b \in Conns \cup {None} /\ b \notin X
      /\ ss[s].conn = a /\ tt[s].conn = b
  BY <1>1, <1>2, <1>3
<1>6. Moves(ps, ss, os, qs, tt, ot, s, a, b, k, X, X)
  BY <1>4, <1>5 DEF Moves
<1>7. Owned(qs, tt, ot)
  BY <1>6, OwnedMoved
<1>. QED
  BY <1>1, <1>7
----------------------------------------------------------------------------
(* The operators on all pools.                                             *)

LEMMA CacheKept ==
    ASSUME NEW p \in PoolRecord, p.connections >= 1
    PROVE  GaveUp(p).cache = p.cache /\ ClosedOne(p).cache = p.cache
<1>1. PICK q : q = Less(p)
  OBVIOUS
<1>2. q \in PoolRecord /\ q.cache = p.cache /\ q.connections = p.connections - 1
  BY <1>1, MoreLess, MoreLessCount
<1>3. ~(q.connections < 0)
  BY <1>2, Lengths
<1>4. GaveUp(p).cache = p.cache
  <2>1. ASSUME NEW o PROVE ResumePosted(q, o).cache = q.cache
    BY <1>2 DEF ResumePosted, PoolRecord
  <2>2. ResumeConnOp(q) = IF q.wait_connect_op = <<>> THEN q
                          ELSE ResumePosted(q, Head(q.wait_connect_op))
    BY <1>3 DEF ResumeConnOp
  <2>3. ResumeConnOp(q).cache = q.cache
    BY <2>1, <2>2
  <2>. QED
    BY <1>1, <1>2, <2>3 DEF GaveUp
<1>5. PICK r : r = [p EXCEPT !.connections = 0, !.listed = FALSE]
  OBVIOUS
<1>6. r.cache = p.cache
  BY <1>5 DEF PoolRecord
<1>. QED
  BY <1>4, <1>5, <1>6 DEF ClosedOne

\* The one counted too many gives up, or has its connection closed.
LEMMA TooManyLeft ==
    ASSUME NEW ps, NEW ss, NEW ref \in Keys \cup {None}, PoolsFit(ps, ss, ref)
    PROVE  /\ PoolsFit(Uncounted(ps, ref), ss, None)
           /\ PoolsFit(Released(ps, ref), ss, None)
           /\ \A j \in Keys : /\ Uncounted(ps, ref)[j].cache = ps[j].cache
                              /\ Released(ps, ref)[j].cache = ps[j].cache
<1>1. None \notin Keys /\ ps \in [Keys -> PoolRecord]
  BY NamesAssumption DEF PoolsFit
<1>2. CASE ref = None
  BY <1>2 DEF Uncounted, Released
<1>3. CASE ref \in Keys
  <2>1. /\ ps[ref] \in PoolRecord
        /\ Exceeds(ps[ref], CountedIn(ss, ref), WaitingIn(ss, ref))
        /\ CountedIn(ss, ref) \in SUBSET Socks
    BY <1>3, PoolOf
  <2>2. /\ Fits(GaveUp(ps[ref]), CountedIn(ss, ref), WaitingIn(ss, ref))
        /\ Fits(ClosedOne(ps[ref]), CountedIn(ss, ref), WaitingIn(ss, ref))
    BY <2>1, ExceedsGaveUp, ExceedsClosedOne
  <2>3. PICK x, y : x = GaveUp(ps[ref]) /\ y = ClosedOne(ps[ref])
    OBVIOUS
  <2>4. PoolsFit([ps EXCEPT ![ref] = x], ss, None) /\ PoolsFit([ps EXCEPT ![ref] = y], ss, None)
    BY <1>3, <2>2, <2>3, PoolChanged
  <2>5. x.cache = ps[ref].cache /\ y.cache = ps[ref].cache
    <3>1. ps[ref].connections >= 1
      <4>1. /\ ps[ref].connections = Cardinality(CountedIn(ss, ref)) + Len(ps[ref].cache)
                                        + Len(ps[ref].wait_connect_op) + 1
            /\ Len(ps[ref].cache) \in Nat /\ Len(ps[ref].wait_connect_op) \in Nat
            /\ Cardinality(CountedIn(ss, ref)) \in Nat
        BY <2>1, Lengths, NamesAssumption, FS_Subset, FS_CardinalityType DEF Exceeds
      <4>. QED
        BY <4>1
    <3>. QED
      BY <2>1, <2>3, <3>1, CacheKept
  <2>6. /\ Uncounted(ps, ref) = [ps EXCEPT ![ref] = x]
        /\ Released(ps, ref) = [ps EXCEPT ![ref] = y]
    BY <1>1, <1>3, <2>3 DEF Uncounted, Released
  <2>. QED
    BY <1>1, <1>3, <2>4, <2>5, <2>6
<1>. QED
  BY <1>2, <1>3

LEMMA PoolMade ==
    ASSUME NEW ps, NEW ss, PoolsFit(ps, ss, None), NEW k \in Keys, NEW b \in {-1, Backlog}
    PROVE  /\ PoolsFit(WithPool(ps, k, b), ss, None)
           /\ WithPool(ps, k, b)[k].listed = TRUE
           /\ \A j \in Keys : WithPool(ps, k, b)[j].cache = ps[j].cache
<1>1. /\ None \notin Keys /\ ps \in [Keys -> PoolRecord] /\ ps[k] \in PoolRecord
      /\ Fits(ps[k], CountedIn(ss, k), WaitingIn(ss, k))
      /\ CountedIn(ss, k) \in SUBSET Socks
  BY NamesAssumption, PoolOf DEF PoolsFit
<1>2. CASE ps[k].listed
  BY <1>1, <1>2 DEF WithPool, PoolRecord
<1>3. CASE ~ps[k].listed
  <2>1. ps[k].listed = FALSE
    BY <1>1, <1>3 DEF PoolRecord
  <2>2. CountedIn(ss, k) = {} /\ WaitingIn(ss, k) = {}
    BY <1>1, <2>1, UnlistedUnused
  <2>3. ps[k].cache = <<>>
    BY <1>1, <2>1 DEF Fits, CountFits, Unused
  <2>4. PICK n : n = NewPool(b)
    OBVIOUS
  <2>5. Fits(n, CountedIn(ss, k), WaitingIn(ss, k)) /\ n.cache = <<>> /\ n.listed = TRUE
    BY <2>2, <2>4, FitsNew DEF NewPool
  <2>6. PoolsFit([ps EXCEPT ![k] = n], ss, None)
    BY <2>5, PoolChanged
  <2>7. WithPool(ps, k, b) = [ps EXCEPT ![k] = n]
    BY <1>3, <2>4 DEF WithPool
  <2>. QED
    BY <1>1, <2>3, <2>5, <2>6, <2>7
<1>. QED
  BY <1>2, <1>3
----------------------------------------------------------------------------
(* A connect.  ss, ps and os are the sockets, pools and open connections    *)
(* with s out of them, u is what the operation knows, and ref the pool that *)
(* has counted it, if one has.                                              *)

StartsFrom(s, u, ps, ss, os, ref) ==
    /\ s \in Socks /\ sock \in [Socks -> SockRecord]
    /\ ss = [sock EXCEPT ![s] = ClosedSock]
    /\ PoolsFit(ps, ss, ref) /\ SocksFit(ss) /\ Owned(ps, ss, os)
    /\ u \in SockRecord /\ u.conn = None /\ u.key # None
    /\ u.spool # None => u.spool = u.key

LEMMA StartsFacts ==
    ASSUME NEW s, NEW u, NEW ps, NEW ss, NEW os, NEW ref,
           StartsFrom(s, u, ps, ss, os, ref)
    PROVE  /\ ss[s] = ClosedSock /\ ss[s].st = "closed" /\ ss[s].conn = None
           /\ ss \in [Socks -> SockRecord]
<1>1. /\ s \in Socks /\ sock \in [Socks -> SockRecord]
      /\ ss = [sock EXCEPT ![s] = ClosedSock]
  BY DEF StartsFrom
<1>2. ss \in [Socks -> SockRecord]
  BY <1>1, ClosedFits
<1>. QED
  BY <1>1, <1>2 DEF ClosedSock

\* It takes its place, with a new connection or with none yet.
LEMMA PlaceTaken ==
    ASSUME NEW s, NEW u, NEW ps, NEW ss, NEW os, StartsFrom(s, u, ps, ss, os, u.spool),
           NEW v, SockFits(v), v.st \in Active, v.spool = u.spool,
           NEW ot, \/ v.conn = None /\ ot = os
                   \/ v.conn \in Conns \ os /\ ot = os \cup {v.conn}
    PROVE  Good(ps, [sock EXCEPT ![s] = v], ot)
<1>1. PICK tt : tt = [sock EXCEPT ![s] = v]
  OBVIOUS
<1>2. /\ s \in Socks /\ PoolsFit(ps, ss, v.spool) /\ SocksFit(ss) /\ Owned(ps, ss, os)
  BY DEF StartsFrom
<1>3. /\ ss[s].st = "closed" /\ ss[s].conn = None /\ ss \in [Socks -> SockRecord]
      /\ tt = [ss EXCEPT ![s] = v]
  <2>1. ss[s].st = "closed" /\ ss[s].conn = None /\ ss \in [Socks -> SockRecord]
    BY StartsFacts
  <2>2. sock \in [Socks -> SockRecord] /\ ss = [sock EXCEPT ![s] = ClosedSock]
    BY DEF StartsFrom
  <2>. QED
    BY <1>1, <1>2, <2>1, <2>2
<1>4. PoolsFit(ps, tt, None) /\ SocksFit(tt)
  BY <1>2, <1>3, Entered, SocksChanged
<1>5. tt[s] = v /\ \A t \in Socks \ {s} : tt[t].conn = ss[t].conn
  BY <1>2, <1>3
<1>6. Owned(ps, tt, ot)
  <2>1. CASE v.conn = None /\ ot = os
    <3>1. \A t \in Socks : tt[t].conn = ss[t].conn
      BY <1>3, <1>5, <2>1
    <3>. QED
      BY <1>2, <2>1, <3>1, OwnedKept
  <2>2. CASE v.conn \in Conns \ os /\ ot = os \cup {v.conn}
    <3>1. PICK b : b = v.conn
      OBVIOUS
    <3>2. b \in Conns \ os /\ tt[s].conn = b
      BY <1>5, <2>2, <3>1
    <3>3. Owned(ps, tt, os \cup {b})
      BY <1>2, <1>3, <1>5, <3>2, OwnedGained
    <3>. QED
      BY <2>2, <3>1, <3>3
  <2>. QED
    BY <2>1, <2>2
<1>. QED
  BY <1>1, <1>4, <1>6 DEF Good

LEMMA PeerConnected ==
    ASSUME NEW s, NEW u, NEW ps, NEW ss, NEW os, StartsFrom(s, u, ps, ss, os, u.spool),
           ConnectPeer(s, u, ps, os)
    PROVE  Good(pool', sock', open')
<1>1. /\ u \in SockRecord /\ u.conn = None /\ u.key # None
      /\ u.spool # None => u.spool = u.key
      /\ s \in Socks
  BY DEF StartsFrom
<1>2. ASSUME NEW state \in {"connecting", "open"}, Conns \ os # {},
             sock' = [sock EXCEPT ![s] = [u EXCEPT !.st = state, !.conn = Free(os)]],
             open' = os \cup {Free(os)}, pool' = ps
      PROVE  Good(pool', sock', open')
  <2>1. PICK c, v, ot : /\ c = Free(os) /\ v = [u EXCEPT !.st = state, !.conn = c]
                        /\ ot = os \cup {c}
    OBVIOUS
  <2>2. c \in Conns \ os /\ c # None
    BY <1>2, <2>1, NamesAssumption DEF Free
  <2>3. /\ v \in SockRecord /\ v.st = state /\ v.conn = c
        /\ v.spool = u.spool /\ v.key = u.key
    BY <1>1, <1>2, <2>1, <2>2 DEF SockRecord, States
  <2>4. SockFits(v) /\ v.st \in Active
    BY <1>1, <1>2, <2>2, <2>3 DEF SockFits, Active
  <2>5. Good(ps, [sock EXCEPT ![s] = v], ot)
    BY <2>1, <2>2, <2>3, <2>4, PlaceTaken
  <2>. QED
    BY <1>2, <2>1, <2>5
<1>3. CASE /\ sock' = [sock EXCEPT ![s] = ClosedSock]
           /\ open' = os /\ pool' = Uncounted(ps, u.spool)
  <2>1. ss = [sock EXCEPT ![s] = ClosedSock] /\ SocksFit(ss) /\ Owned(ps, ss, os)
    BY DEF StartsFrom
  <2>2. PICK qs, ref : qs = Uncounted(ps, ref) /\ ref = u.spool
    OBVIOUS
  <2>3. ref \in Keys \cup {None} /\ PoolsFit(ps, ss, ref)
    BY <1>1, <2>2 DEF SockRecord, StartsFrom
  <2>4. PoolsFit(qs, ss, None) /\ \A j \in Keys : qs[j].cache = ps[j].cache
    BY <2>2, <2>3, TooManyLeft
  <2>5. Owned(qs, ss, os)
    BY <2>1, <2>4, OwnedKept
  <2>6. Good(qs, ss, os)
    BY <2>1, <2>4, <2>5 DEF Good
  <2>. QED
    BY <1>3, <2>1, <2>2, <2>6
<1>. QED
  BY <1>2, <1>3 DEF ConnectPeer

LEMMA Started ==
    ASSUME NEW s, NEW u, NEW ps, NEW ss, NEW os, StartsFrom(s, u, ps, ss, os, u.spool),
           StartConnecting(s, u, ps, os)
    PROVE  Good(pool', sock', open')
<1>1. CASE ConnectPeer(s, u, ps, os)
  BY <1>1, PeerConnected
<1>2. CASE /\ sock' = [sock EXCEPT ![s] = [u EXCEPT !.st = "resolving"]]
           /\ pool' = ps /\ open' = os
  <2>1. PICK v : v = [u EXCEPT !.st = "resolving"]
    OBVIOUS
  <2>2. /\ u \in SockRecord /\ u.conn = None /\ u.key # None
        /\ u.spool # None => u.spool = u.key
    BY DEF StartsFrom
  <2>3. /\ v \in SockRecord /\ v.st = "resolving" /\ v.conn = None
        /\ v.spool = u.spool /\ v.key = u.key
    BY <2>1, <2>2 DEF SockRecord, States
  <2>4. SockFits(v) /\ v.st \in Active
    BY <2>2, <2>3 DEF SockFits, Active
  <2>5. Good(ps, [sock EXCEPT ![s] = v], os)
    BY <2>3, <2>4, PlaceTaken
  <2>. QED
    BY <1>2, <2>1, <2>5
<1>. QED
  BY <1>1, <1>2 DEF StartConnecting
\* It takes the first idle connection of its pool.
LEMMA IdleTaken ==
    ASSUME NEW s, NEW u, NEW ps, NEW ss, NEW os, StartsFrom(s, u, ps, ss, os, None),
           u.spool # None, ps[u.spool].cache # <<>>, KeepalivePeer(s, u, ps, os)
    PROVE  Good(pool', sock', open')
<1>1. /\ u \in SockRecord /\ u.conn = None /\ u.key # None /\ u.spool = u.key
      /\ s \in Socks /\ PoolsFit(ps, ss, None) /\ SocksFit(ss) /\ Owned(ps, ss, os)
      /\ sock \in [Socks -> SockRecord] /\ ss = [sock EXCEPT ![s] = ClosedSock]
      /\ ps \in [Keys -> PoolRecord] /\ None \notin Keys /\ None \notin Conns
  BY NamesAssumption DEF StartsFrom, PoolsFit
<1>2. ss[s].st = "closed" /\ ss[s].conn = None
  BY StartsFacts
<1>3. PICK k, p : k = u.spool /\ p = ps[k]
  OBVIOUS
<1>4. k \in Keys
  BY <1>1, <1>3 DEF SockRecord
<1>5. /\ p \in PoolRecord /\ Fits(p, CountedIn(ss, k), WaitingIn(ss, k))
      /\ CountedIn(ss, k) \in SUBSET Socks
  BY <1>1, <1>3, <1>4, PoolOf
<1>6. /\ p.cache \in Seq(Conns) /\ p.cache # <<>> /\ IsInjective(p.cache)
  BY <1>3, <1>5, Lengths DEF Fits, CacheFits
<1>7. PICK c, w, q, qs, v, tt :
         /\ c = Head(p.cache) /\ w = Tail(p.cache) /\ q = Caching(p, w)
         /\ qs = [ps EXCEPT ![k] = q]
         /\ v = [u EXCEPT !.st = "open", !.conn = c]
         /\ tt = [sock EXCEPT ![s] = v]
  OBVIOUS
<1>8. /\ w \in Seq(Conns) /\ Range(w) = Range(p.cache) \ {c}
      /\ c \in Range(p.cache) /\ w = RemoveAt(p.cache, 1) /\ 1 \in 1..Len(p.cache)
  BY <1>6, <1>7, QueueServed, QueueTail
<1>9. c \in Conns /\ Range(p.cache) \subseteq os /\ os \subseteq Conns
  BY <1>1, <1>3, <1>4, <1>8 DEF Owned
<1>10. q.cache = w
  BY <1>5, <1>7, <1>8, CachingFields
<1>11. /\ v \in SockRecord /\ v.st = "open" /\ v.conn = c
       /\ v.spool = k /\ v.key = u.key
  BY <1>1, <1>3, <1>7, <1>9 DEF SockRecord, States
<1>12. SockFits(v) /\ v.st \in Active
  BY <1>1, <1>3, <1>9, <1>11 DEF SockFits, Active
<1>13. tt = [ss EXCEPT ![s] = v] /\ tt[s] = v /\ \A t \in Socks \ {s} : tt[t] = ss[t]
  BY <1>1, <1>7
<1>14. PoolsFit(qs, tt, None)
  <2>1. Exceeds(q, CountedIn(ss, k), WaitingIn(ss, k))
    BY <1>5, <1>7, <1>8, FitsUncached
  <2>2. PoolsFit([ps EXCEPT ![k] = q], ss, k)
    BY <1>1, <1>4, <2>1, PoolChanged
  <2>3. PoolsFit(qs, ss, v.spool)
    BY <1>7, <1>11, <2>2
  <2>. QED
    BY <1>1, <1>2, <1>12, <1>13, <2>3, Entered
<1>15. SocksFit(tt)
  BY <1>1, <1>12, <1>13, SocksChanged
<1>16. Owned(qs, tt, os)
  <2>1. qs[k] = q /\ \A j \in Keys \ {k} : qs[j] = ps[j]
    BY <1>1, <1>4, <1>7
  <2>2. PICK a, X, Y : a = None /\ X = Range(p.cache) /\ Y = Range(w)
    OBVIOUS
  <2>3. /\ s \in Socks /\ ss[s].conn = a /\ tt[s].conn = c /\ c \in Conns \cup {None}
        /\ \A t \in Socks \ {s} : tt[t].conn = ss[t].conn
        /\ k \in Keys \cup {None} /\ Y \subseteq Conns
        /\ Range(ps[k].cache) = X /\ Range(qs[k].cache) = Y /\ k # None
        /\ \A j \in Keys \ {k} : qs[j].cache = ps[j].cache
    BY <1>1, <1>2, <1>3, <1>4, <1>8, <1>9, <1>10, <1>11, <1>13, <2>1, <2>2
  <2>4. /\ c \notin Y /\ \A d \in (Y \cup {c}) \cap os : d \in X \cup {a}
    BY <1>8, <2>2
  <2>5. os = (os \ (X \cup {a})) \cup Y \cup ({c} \ {None})
    BY <1>1, <1>8, <1>9, <2>2
  <2>6. Moves(ps, ss, os, qs, tt, os, s, a, c, k, X, Y)
    BY <2>3, <2>4, <2>5 DEF Moves
  <2>. QED
    BY <1>1, <2>6, OwnedMoved
<1>17. pool' = qs /\ sock' = tt /\ open' = os
  BY <1>3, <1>7 DEF KeepalivePeer
<1>. QED
  BY <1>14, <1>15, <1>16, <1>17 DEF Good

\* It joins the queue of its pool, which has room for it.
LEMMA QueueEntered ==
    ASSUME NEW s, NEW u, NEW ps, NEW ss, NEW os, StartsFrom(s, u, ps, ss, os, u.spool),
           u.spool # None, ps[u.spool].connections <= PoolSize + Backlog,
           QueueConnOp(s, u, ps, os)
    PROVE  Good(pool', sock', open')
<1>1. /\ u \in SockRecord /\ u.conn = None /\ u.key # None /\ u.spool = u.key
      /\ s \in Socks /\ PoolsFit(ps, ss, u.spool) /\ SocksFit(ss) /\ Owned(ps, ss, os)
      /\ sock \in [Socks -> SockRecord] /\ ss = [sock EXCEPT ![s] = ClosedSock]
      /\ ps \in [Keys -> PoolRecord] /\ None \notin Keys
  BY NamesAssumption DEF StartsFrom, PoolsFit
<1>2. ss[s].st = "closed" /\ ss[s].conn = None
  BY StartsFacts
<1>3. PICK k, p : k = u.spool /\ p = ps[k]
  OBVIOUS
<1>4. k \in Keys
  BY <1>1, <1>3 DEF SockRecord
<1>5. /\ p \in PoolRecord /\ Exceeds(p, CountedIn(ss, k), WaitingIn(ss, k))
      /\ CountedIn(ss, k) \in SUBSET Socks
  BY <1>1, <1>3, <1>4, PoolOf
<1>6. PICK q, qs, v, tt :
         /\ q = Queued(p, s) /\ qs = [ps EXCEPT ![k] = q]
         /\ v = [u EXCEPT !.st = "queued"]
         /\ tt = [sock EXCEPT ![s] = v]
  OBVIOUS
<1>7. /\ v \in SockRecord /\ v.st = "queued" /\ v.conn = None
      /\ v.spool = k /\ v.key = u.key
  BY <1>1, <1>3, <1>6 DEF SockRecord, States
<1>8. SockFits(v)
  BY <1>1, <1>3, <1>7 DEF SockFits
<1>9. tt = [ss EXCEPT ![s] = v] /\ tt[s] = v /\ \A t \in Socks \ {s} : tt[t] = ss[t]
  BY <1>1, <1>6
<1>10. ASSUME NEW j
       PROVE  /\ CountedIn(tt, j) = CountedIn(ss, j)
              /\ WaitingIn(tt, j) = WaitingIn(ss, j) \cup (IF j = k THEN {s} ELSE {})
              /\ s \notin WaitingIn(ss, j)
  <2>1. CountedIn(tt, j) = CountedIn(ss, j)
    BY <1>2, <1>7, <1>9 DEF CountedIn
  <2>2. s \notin WaitingIn(ss, j)
    BY <1>2 DEF WaitingIn
  <2>3. CASE j = k
    <3>1. WaitingIn(tt, j) = WaitingIn(ss, j) \cup {s}
      BY <1>1, <1>7, <1>9, <2>3 DEF WaitingIn
    <3>. QED
      BY <2>1, <2>2, <2>3, <3>1
  <2>4. CASE j # k
    <3>1. WaitingIn(tt, j) = WaitingIn(ss, j)
      BY <1>2, <1>7, <1>9, <2>4 DEF WaitingIn
    <3>. QED
      BY <2>1, <2>2, <2>4, <3>1
  <2>. QED
    BY <2>3, <2>4
<1>11. Fits(q, CountedIn(tt, k), WaitingIn(tt, k))
  <2>1. Len(p.wait_connect_op) + 1 <= PoolSize + Backlog
    <3>1. /\ p.connections = Cardinality(CountedIn(ss, k)) + Len(p.cache)
                               + Len(p.wait_connect_op) + 1
          /\ Len(p.cache) \in Nat /\ Len(p.wait_connect_op) \in Nat
          /\ Cardinality(CountedIn(ss, k)) \in Nat
      BY <1>5, Lengths, NamesAssumption, FS_Subset, FS_CardinalityType DEF Exceeds
    <3>2. p.connections <= PoolSize + Backlog
      BY <1>3
    <3>. QED
      BY <3>1, <3>2, SizeAssumption
  <2>2. s \notin WaitingIn(ss, k)
    BY <1>10
  <2>3. Fits(q, CountedIn(ss, k), WaitingIn(ss, k) \cup {s})
    BY <1>1, <1>5, <1>6, <2>1, <2>2, ExceedsQueued
  <2>4. WaitingIn(tt, k) = WaitingIn(ss, k) \cup {s} /\ CountedIn(tt, k) = CountedIn(ss, k)
    BY <1>10
  <2>. QED
    BY <2>3, <2>4
<1>12. q \in PoolRecord
  BY <1>11 DEF Fits
<1>13. qs \in [Keys -> PoolRecord] /\ qs[k] = q /\ \A j \in Keys \ {k} : qs[j] = ps[j]
  BY <1>1, <1>4, <1>6, <1>12
<1>14. PoolsFit(qs, tt, None)
  <2>1. ASSUME NEW j \in Keys \ {k} PROVE Fits(qs[j], CountedIn(tt, j), WaitingIn(tt, j))
    <3>1. Fits(ps[j], CountedIn(ss, j), WaitingIn(ss, j))
      BY <1>1, <1>3, <2>1, PoolOf
    <3>2. WaitingIn(tt, j) = WaitingIn(ss, j) /\ CountedIn(tt, j) = CountedIn(ss, j)
      BY <1>10, <2>1
    <3>. QED
      BY <1>13, <2>1, <3>1, <3>2
  <2>. QED
    BY <1>1, <1>11, <1>13, <2>1 DEF PoolsFit
<1>15. SocksFit(tt)
  BY <1>1, <1>8, <1>9, SocksChanged
<1>16. Owned(qs, tt, os)
  <2>1. \A t \in Socks : tt[t].conn = ss[t].conn
    BY <1>2, <1>7, <1>9
  <2>2. q.cache = p.cache
    BY <1>5, <1>6 DEF Queued, PoolRecord
  <2>3. \A j \in Keys : qs[j].cache = ps[j].cache
    BY <1>3, <1>13, <2>2
  <2>. QED
    BY <1>1, <2>1, <2>3, OwnedKept
<1>17. pool' = qs /\ sock' = tt /\ open' = os
  BY <1>3, <1>6 DEF QueueConnOp
<1>. QED
  BY <1>14, <1>15, <1>16, <1>17 DEF Good

LEMMA HelperGood ==
    ASSUME NEW s, NEW u, NEW ps, NEW ss, NEW os, StartsFrom(s, u, ps, ss, os, None),
           u.spool # None => ps[u.spool].listed = TRUE,
           NEW resuming \in BOOLEAN, ConnectHelper(s, u, ps, os, resuming)
    PROVE  Good(pool', sock', open')
<1>1. PICK k : k = u.spool
  OBVIOUS
<1>2. CASE k = None
  <2>1. StartsFrom(s, u, ps, ss, os, u.spool) /\ StartConnecting(s, u, ps, os)
    BY <1>1, <1>2 DEF ConnectHelper
  <2>. QED
    BY <2>1, Started
<1>3. CASE k # None /\ ps[k].cache # <<>>
  <2>1. KeepalivePeer(s, u, ps, os)
    BY <1>1, <1>3 DEF ConnectHelper
  <2>. QED
    BY <1>1, <1>3, <2>1, IdleTaken
<1>4. CASE k # None /\ ps[k].cache = <<>>
  <2>1. /\ u \in SockRecord /\ PoolsFit(ps, ss, None) /\ SocksFit(ss) /\ Owned(ps, ss, os)
        /\ ps \in [Keys -> PoolRecord] /\ None \notin Keys
        /\ ss = [sock EXCEPT ![s] = ClosedSock]
    BY NamesAssumption DEF StartsFrom, PoolsFit
  <2>2. k \in Keys
    BY <1>1, <1>4, <2>1 DEF SockRecord
  <2>3. PICK p, q, qs : p = ps[k] /\ q = More(p) /\ qs = [ps EXCEPT ![k] = q]
    OBVIOUS
  <2>4. qs[k] = q /\ \A j \in Keys \ {k} : qs[j] = ps[j]
    BY <2>1, <2>2, <2>3
  <2>5. /\ p \in PoolRecord /\ Fits(p, CountedIn(ss, k), WaitingIn(ss, k))
        /\ CountedIn(ss, k) \in SUBSET Socks /\ p.listed = TRUE
    BY <1>1, <1>4, <2>1, <2>2, <2>3, PoolOf
  <2>6. q.cache = p.cache /\ q.backlog = p.backlog
    BY <2>3, <2>5, MoreLess
  <2>7. StartsFrom(s, u, qs, ss, os, u.spool)
    <3>1. Exceeds(q, CountedIn(ss, k), WaitingIn(ss, k))
      BY <2>3, <2>5, FitsMore
    <3>2. PoolsFit([ps EXCEPT ![k] = q], ss, k)
      BY <2>1, <2>2, <3>1, PoolChanged
    <3>3. \A j \in Keys : qs[j].cache = ps[j].cache
      BY <2>3, <2>4, <2>6
    <3>4. Owned(qs, ss, os)
      BY <2>1, <3>3, OwnedKept
    <3>. QED
      BY <1>1, <2>3, <3>2, <3>4 DEF StartsFrom
  <2>8. CASE TooManyWaiting(s, ps, os)
    BY <2>1, <2>8 DEF TooManyWaiting, Good
  <2>9. CASE /\ qs[k].connections <= PoolSize + ps[k].backlog
             /\ QueueConnOp(s, u, qs, os)
    <3>1. ps[k].backlog \in {-1, Backlog} /\ qs[k].connections \in Int
      <4>1. q \in PoolRecord
        BY <2>3, <2>5, MoreLess
      <4>. QED
        BY <2>3, <2>4, <2>5, <4>1, Lengths
    <3>2. qs[u.spool].connections <= PoolSize + Backlog
      BY <1>1, <2>9, <3>1, SizeAssumption
    <3>. QED
      BY <1>1, <1>4, <2>7, <2>9, <3>2, QueueEntered
  <2>10. CASE StartConnecting(s, u, qs, os)
    BY <2>7, <2>10, Started
  <2>11. \/ TooManyWaiting(s, ps, os)
         \/ /\ qs[k].connections <= PoolSize + ps[k].backlog
            /\ QueueConnOp(s, u, qs, os)
         \/ StartConnecting(s, u, qs, os)
    BY <1>1, <1>4, <2>3 DEF ConnectHelper
  <2>. QED
    BY <2>8, <2>9, <2>10, <2>11
<1>. QED
  BY <1>2, <1>3, <1>4
----------------------------------------------------------------------------
(* The actions.                                                            *)

\* A socket that is not queued is closed, all but the counter of its pool.
LEMMA Left ==
    ASSUME Good(pool, sock, open), NEW s \in Socks, sock[s].st # "queued",
           NEW ss, ss = [sock EXCEPT ![s] = ClosedSock]
    PROVE  /\ PoolsFit(pool, ss, sock[s].spool) /\ SocksFit(ss)
           /\ Owned(pool, ss, open \ {sock[s].conn})
           /\ sock[s].spool \in Keys \cup {None}
<1>1. PoolsFit(pool, sock, None) /\ SocksFit(sock) /\ Owned(pool, sock, open)
  BY DEF Good
<1>2. sock \in [Socks -> SockRecord] /\ SockFits(sock[s])
  BY <1>1 DEF SocksFit
<1>3. PoolsFit(pool, ss, sock[s].spool)
  BY <1>1, Withdrawn
<1>4. SocksFit(ss)
  BY <1>1, ClosedFits, SocksChanged
<1>5. ss[s].conn = None /\ \A t \in Socks \ {s} : ss[t].conn = sock[t].conn
  BY <1>2 DEF ClosedSock
<1>6. Owned(pool, ss, open \ {sock[s].conn})
  BY <1>1, <1>5, OwnedDropped
<1>7. sock[s].spool \in Keys \cup {None}
  BY <1>2 DEF SockRecord
<1>. QED
  BY <1>3, <1>4, <1>6, <1>7

LEMMA FinalizeGood ==
    ASSUME Good(pool, sock, open), NEW s \in Socks, sock[s].st # "queued", Finalize(s)
    PROVE  Good(pool', sock', open')
<1>1. PICK ss, ref, ps, os, qs :
         /\ ss = [sock EXCEPT ![s] = ClosedSock] /\ ref = sock[s].spool
         /\ ps = pool /\ os = open \ {sock[s].conn} /\ qs = Released(ps, ref)
  OBVIOUS
<1>2. PoolsFit(ps, ss, ref) /\ SocksFit(ss) /\ Owned(ps, ss, os) /\ ref \in Keys \cup {None}
  BY <1>1, Left
<1>3. PoolsFit(qs, ss, None) /\ \A j \in Keys : qs[j].cache = ps[j].cache
  BY <1>1, <1>2, TooManyLeft
<1>4. Owned(qs, ss, os)
  <2>1. \A t \in Socks : ss[t].conn = ss[t].conn
    OBVIOUS
  <2>. QED
    BY <1>2, <1>3, <2>1, OwnedKept
<1>5. pool' = qs /\ sock' = ss /\ open' = os
  BY <1>1 DEF Finalize
<1>. QED
  BY <1>2, <1>3, <1>4, <1>5 DEF Good

LEMMA ConnectGood ==
    ASSUME Good(pool, sock, open), NEW s \in Socks, Connect(s)
    PROVE  Good(pool', sock', open')
<1>1. PICK k \in Keys, option \in Options :
       LET ps0 == IF sock[s].st = "open"
                  THEN Released(pool, sock[s].spool) ELSE pool
           os  == open \ {sock[s].conn}
           ps  == CASE option = "none" -> ps0
                    [] option = "size" -> WithPool(ps0, k, -1)
                    [] option = "limit" -> WithPool(ps0, k, Backlog)
           u   == [ClosedSock EXCEPT !.key = k,
                                     !.spool = IF ps[k].listed THEN k ELSE None]
       IN  ConnectHelper(s, u, ps, os, FALSE)
  BY DEF Connect
<1>2. PICK ref, ss, os, ps0 :
         /\ ref = sock[s].spool /\ ss = [sock EXCEPT ![s] = ClosedSock]
         /\ os = open \ {sock[s].conn}
         /\ ps0 = IF sock[s].st = "open" THEN Released(pool, ref) ELSE pool
  OBVIOUS
<1>3. PICK ps : ps = CASE option = "none" -> ps0
                       [] option = "size" -> WithPool(ps0, k, -1)
                       [] option = "limit" -> WithPool(ps0, k, Backlog)
  OBVIOUS
<1>4. PICK u : u = [ClosedSock EXCEPT !.key = k,
                                      !.spool = IF ps[k].listed THEN k ELSE None]
  OBVIOUS
<1>5. ConnectHelper(s, u, ps, os, FALSE)
  BY <1>1, <1>2, <1>3, <1>4
<1>6. sock[s].st \in {"closed", "open"} /\ sock \in [Socks -> SockRecord] /\ SockFits(sock[s])
  BY DEF Connect, Good, SocksFit
<1>7. /\ PoolsFit(pool, ss, ref) /\ SocksFit(ss) /\ Owned(pool, ss, os)
      /\ ref \in Keys \cup {None}
  BY <1>2, <1>6, Left
<1>8. PoolsFit(ps0, ss, None) /\ \A j \in Keys : ps0[j].cache = pool[j].cache
  <2>1. CASE sock[s].st = "open"
    BY <1>2, <1>7, <2>1, TooManyLeft
  <2>2. CASE sock[s].st = "closed"
    <3>1. ref = None
      BY <1>2, <1>6, <2>2 DEF SockFits
    <3>. QED
      BY <1>2, <1>7, <2>2, <3>1
  <2>. QED
    BY <1>6, <2>1, <2>2
<1>9. PoolsFit(ps, ss, None) /\ \A j \in Keys : ps[j].cache = ps0[j].cache
  <2>1. CASE option = "none"
    BY <1>3, <1>8, <2>1
  <2>2. CASE option = "size"
    <3>1. ps = WithPool(ps0, k, -1)
      BY <1>3, <2>2
    <3>. QED
      BY <1>8, <3>1, PoolMade
  <2>3. CASE option = "limit"
    <3>1. ps = WithPool(ps0, k, Backlog)
      BY <1>3, <2>3
    <3>. QED
      BY <1>8, <3>1, PoolMade
  <2>. QED
    BY <2>1, <2>2, <2>3, OptionsAssumption
<1>10. Owned(ps, ss, os)
  <2>1. /\ \A t \in Socks : ss[t].conn = ss[t].conn
        /\ \A j \in Keys : ps[j].cache = pool[j].cache
    BY <1>8, <1>9
  <2>. QED
    BY <1>7, <2>1, OwnedKept
<1>11. /\ u \in SockRecord /\ u.conn = None /\ u.key = k
       /\ u.spool = IF ps[k].listed THEN k ELSE None
  BY <1>4 DEF ClosedSock, SockRecord, States
<1>12. u.key # None /\ (u.spool # None => u.spool = u.key /\ ps[u.spool].listed = TRUE)
  <2>1. k # None /\ ps[k] \in PoolRecord
    BY <1>9, NamesAssumption, PoolOf
  <2>2. ps[k].listed \in BOOLEAN
    BY <2>1 DEF PoolRecord
  <2>. QED
    BY <1>11, <2>1, <2>2
<1>13. StartsFrom(s, u, ps, ss, os, None)
  BY <1>2, <1>6, <1>7, <1>9, <1>10, <1>11, <1>12 DEF StartsFrom
<1>. QED
  BY <1>5, <1>12, <1>13, HelperGood

LEMMA ResolvedGood ==
    ASSUME Good(pool, sock, open), NEW s \in Socks, Resolved(s)
    PROVE  Good(pool', sock', open')
<1>1. PICK ss, ref, ps, os, u :
         /\ ss = [sock EXCEPT ![s] = ClosedSock] /\ ref = sock[s].spool
         /\ ps = pool /\ os = open /\ u = sock[s]
  OBVIOUS
<1>2. u.st = "resolving" /\ ConnectPeer(s, u, ps, os)
  BY <1>1 DEF Resolved
<1>3. sock \in [Socks -> SockRecord] /\ SockFits(u) /\ Owned(pool, sock, open)
  BY <1>1 DEF Good, SocksFit
<1>4. u \in SockRecord /\ u.conn = None /\ u.key # None /\ (u.spool # None => u.spool = u.key)
  BY <1>2, <1>3 DEF SockFits, SockRecord
<1>5. PoolsFit(ps, ss, u.spool) /\ SocksFit(ss) /\ Owned(ps, ss, open \ {u.conn})
  BY <1>1, <1>2, Left
<1>6. open \ {u.conn} = os
  BY <1>1, <1>3, <1>4, NamesAssumption DEF Owned
<1>7. StartsFrom(s, u, ps, ss, os, u.spool)
  BY <1>1, <1>3, <1>4, <1>5, <1>6 DEF StartsFrom
<1>. QED
  BY <1>2, <1>7, PeerConnected

\* A step that changes what one socket remembers, and no more.
LEMMA SockTouched ==
    ASSUME Good(pool, sock, open), NEW s \in Socks,
           NEW v, SockFits(v), v.conn = sock[s].conn, v.spool = sock[s].spool,
           v.st = sock[s].st \/ {v.st, sock[s].st} \subseteq Active,
           sock' = [sock EXCEPT ![s] = v], UNCHANGED <<pool, open>>
    PROVE  Good(pool', sock', open')
<1>1. PICK ss, tt, ps : ss = sock /\ tt = [sock EXCEPT ![s] = v] /\ ps = pool
  OBVIOUS
<1>2. /\ ss \in [Socks -> SockRecord] /\ SocksFit(ss) /\ PoolsFit(ps, ss, None)
      /\ Owned(ps, ss, open)
  BY <1>1 DEF Good, SocksFit
<1>3. tt[s] = v /\ \A t \in Socks \ {s} : tt[t] = ss[t]
  BY <1>1, <1>2
<1>4. \A k \in Keys : CountedIn(tt, k) = CountedIn(ss, k) /\ WaitingIn(tt, k) = WaitingIn(ss, k)
  BY <1>1, <1>3 DEF CountedIn, WaitingIn, Active
<1>5. PoolsFit(ps, tt, None)
  <2>1. ASSUME NEW k \in Keys PROVE k # None /\ Fits(ps[k], CountedIn(tt, k), WaitingIn(tt, k))
    BY <1>2, <1>4, NamesAssumption, PoolOf
  <2>2. ps \in [Keys -> PoolRecord]
    BY <1>2 DEF PoolsFit
  <2>. QED
    BY <2>1, <2>2 DEF PoolsFit
<1>6. SocksFit(tt)
  BY <1>1, <1>2, SocksChanged
<1>7. Owned(ps, tt, open)
  <2>1. \A t \in Socks : tt[t].conn = ss[t].conn
    BY <1>1, <1>3
  <2>2. \A j \in Keys : ps[j].cache = ps[j].cache
    OBVIOUS
  <2>. QED
    BY <1>2, <2>1, <2>2, OwnedKept
<1>. QED
  BY <1>1, <1>5, <1>6, <1>7 DEF Good
\* A program that gives connect bad ports uses one pool: with two of them the
\* counter is lost, as the name of an open socket is then another's.
KeysFit == Rekeys => \A j, k \in Keys : j = k

LEMMA ConnectBadPortGood ==
    ASSUME KeysFit, Good(pool, sock, open), NEW s \in Socks, ConnectBadPort(s)
    PROVE  Good(pool', sock', open')
<1>1. PICK k \in Keys : sock' = [sock EXCEPT ![s].key = k]
  BY DEF ConnectBadPort
<1>2. PICK u, v : u = sock[s] /\ v = [u EXCEPT !.key = k]
  OBVIOUS
<1>3. sock \in [Socks -> SockRecord] /\ SockFits(u) /\ Rekeys /\ u.st = "open"
      /\ UNCHANGED <<pool, open>> /\ None \notin Keys
  BY <1>2, NamesAssumption DEF Good, SocksFit, ConnectBadPort
<1>4. u \in SockRecord /\ u.conn # None /\ u.spool \in Keys \cup {None}
  BY <1>3 DEF SockFits, SockRecord
<1>5. v \in SockRecord /\ v.st = u.st /\ v.conn = u.conn /\ v.spool = u.spool /\ v.key = k
  BY <1>2, <1>4 DEF SockRecord
<1>6. SockFits(v)
  <2>1. v.spool # None => v.spool = v.key
    BY <1>3, <1>4, <1>5 DEF KeysFit
  <2>. QED
    BY <1>3, <1>4, <1>5, <2>1 DEF SockFits
<1>7. sock' = [sock EXCEPT ![s] = v]
  BY <1>1, <1>2, <1>3
<1>. QED
  BY <1>2, <1>3, <1>5, <1>6, <1>7, SockTouched

LEMMA ConnectedGood ==
    ASSUME Good(pool, sock, open), NEW s \in Socks, Connected(s)
    PROVE  Good(pool', sock', open')
<1>1. PICK u, v : u = sock[s] /\ v = [u EXCEPT !.st = "open"]
  OBVIOUS
<1>2. sock \in [Socks -> SockRecord] /\ SockFits(u) /\ u.st = "connecting"
      /\ UNCHANGED <<pool, open>> /\ sock' = [sock EXCEPT ![s].st = "open"]
  BY <1>1 DEF Good, SocksFit, Connected
<1>3. u \in SockRecord /\ u.conn # None
  BY <1>2 DEF SockFits
<1>4. /\ v \in SockRecord /\ v.st = "open" /\ v.conn = u.conn
      /\ v.spool = u.spool /\ v.key = u.key
  BY <1>1, <1>3 DEF SockRecord, States
<1>5. SockFits(v) /\ {v.st, u.st} \subseteq Active
  BY <1>2, <1>3, <1>4 DEF SockFits, Active
<1>6. sock' = [sock EXCEPT ![s] = v]
  BY <1>1, <1>2
<1>. QED
  BY <1>1, <1>2, <1>4, <1>5, <1>6, SockTouched

LEMMA KilledResolvingGood ==
    ASSUME Good(pool, sock, open), NEW s \in Socks, KilledResolving(s)
    PROVE  Good(pool', sock', open')
<1>1. PICK ss, ref, ps, os, u, qs :
         /\ ss = [sock EXCEPT ![s] = ClosedSock] /\ ref = sock[s].spool
         /\ ps = pool /\ os = open /\ u = sock[s] /\ qs = Uncounted(ps, ref)
  OBVIOUS
<1>2. u.st = "resolving" /\ sock' = ss /\ pool' = qs /\ open' = os
  BY <1>1 DEF KilledResolving
<1>3. SockFits(u) /\ os \subseteq Conns /\ None \notin Conns
  BY <1>1, NamesAssumption DEF Good, SocksFit, Owned
<1>4. u.conn = None
  BY <1>2, <1>3 DEF SockFits
<1>5. /\ PoolsFit(ps, ss, ref) /\ SocksFit(ss) /\ Owned(ps, ss, open \ {u.conn})
      /\ ref \in Keys \cup {None}
  BY <1>1, <1>2, Left
<1>6. open \ {u.conn} = os
  BY <1>1, <1>3, <1>4
<1>7. PoolsFit(qs, ss, None) /\ \A j \in Keys : qs[j].cache = ps[j].cache
  BY <1>1, <1>5, TooManyLeft
<1>8. Owned(qs, ss, os)
  <2>1. \A t \in Socks : ss[t].conn = ss[t].conn
    OBVIOUS
  <2>. QED
    BY <1>5, <1>6, <1>7, <2>1, OwnedKept
<1>. QED
  BY <1>2, <1>5, <1>7, <1>8 DEF Good

\* A queued socket is closed, and r is what its pool is without it.
LEMMA LeftQueue ==
    ASSUME Good(pool, sock, open), NEW s \in Socks, sock[s].st = "queued",
           NEW k, k = sock[s].spool, NEW ss, ss = [sock EXCEPT ![s] = ClosedSock],
           NEW r, Fits(r, CountedIn(sock, k), WaitingIn(sock, k) \ {s}),
           r.cache = pool[k].cache,
           NEW ps, ps = [pool EXCEPT ![k] = r]
    PROVE  k \in Keys /\ Good(ps, ss, open)
<1>1. /\ sock \in [Socks -> SockRecord] /\ SockFits(sock[s]) /\ SocksFit(sock)
      /\ pool \in [Keys -> PoolRecord] /\ None \notin Keys
      /\ PoolsFit(pool, sock, None) /\ Owned(pool, sock, open)
  BY NamesAssumption DEF Good, SocksFit, PoolsFit
<1>2. k \in Keys /\ sock[s].conn = None
  BY <1>1 DEF SockFits, SockRecord
<1>3. ss[s] = ClosedSock /\ \A t \in Socks \ {s} : ss[t] = sock[t]
  BY <1>1
<1>4. ASSUME NEW j
      PROVE  /\ CountedIn(ss, j) = CountedIn(sock, j)
             /\ j # k => WaitingIn(ss, j) = WaitingIn(sock, j)
             /\ j = k => WaitingIn(ss, j) = WaitingIn(sock, j) \ {s}
  <2>1. ClosedSock.st = "closed"
    BY DEF ClosedSock
  <2>2. CountedIn(ss, j) = CountedIn(sock, j)
    BY <1>3, <2>1 DEF CountedIn
  <2>3. j # k => WaitingIn(ss, j) = WaitingIn(sock, j)
    BY <1>3, <2>1 DEF WaitingIn
  <2>4. j = k => WaitingIn(ss, j) = WaitingIn(sock, j) \ {s}
    BY <1>3, <2>1 DEF WaitingIn
  <2>. QED
    BY <2>2, <2>3, <2>4
<1>5. r \in PoolRecord
  BY DEF Fits
<1>6. ps \in [Keys -> PoolRecord] /\ ps[k] = r /\ \A j \in Keys \ {k} : ps[j] = pool[j]
  BY <1>1, <1>2, <1>5
<1>7. PoolsFit(ps, ss, None)
  <2>1. ASSUME NEW j \in Keys PROVE Fits(ps[j], CountedIn(ss, j), WaitingIn(ss, j))
    <3>1. CASE j = k
      BY <1>4, <1>6, <3>1
    <3>2. CASE j # k
      <4>1. Fits(pool[j], CountedIn(sock, j), WaitingIn(sock, j))
        BY <1>1, <2>1, PoolOf
      <4>. QED
        BY <1>4, <1>6, <2>1, <3>2, <4>1
    <3>. QED
      BY <3>1, <3>2
  <2>. QED
    BY <1>1, <1>6, <2>1 DEF PoolsFit
<1>8. SocksFit(ss)
  BY <1>1, ClosedFits, SocksChanged
<1>9. Owned(ps, ss, open)
  <2>1. \A t \in Socks : ss[t].conn = sock[t].conn
    BY <1>2, <1>3 DEF ClosedSock
  <2>2. \A j \in Keys : ps[j].cache = pool[j].cache
    BY <1>6
  <2>. QED
    BY <1>1, <2>1, <2>2, OwnedKept
<1>. QED
  BY <1>2, <1>7, <1>8, <1>9 DEF Good
LEMMA CacheKeptIfExceeds ==
    ASSUME NEW p, NEW C \in SUBSET Socks, NEW W, Exceeds(p, C, W)
    PROVE  /\ Less(p).cache = p.cache /\ GaveUp(p).cache = p.cache
           /\ ClosedOne(p).cache = p.cache /\ Less(p).listed = TRUE
<1>1. p \in PoolRecord /\ p.listed = TRUE
  BY DEF Exceeds
<1>2. p.connections >= 1
  <2>1. /\ p.connections = Cardinality(C) + Len(p.cache) + Len(p.wait_connect_op) + 1
        /\ Len(p.cache) \in Nat /\ Len(p.wait_connect_op) \in Nat /\ Cardinality(C) \in Nat
    BY <1>1, Lengths, NamesAssumption, FS_Subset, FS_CardinalityType DEF Exceeds
  <2>. QED
    BY <2>1
<1>3. PICK q : q = Less(p)
  OBVIOUS
<1>4. q.cache = p.cache /\ q.listed = TRUE
  BY <1>1, <1>3, MoreLess
<1>. QED
  BY <1>1, <1>2, <1>3, <1>4, CacheKept

LEMMA QueuedFacts ==
    ASSUME Good(pool, sock, open), NEW s \in Socks, sock[s].st = "queued",
           NEW k, k = sock[s].spool
    PROVE  /\ k \in Keys /\ s \in WaitingIn(sock, k)
           /\ CountedIn(sock, k) \in SUBSET Socks
           /\ pool[k] \in PoolRecord
           /\ Fits(pool[k], CountedIn(sock, k), WaitingIn(sock, k))
           /\ Dequeued(pool[k], s).cache = pool[k].cache
           /\ TakenFromQueue(pool[k], s).cache = pool[k].cache
<1>1. SockFits(sock[s]) /\ PoolsFit(pool, sock, None) /\ None \notin Keys
  BY NamesAssumption DEF Good, SocksFit
<1>2. k \in Keys
  BY <1>1 DEF SockFits, SockRecord
<1>3. /\ s \in WaitingIn(sock, k) /\ CountedIn(sock, k) \in SUBSET Socks
      /\ pool[k] \in PoolRecord
      /\ Fits(pool[k], CountedIn(sock, k), WaitingIn(sock, k))
  <2>1. s \in WaitingIn(sock, k)
    BY DEF WaitingIn
  <2>. QED
    BY <1>1, <1>2, <2>1, PoolOf
<1>4. ASSUME NEW p \in PoolRecord
      PROVE  Dequeued(p, s).cache = p.cache /\ TakenFromQueue(p, s).cache = p.cache
  BY DEF Dequeued, TakenFromQueue, PoolRecord
<1>. QED
  BY <1>2, <1>3, <1>4

\* The queued operation leaves: its timer has fired, or it is killed.
LEMMA LeavesQueueGood ==
    ASSUME Good(pool, sock, open), NEW s \in Socks, ConnOpTimeout(s) \/ KilledInQueue(s)
    PROVE  Good(pool', sock', open')
<1>1. sock[s].st = "queued"
  BY DEF ConnOpTimeout, KilledInQueue
<1>2. PICK k, p, q, ss :
         /\ k = sock[s].spool /\ p = pool[k] /\ q = Dequeued(p, s)
         /\ ss = [sock EXCEPT ![s] = ClosedSock]
  OBVIOUS
<1>3. /\ k \in Keys /\ s \in WaitingIn(sock, k) /\ CountedIn(sock, k) \in SUBSET Socks
      /\ Fits(p, CountedIn(sock, k), WaitingIn(sock, k)) /\ q.cache = p.cache
  BY <1>1, <1>2, QueuedFacts
<1>4. Exceeds(q, CountedIn(sock, k), WaitingIn(sock, k) \ {s})
  BY <1>2, <1>3, FitsDequeued
<1>5. PICK r \in {Less(q), GaveUp(q)} :
         pool' = [pool EXCEPT ![k] = r] /\ sock' = ss /\ UNCHANGED open
  BY <1>2 DEF ConnOpTimeout, KilledInQueue
<1>6. Fits(r, CountedIn(sock, k), WaitingIn(sock, k) \ {s})
  BY <1>3, <1>4, <1>5, ExceedsLess, ExceedsGaveUp
<1>7. r.cache = p.cache
  BY <1>3, <1>4, <1>5, CacheKeptIfExceeds
<1>8. PICK ps : ps = [pool EXCEPT ![k] = r]
  OBVIOUS
<1>9. Good(ps, ss, open)
  BY <1>1, <1>2, <1>6, <1>7, <1>8, LeftQueue
<1>. QED
  BY <1>5, <1>8, <1>9

\* The operation at the head of the queue goes on.
LEMMA ConnOpResumeGood ==
    ASSUME Good(pool, sock, open), NEW s \in Socks, ConnOpResume(s)
    PROVE  Good(pool', sock', open')
<1>1. sock[s].st = "queued"
  BY DEF ConnOpResume
<1>2. PICK k, p, q, r, ss, ps, u, os :
         /\ k = sock[s].spool /\ p = pool[k] /\ q = TakenFromQueue(p, s) /\ r = Less(q)
         /\ ss = [sock EXCEPT ![s] = ClosedSock] /\ ps = [pool EXCEPT ![k] = r]
         /\ u = sock[s] /\ os = open
  OBVIOUS
<1>3. /\ k \in Keys /\ s \in WaitingIn(sock, k) /\ CountedIn(sock, k) \in SUBSET Socks
      /\ Fits(p, CountedIn(sock, k), WaitingIn(sock, k)) /\ q.cache = p.cache
  BY <1>1, <1>2, QueuedFacts
<1>4. s \in p.posted /\ ConnectHelper(s, u, ps, os, TRUE)
  BY <1>2 DEF ConnOpResume
<1>5. Exceeds(q, CountedIn(sock, k), WaitingIn(sock, k) \ {s})
  BY <1>2, <1>3, <1>4, FitsDequeued
<1>6. /\ Fits(r, CountedIn(sock, k), WaitingIn(sock, k) \ {s})
      /\ r.cache = p.cache /\ r.listed = TRUE
  BY <1>2, <1>3, <1>5, ExceedsLess, CacheKeptIfExceeds
<1>7. Good(ps, ss, os)
  BY <1>1, <1>2, <1>6, LeftQueue
<1>8. sock \in [Socks -> SockRecord] /\ SockFits(u) /\ pool \in [Keys -> PoolRecord]
  BY <1>2 DEF Good, SocksFit, PoolsFit
<1>9. /\ u \in SockRecord /\ u.conn = None /\ u.key # None /\ u.spool = u.key /\ u.spool = k
  BY <1>1, <1>2, <1>8 DEF SockFits
<1>10. ps[u.spool].listed = TRUE
  BY <1>2, <1>3, <1>6, <1>8, <1>9
<1>11. StartsFrom(s, u, ps, ss, os, None)
  BY <1>2, <1>7, <1>8, <1>9 DEF StartsFrom, Good
<1>. QED
  BY <1>4, <1>10, <1>11, HelperGood

LEMMA OwnedEvicted ==
    ASSUME NEW ps, NEW ss, NEW os, Owned(ps, ss, os), NEW qs, NEW k \in Keys, NEW c,
           c \in Range(ps[k].cache), Range(qs[k].cache) = Range(ps[k].cache) \ {c},
           \A j \in Keys \ {k} : qs[j].cache = ps[j].cache
    PROVE  Owned(qs, ss, os \ {c})
<1>1. /\ os \subseteq Conns
      /\ \A s \in Socks : ss[s].conn # None => ss[s].conn \in os
      /\ \A j \in Keys : Range(ps[j].cache) \subseteq os
      /\ \A d \in os : \/ \E s \in Socks : ss[s].conn = d
                       \/ \E j \in Keys : d \in Range(ps[j].cache)
      /\ \A s \in Socks, j \in Keys : ss[s].conn \notin Range(ps[j].cache)
      /\ \A s, t \in Socks : ss[s].conn = ss[t].conn /\ ss[s].conn # None => s = t
      /\ \A i, j \in Keys : i # j => Range(ps[i].cache) \cap Range(ps[j].cache) = {}
  BY DEF Owned
<1>2. \A j \in Keys : Range(qs[j].cache) = Range(ps[j].cache) \ {c}
  <2>. SUFFICES ASSUME NEW j \in Keys PROVE Range(qs[j].cache) = Range(ps[j].cache) \ {c}
    OBVIOUS
  <2>1. CASE j = k
    BY <2>1
  <2>2. CASE j # k
    <3>1. c \notin Range(ps[j].cache)
      BY <1>1, <2>2
    <3>. QED
      BY <2>2, <3>1
  <2>. QED
    BY <2>1, <2>2
<1>6. \A s \in Socks : ss[s].conn # c
  BY <1>1
<1>7. /\ os \ {c} \subseteq Conns
      /\ \A s \in Socks : ss[s].conn # None => ss[s].conn \in os \ {c}
      /\ \A j \in Keys : Range(qs[j].cache) \subseteq os \ {c}
  BY <1>1, <1>2, <1>6
<1>8. \A d \in os \ {c} : \/ \E s \in Socks : ss[s].conn = d
                          \/ \E j \in Keys : d \in Range(qs[j].cache)
  BY <1>1, <1>2
<1>9. \A s \in Socks, j \in Keys : ss[s].conn \notin Range(qs[j].cache)
  BY <1>1, <1>2
<1>10. \A i, j \in Keys : i # j => Range(qs[i].cache) \cap Range(qs[j].cache) = {}
  BY <1>1, <1>2
<1>. QED
  BY <1>1, <1>7, <1>8, <1>9, <1>10 DEF Owned

LEMMA KeepaliveCloseGood ==
    ASSUME Good(pool, sock, open), NEW k \in Keys, KeepaliveClose(k)
    PROVE  Good(pool', sock', open')
<1>1. PICK i \in DOMAIN pool[k].cache :
         /\ pool' = [pool EXCEPT ![k] =
                       ClosedOne(Caching(pool[k], RemoveAt(pool[k].cache, i)))]
         /\ open' = open \ {pool[k].cache[i]}
         /\ sock' = sock
  BY DEF KeepaliveClose
<1>2. PICK p, w, q, r, qs, c, os :
         /\ p = pool[k] /\ w = RemoveAt(p.cache, i) /\ q = Caching(p, w)
         /\ r = ClosedOne(q) /\ qs = [pool EXCEPT ![k] = r]
         /\ c = p.cache[i] /\ os = open \ {c}
  OBVIOUS
<1>3. /\ PoolsFit(pool, sock, None) /\ Owned(pool, sock, open) /\ SocksFit(sock)
      /\ pool \in [Keys -> PoolRecord] /\ None \notin Keys
  BY NamesAssumption DEF Good, PoolsFit
<1>4. /\ p \in PoolRecord /\ Fits(p, CountedIn(sock, k), WaitingIn(sock, k))
      /\ CountedIn(sock, k) \in SUBSET Socks
  BY <1>2, <1>3, PoolOf
<1>5. p.cache \in Seq(Conns) /\ IsInjective(p.cache)
  BY <1>4, Lengths DEF Fits, CacheFits
<1>6. i \in 1..Len(p.cache)
  BY <1>2, <1>5, LenProperties
<1>7. w \in Seq(Conns) /\ Range(w) = Range(p.cache) \ {c} /\ c \in Range(p.cache)
  <2>1. PICK x : x = p.cache
    OBVIOUS
  <2>2. /\ x \in Seq(Conns) /\ IsInjective(x) /\ i \in 1..Len(x)
        /\ w = RemoveAt(x, i) /\ c = x[i]
    BY <1>2, <1>5, <1>6, <2>1
  <2>3. w \in Seq(Conns) /\ Range(w) = Range(x) \ {c}
    BY <2>2, QueueRemoveAt, QueueLeft
  <2>4. c \in Range(x)
    BY <2>2, LenProperties DEF Range
  <2>. QED
    BY <2>1, <2>3, <2>4
<1>8. q.cache = w
  BY <1>2, <1>4, <1>7, CachingFields
<1>9. Exceeds(q, CountedIn(sock, k), WaitingIn(sock, k))
  BY <1>2, <1>4, <1>6, FitsUncached
<1>10. Fits(r, CountedIn(sock, k), WaitingIn(sock, k)) /\ r.cache = w
  BY <1>2, <1>4, <1>8, <1>9, ExceedsClosedOne, CacheKeptIfExceeds
<1>11. PoolsFit([pool EXCEPT ![k] = r], sock, None)
  BY <1>3, <1>10, PoolChanged
<1>12. qs[k] = r /\ \A j \in Keys \ {k} : qs[j].cache = pool[j].cache
  BY <1>2, <1>3
<1>13. Owned(qs, sock, os)
  <2>1. c \in Range(pool[k].cache) /\ Range(qs[k].cache) = Range(pool[k].cache) \ {c}
    BY <1>2, <1>7, <1>10, <1>12
  <2>2. Owned(qs, sock, open \ {c})
    BY <1>3, <1>12, <2>1, OwnedEvicted
  <2>. QED
    BY <1>2, <2>2
<1>14. pool' = qs /\ open' = os
  BY <1>1, <1>2
<1>. QED
  BY <1>1, <1>2, <1>3, <1>11, <1>13, <1>14 DEF Good
\* An open socket gives its connection up: Z is what the pool of its name is
\* then, with the connection in its cache or not, without those of E.
Keeping(s, ps, k, ss) ==
    /\ s \in Socks /\ sock[s].st = "open" /\ k = sock[s].key
    /\ PoolsFit(ps, sock, None) /\ SocksFit(sock) /\ Owned(ps, sock, open)
    /\ ss = [sock EXCEPT ![s] = ClosedSock]

Gives(s, ps, k, ss, Z, c, E, ot, qs) ==
    /\ Fits(Z, CountedIn(ss, k), WaitingIn(sock, k))
    /\ c = sock[s].conn /\ E \subseteq Range(ps[k].cache)
    /\ \/ /\ Range(Z.cache) = (Range(ps[k].cache) \ E) \cup {c}
          /\ ot = open \ E
       \/ /\ Range(Z.cache) = Range(ps[k].cache) \ E
          /\ ot = (open \ E) \ {c}
    /\ qs = [ps EXCEPT ![k] = Z]

LEMMA GivenUp ==
    ASSUME NEW s, NEW ps, NEW k, NEW ss, Keeping(s, ps, k, ss),
           NEW Z, NEW c, NEW E, NEW ot, NEW qs, Gives(s, ps, k, ss, Z, c, E, ot, qs)
    PROVE  Good(qs, ss, ot)
<1>. /\ s \in Socks /\ sock[s].st = "open" /\ k = sock[s].key
     /\ PoolsFit(ps, sock, None) /\ SocksFit(sock) /\ Owned(ps, sock, open)
  BY DEF Keeping
<1>. ss = [sock EXCEPT ![s] = ClosedSock]
  BY DEF Keeping
<1>. /\ Fits(Z, CountedIn(ss, k), WaitingIn(sock, k))
     /\ c = sock[s].conn /\ E \subseteq Range(ps[k].cache)
  BY DEF Gives
<1>. \/ /\ Range(Z.cache) = (Range(ps[k].cache) \ E) \cup {c}
        /\ ot = open \ E
     \/ /\ Range(Z.cache) = Range(ps[k].cache) \ E
        /\ ot = (open \ E) \ {c}
  BY DEF Gives
<1>. qs = [ps EXCEPT ![k] = Z]
  BY DEF Gives
<1>1. /\ sock \in [Socks -> SockRecord] /\ SockFits(sock[s])
      /\ ps \in [Keys -> PoolRecord] /\ None \notin Keys /\ None \notin Conns
  BY NamesAssumption DEF SocksFit, PoolsFit
<1>2. /\ k \in Keys /\ c \in Conns /\ sock[s].spool \in {None, k}
  BY <1>1 DEF SockFits, SockRecord
<1>3. ss[s] = ClosedSock /\ \A t \in Socks \ {s} : ss[t] = sock[t]
  BY <1>1
<1>4. ClosedSock.st = "closed" /\ ClosedSock.conn = None
  BY DEF ClosedSock
<1>5. ASSUME NEW j \in Keys
      PROVE  /\ WaitingIn(ss, j) = WaitingIn(sock, j)
             /\ j # k => CountedIn(ss, j) = CountedIn(sock, j)
  <2>1. WaitingIn(ss, j) = WaitingIn(sock, j)
    BY <1>3, <1>4 DEF WaitingIn
  <2>2. ASSUME j # k PROVE CountedIn(ss, j) = CountedIn(sock, j)
    <3>1. sock[s].spool # j
      BY <1>1, <1>2, <2>2
    <3>. QED
      BY <1>3, <1>4, <3>1 DEF CountedIn
  <2>. QED
    BY <2>1, <2>2
<1>6. Z \in PoolRecord
  BY DEF Fits
<1>7. qs \in [Keys -> PoolRecord] /\ qs[k] = Z /\ \A j \in Keys \ {k} : qs[j] = ps[j]
  BY <1>1, <1>2, <1>6
<1>8. PoolsFit(qs, ss, None)
  <2>1. ASSUME NEW j \in Keys PROVE Fits(qs[j], CountedIn(ss, j), WaitingIn(ss, j))
    <3>1. CASE j = k
      BY <1>5, <1>7, <3>1
    <3>2. CASE j # k
      <4>1. Fits(ps[j], CountedIn(sock, j), WaitingIn(sock, j))
        BY <1>1, <2>1, PoolOf
      <4>2. qs[j] = ps[j] /\ CountedIn(ss, j) = CountedIn(sock, j)
            /\ WaitingIn(ss, j) = WaitingIn(sock, j)
        BY <1>5, <1>7, <2>1, <3>2
      <4>. QED
        BY <4>1, <4>2
    <3>. QED
      BY <3>1, <3>2
  <2>. QED
    BY <1>1, <1>7, <2>1 DEF PoolsFit
<1>9. SocksFit(ss)
  BY ClosedFits, SocksChanged
<1>10. Owned(qs, ss, ot)
  <2>1. PICK tt, os, X, Y, b : /\ tt = sock /\ os = open /\ X = Range(ps[k].cache)
                               /\ Y = Range(Z.cache) /\ b = None
    OBVIOUS
  <2>2. Owned(ps, tt, os) /\ os \subseteq Conns /\ X \subseteq os /\ c \in os /\ c \notin X
    BY <1>1, <1>2, <2>1 DEF Owned
  <2>3. \/ Y = (X \ E) \cup {c} /\ ot = os \ E
        \/ Y = X \ E /\ ot = (os \ E) \ {c}
    BY <2>1
  <2>4. E \subseteq X
    BY <2>1
  <2>5. /\ b \notin Y /\ Y \subseteq Conns
        /\ \A d \in (Y \cup {b}) \cap os : d \in X \cup {c}
        /\ ot = (os \ (X \cup {c})) \cup Y \cup ({b} \ {None})
    BY <1>1, <1>2, <2>1, <2>2, <2>3, <2>4
  <2>6. /\ tt[s].conn = c /\ ss[s].conn = b
        /\ \A t \in Socks \ {s} : ss[t].conn = tt[t].conn
        /\ Range(ps[k].cache) = X /\ Range(qs[k].cache) = Y /\ k # None
        /\ \A j \in Keys \ {k} : qs[j].cache = ps[j].cache
    BY <1>1, <1>2, <1>3, <1>4, <1>7, <2>1
  <2>7. Moves(ps, tt, os, qs, ss, ot, s, c, b, k, X, Y)
    BY <1>2, <2>1, <2>5, <2>6 DEF Moves
  <2>. QED
    BY <2>2, <2>7, OwnedMoved
<1>. QED
  BY <1>8, <1>9, <1>10 DEF Good

LEMMA ResumedKeepsCache ==
    ASSUME NEW p, NEW C \in SUBSET Socks, NEW W, Fits(p, C, W)
    PROVE  ResumeConnOp(p).cache = p.cache
<1>1. p \in PoolRecord /\ CountFits(p, C)
  BY DEF Fits
<1>2. ~(p.connections < 0)
  BY <1>1, Lengths, NamesAssumption, FS_Subset, FS_CardinalityType DEF CountFits
<1>3. ASSUME NEW o PROVE ResumePosted(p, o).cache = p.cache
  BY <1>1 DEF ResumePosted, PoolRecord
<1>4. ResumeConnOp(p) = IF p.wait_connect_op = <<>> THEN p
                        ELSE ResumePosted(p, Head(p.wait_connect_op))
  BY <1>2 DEF ResumeConnOp
<1>. QED
  BY <1>3, <1>4

\* The pool of the name after the connection has been saved: the counter
\* gives up the place of the socket, or takes one for the item.
KeptAs(s, ps, k, ss, r) ==
    /\ Saved(s, ps, k) = [ps EXCEPT ![k] = r]
    /\ Fits(r, CountedIn(ss, k), WaitingIn(sock, k))
    /\ CountedIn(ss, k) \in SUBSET Socks
    /\ r.cache # <<>> /\ Head(r.cache) = sock[s].conn
    /\ Evicted(ps, k) \subseteq Range(ps[k].cache)
    /\ sock[s].conn \notin Range(ps[k].cache)
    /\ Range(r.cache) = (Range(ps[k].cache) \ Evicted(ps, k)) \cup {sock[s].conn}

LEMMA SavedFits ==
    ASSUME NEW s, NEW ps, NEW k, NEW ss, Keeping(s, ps, k, ss), ps[k].listed = TRUE
    PROVE  \E r \in PoolRecord : KeptAs(s, ps, k, ss, r)
<1>. /\ s \in Socks /\ sock[s].st = "open" /\ k = sock[s].key
     /\ PoolsFit(ps, sock, None) /\ SocksFit(sock) /\ Owned(ps, sock, open)
  BY DEF Keeping
<1>. ss = [sock EXCEPT ![s] = ClosedSock]
  BY DEF Keeping
<1>1. /\ sock \in [Socks -> SockRecord] /\ SockFits(sock[s])
      /\ ps \in [Keys -> PoolRecord] /\ None \notin Keys /\ None \notin Conns
  BY NamesAssumption DEF SocksFit, PoolsFit
<1>2. PICK c, spool, p, x, kept, E, n :
         /\ c = sock[s].conn /\ spool = sock[s].spool /\ p = ps[k] /\ x = p.cache
         /\ kept = IF Len(x) = PoolSize THEN Front(x) ELSE x
         /\ E = IF Len(x) = PoolSize THEN {Last(x)} ELSE {}
         /\ n = <<c>> \o kept
  OBVIOUS
<1>3. k \in Keys /\ c \in Conns /\ spool \in {None, k}
  BY <1>1, <1>2 DEF SockFits, SockRecord
<1>4. /\ p \in PoolRecord /\ Fits(p, CountedIn(sock, k), WaitingIn(sock, k))
      /\ CountedIn(sock, k) \in SUBSET Socks /\ p.listed = TRUE
  BY <1>1, <1>2, <1>3, PoolOf
<1>5. x \in Seq(Conns) /\ IsInjective(x) /\ Len(x) <= PoolSize /\ Len(x) \in Nat
  BY <1>2, <1>4, Lengths DEF Fits, CacheFits
<1>6. c \notin Range(x)
  BY <1>2, <1>3 DEF Owned
<1>7. /\ n \in Seq(Conns) /\ IsInjective(n)
      /\ Len(n) = IF Len(x) = PoolSize THEN Len(x) ELSE Len(x) + 1
      /\ Range(n) = (Range(x) \ E) \cup {c} /\ E \subseteq Range(x)
  <2>1. Stores(x, c, kept, E, n)
    BY <1>2, <1>3, <1>5, <1>6 DEF Stores
  <2>. QED
    BY <2>1, StoredCache
<1>8. Len(n) \in Nat /\ Len(n) <= PoolSize /\ Len(n) >= 1
  BY <1>5, <1>7, SizeAssumption
<1>9. n # <<>> /\ Head(n) = c
  <2>1. Stores(x, c, kept, E, n)
    BY <1>2, <1>3, <1>5, <1>6 DEF Stores
  <2>. QED
    BY <2>1, StoredCache
<1>10. PICK q, C, D : q = Caching(p, n) /\ C = CountedIn(sock, k) /\ D = CountedIn(ss, k)
  OBVIOUS
<1>11. /\ q \in PoolRecord /\ q.cache = n /\ q.connections = p.connections
  BY <1>4, <1>7, <1>10, CachingFields
<1>12. /\ More(q) \in PoolRecord /\ Less(q) \in PoolRecord
       /\ More(q).cache = n /\ Less(q).cache = n
       /\ More(q).connections = p.connections + 1 /\ Less(q).connections = p.connections - 1
  BY <1>11, MoreLess, MoreLessCount
<1>13. D \in SUBSET Socks /\ C \in SUBSET Socks
  BY <1>10 DEF CountedIn
<1>14. /\ Cardinality(C) \in Nat /\ Cardinality(D) \in Nat /\ p.connections \in Int
       /\ Cardinality(D) = IF spool # None THEN Cardinality(C) - 1 ELSE Cardinality(C)
  <2>1. Cardinality(C) \in Nat /\ Cardinality(D) \in Nat /\ p.connections \in Int
    BY <1>4, <1>13, Lengths, Sizes
  <2>2. ss[s] = ClosedSock /\ \A t \in Socks \ {s} : ss[t] = sock[t]
    BY <1>1
  <2>3. ClosedSock.st = "closed"
    BY DEF ClosedSock
  <2>4. CASE spool = None
    <3>1. D = C
      <4>1. sock[s].spool # k
        BY <1>1, <1>2, <1>3, <2>4
      <4>. QED
        BY <1>10, <2>2, <2>3, <4>1 DEF CountedIn
    <3>. QED
      BY <2>1, <2>4, <3>1
  <2>5. CASE spool # None
    <3>1. D = C \ {s} /\ s \in C
      BY <1>1, <1>2, <1>3, <1>10, <2>2, <2>3, <2>5 DEF CountedIn
    <3>. QED
      BY <1>13, <2>1, <2>5, <3>1, Sizes
  <2>. QED
    BY <2>4, <2>5
<1>15. PICK r \in {q, Less(q), More(q)} :
          /\ Saved(s, ps, k) = [ps EXCEPT ![k] = r]
          /\ r.connections - Cardinality(D) - Len(n)
                = p.connections - Cardinality(C) - Len(p.cache)
  <2>1. PICK qs : qs = [ps EXCEPT ![k] = q]
    OBVIOUS
  <2>2. qs[k] = q /\ \A v : [qs EXCEPT ![k] = v] = [ps EXCEPT ![k] = v]
    BY <1>1, <1>3, <2>1
  <2>3. Saved(s, ps, k) =
          CASE Len(x) = PoolSize /\ spool # None -> [qs EXCEPT ![spool] = Less(qs[spool])]
            [] Len(x) # PoolSize /\ spool = None -> [qs EXCEPT ![k] = More(qs[k])]
            [] OTHER -> qs
    BY <1>2, <1>10, <2>1 DEF Saved
  <2>4. PICK a, l, m : a = Cardinality(C) /\ l = Len(x) /\ m = p.connections
    OBVIOUS
  <2>5. a \in Nat /\ l \in Nat /\ m \in Int /\ Len(p.cache) = l
    BY <1>2, <1>5, <1>14, <2>4
  <2>6. CASE l = PoolSize /\ spool # None
    <3>1. Saved(s, ps, k) = [ps EXCEPT ![k] = Less(q)]
      BY <1>3, <2>2, <2>3, <2>4, <2>6
    <3>2. Less(q).connections = m - 1 /\ Cardinality(D) = a - 1 /\ Len(n) = l
      BY <1>7, <1>12, <1>14, <2>4, <2>6
    <3>3. (m - 1) - (a - 1) - l = m - a - l
      BY <2>5
    <3>. QED
      BY <2>4, <2>5, <3>1, <3>2, <3>3
  <2>7. CASE l # PoolSize /\ spool = None
    <3>1. Saved(s, ps, k) = [ps EXCEPT ![k] = More(q)]
      BY <1>3, <2>2, <2>3, <2>4, <2>7
    <3>2. More(q).connections = m + 1 /\ Cardinality(D) = a /\ Len(n) = l + 1
      BY <1>7, <1>12, <1>14, <2>4, <2>7
    <3>3. (m + 1) - a - (l + 1) = m - a - l
      BY <2>5
    <3>. QED
      BY <2>4, <2>5, <3>1, <3>2, <3>3
  <2>8. CASE l = PoolSize /\ spool = None
    <3>1. Saved(s, ps, k) = [ps EXCEPT ![k] = q]
      BY <2>1, <2>3, <2>4, <2>8
    <3>2. q.connections = m /\ Cardinality(D) = a /\ Len(n) = l
      BY <1>7, <1>11, <1>14, <2>4, <2>8
    <3>. QED
      BY <2>4, <2>5, <3>1, <3>2
  <2>9. CASE l # PoolSize /\ spool # None
    <3>1. Saved(s, ps, k) = [ps EXCEPT ![k] = q]
      BY <2>1, <2>3, <2>4, <2>9
    <3>2. q.connections = m /\ Cardinality(D) = a - 1 /\ Len(n) = l + 1
      BY <1>7, <1>11, <1>14, <2>4, <2>9
    <3>3. m - (a - 1) - (l + 1) = m - a - l
      BY <2>5
    <3>. QED
      BY <2>4, <2>5, <3>1, <3>2, <3>3
  <2>. QED
    BY <2>6, <2>7, <2>8, <2>9
<1>16. r \in PoolRecord /\ r.cache = n
  BY <1>11, <1>12, <1>15
<1>17. Fits(r, D, WaitingIn(sock, k))
  <2>1. /\ Fits(p, C, WaitingIn(sock, k)) /\ p.listed = TRUE
        /\ n \in Seq(Conns) /\ IsInjective(n) /\ Len(n) <= PoolSize
        /\ r \in {Caching(p, n), Less(Caching(p, n)), More(Caching(p, n))}
        /\ r.connections - Cardinality(D) - Len(n)
              = p.connections - Cardinality(C) - Len(p.cache)
    BY <1>4, <1>7, <1>8, <1>10, <1>15
  <2>. QED
    BY <1>13, <2>1, FitsRecached
<1>18. Evicted(ps, k) = E
  BY <1>2 DEF Evicted
<1>. QED
  BY <1>2, <1>6, <1>7, <1>9, <1>10, <1>13, <1>15, <1>16, <1>17, <1>18 DEF KeptAs
LEMMA SetKeepaliveGood ==
    ASSUME Good(pool, sock, open), NEW s \in Socks, SetKeepalive(s)
    PROVE  Good(pool', sock', open')
<1>1. /\ PoolsFit(pool, sock, None) /\ SocksFit(sock) /\ Owned(pool, sock, open)
      /\ SockFits(sock[s]) /\ sock[s].st = "open"
  BY DEF Good, SocksFit, SetKeepalive
<1>2. PICK k, ps, saved, E, c, ss :
         /\ k = sock[s].key /\ ps = WithPool(pool, k, -1) /\ saved = Saved(s, ps, k)
         /\ E = Evicted(ps, k) /\ c = sock[s].conn
         /\ ss = [sock EXCEPT ![s] = ClosedSock]
  OBVIOUS
<1>3. k \in Keys
  BY <1>1, <1>2 DEF SockFits, SockRecord
<1>4. /\ PoolsFit(ps, sock, None) /\ ps[k].listed = TRUE
      /\ \A j \in Keys : ps[j].cache = pool[j].cache
  BY <1>1, <1>2, <1>3, PoolMade
<1>5. Owned(ps, sock, open) /\ ps \in [Keys -> PoolRecord]
  <2>1. \A t \in Socks : sock[t].conn = sock[t].conn
    OBVIOUS
  <2>. QED
    BY <1>1, <1>4, <2>1, OwnedKept DEF PoolsFit
<1>6. PICK r \in PoolRecord :
         /\ saved = [ps EXCEPT ![k] = r]
         /\ Fits(r, CountedIn(ss, k), WaitingIn(sock, k))
         /\ CountedIn(ss, k) \in SUBSET Socks
         /\ r.cache # <<>> /\ Head(r.cache) = c
         /\ E \subseteq Range(ps[k].cache) /\ c \notin Range(ps[k].cache)
         /\ Range(r.cache) = (Range(ps[k].cache) \ E) \cup {c}
  <2>1. Keeping(s, ps, k, ss)
    BY <1>1, <1>2, <1>4, <1>5 DEF Keeping
  <2>2. \E r \in PoolRecord : KeptAs(s, ps, k, ss, r)
    BY <1>4, <2>1, SavedFits
  <2>. QED
    BY <1>2, <2>2 DEF KeptAs
<1>7. saved[k] = r /\ \A v : [saved EXCEPT ![k] = v] = [ps EXCEPT ![k] = v]
  BY <1>3, <1>5, <1>6
<1>8. sock' = ss
  BY <1>2 DEF SetKeepalive
<1>9. CASE pool' = [saved EXCEPT ![k] = ResumeConnOp(saved[k])] /\ open' = open \ E
  <2>1. PICK Z, qs, ot : /\ Z = ResumeConnOp(r) /\ qs = [ps EXCEPT ![k] = Z]
                         /\ ot = open \ E
    OBVIOUS
  <2>2. Fits(Z, CountedIn(ss, k), WaitingIn(sock, k)) /\ Z.cache = r.cache
    BY <1>6, <2>1, FitsResumed, ResumedKeepsCache
  <2>3. Range(Z.cache) = (Range(ps[k].cache) \ E) \cup {c} /\ ot = open \ E
    BY <1>6, <2>1, <2>2
  <2>4. Good(qs, ss, ot)
    <3>1. Keeping(s, ps, k, ss)
      BY <1>1, <1>2, <1>4, <1>5 DEF Keeping
    <3>2. Gives(s, ps, k, ss, Z, c, E, ot, qs)
      BY <1>2, <1>6, <2>1, <2>2, <2>3 DEF Gives
    <3>. QED
      BY <3>1, <3>2, GivenUp
  <2>5. pool' = qs
    BY <1>7, <1>9, <2>1
  <2>. QED
    BY <1>8, <1>9, <2>1, <2>4, <2>5
<1>10. CASE /\ pool' = [saved EXCEPT ![k] =
                          ClosedOne(Caching(saved[k], Tail(saved[k].cache)))]
            /\ open' = (open \ E) \ {c}
  <2>1. PICK x, w, q, Z, qs, ot :
           /\ x = r.cache /\ w = Tail(x) /\ q = Caching(r, w) /\ Z = ClosedOne(q)
           /\ qs = [ps EXCEPT ![k] = Z] /\ ot = (open \ E) \ {c}
    OBVIOUS
  <2>2. x \in Seq(Conns) /\ x # <<>> /\ IsInjective(x) /\ Head(x) = c
    BY <1>6, <2>1, Lengths DEF Fits, CacheFits
  <2>3. /\ w \in Seq(Conns) /\ Range(w) = Range(x) \ {c}
        /\ w = RemoveAt(x, 1) /\ 1 \in 1..Len(x)
    BY <2>1, <2>2, QueueServed, QueueTail
  <2>4. Exceeds(q, CountedIn(ss, k), WaitingIn(sock, k))
    BY <1>6, <2>1, <2>3, FitsUncached
  <2>5. q.cache = w
    BY <1>6, <2>1, <2>3, CachingFields
  <2>6. Fits(Z, CountedIn(ss, k), WaitingIn(sock, k)) /\ Z.cache = w
    BY <1>6, <2>1, <2>4, <2>5, ExceedsClosedOne, CacheKeptIfExceeds
  <2>7. Range(Z.cache) = Range(ps[k].cache) \ E /\ ot = (open \ E) \ {c}
    BY <1>6, <2>1, <2>3, <2>6
  <2>8. Good(qs, ss, ot)
    <3>1. Keeping(s, ps, k, ss)
      BY <1>1, <1>2, <1>4, <1>5 DEF Keeping
    <3>2. Gives(s, ps, k, ss, Z, c, E, ot, qs)
      BY <1>2, <1>6, <2>1, <2>6, <2>7 DEF Gives
    <3>. QED
      BY <3>1, <3>2, GivenUp
  <2>9. pool' = qs
    BY <1>7, <1>10, <2>1
  <2>. QED
    BY <1>8, <1>10, <2>1, <2>8, <2>9
<1>. QED
  BY <1>2, <1>9, <1>10 DEF SetKeepalive

\* Nobody uses a connection any more: the idle ones go.
LEMMA CleanupGood ==
    ASSUME Good(pool, sock, open), CleanupConnPools
    PROVE  Down'
<1>1. /\ pool \in [Keys -> PoolRecord] /\ sock \in [Socks -> SockRecord]
      /\ \A s \in Socks : SockFits(sock[s]) /\ sock[s].st = "closed"
      /\ None \notin Keys /\ sock' = sock
  BY NamesAssumption DEF Good, PoolsFit, SocksFit, CleanupConnPools
<1>2. \A s \in Socks : sock[s].conn = None
  BY <1>1 DEF SockFits
<1>3. ASSUME NEW k \in Keys
      PROVE  /\ pool'[k] \in PoolRecord
             /\ pool'[k].cache = <<>> /\ pool'[k].wait_connect_op = <<>>
             /\ pool'[k].timed = {} /\ pool'[k].posted = {} /\ pool'[k].mismatched = FALSE
  <2>1. PICK p, q : p = pool[k] /\ q = Caching(p, <<>>)
    OBVIOUS
  <2>2. p \in PoolRecord /\ Fits(p, CountedIn(sock, k), WaitingIn(sock, k))
    BY <1>1, <2>1, PoolOf DEF Good
  <2>3. WaitingIn(sock, k) = {}
    BY <1>1 DEF WaitingIn
  <2>4. QueueFits(p, {}) /\ p.mismatched = FALSE
    BY <2>2, <2>3 DEF Fits, CountFits
  <2>5. p.wait_connect_op = <<>>
    <3>1. PICK w : w = p.wait_connect_op
      OBVIOUS
    <3>2. w \in Seq(Socks) /\ Range(w) = {}
      BY <2>2, <2>4, <3>1, Lengths DEF QueueFits
    <3>3. w # <<>> => Head(w) \in Range(w)
      BY <3>2, LenProperties, QueueTail DEF Range
    <3>. QED
      BY <3>1, <3>2, <3>3
  <2>6. p.timed = {} /\ p.posted = {}
    BY <2>4 DEF QueueFits
  <2>7. <<>> \in Seq(Conns)
    OBVIOUS
  <2>8. /\ q \in PoolRecord /\ q.cache = <<>> /\ q.wait_connect_op = p.wait_connect_op
        /\ q.timed = p.timed /\ q.posted = p.posted /\ q.mismatched = p.mismatched
    BY <2>1, <2>2, <2>7, CachingFields
  <2>9. pool'[k] = q
    BY <2>1 DEF CleanupConnPools
  <2>. QED
    BY <2>4, <2>5, <2>6, <2>8, <2>9
<1>4. pool' \in [Keys -> PoolRecord]
  <2>1. pool' = [k \in Keys |-> Caching(pool[k], <<>>)]
    BY DEF CleanupConnPools
  <2>2. pool' = [k \in Keys |-> pool'[k]]
    BY <2>1
  <2>. QED
    BY <1>3, <2>2
<1>5. open' = {}
  <2>1. \A c \in open : \E k \in Keys : c \in Range(pool[k].cache)
    <3>1. \A c \in open : \/ \E s \in Socks : sock[s].conn = c
                          \/ \E k \in Keys : c \in Range(pool[k].cache)
      BY DEF Good, Owned
    <3>2. \A c \in open : c # None
      BY NamesAssumption DEF Good, Owned
    <3>. QED
      BY <1>2, <3>1, <3>2
  <2>2. \A k \in Keys : ToSet(pool[k].cache) = Range(pool[k].cache)
    BY DEF ToSet, Range
  <2>3. open' = open \ UNION {ToSet(pool[k].cache) : k \in Keys}
    BY DEF CleanupConnPools
  <2>. QED
    BY <2>1, <2>2, <2>3
<1>. QED
  BY <1>1, <1>2, <1>3, <1>4, <1>5 DEF Down

----------------------------------------------------------------------------
(* The invariant.                                                          *)

LEMMA InitInv == Init => IInv
<1>. SUFFICES ASSUME Init PROVE IInv
  OBVIOUS
<1>1. /\ pool = [k \in Keys |-> NoPool] /\ sock = [s \in Socks |-> ClosedSock]
      /\ open = {} /\ phase = "running" /\ None \notin Keys
  BY NamesAssumption DEF Init
<1>2. \A k \in Keys : CountedIn(sock, k) = {} /\ WaitingIn(sock, k) = {}
  BY <1>1 DEF CountedIn, WaitingIn, ClosedSock
<1>3. Fits(NoPool, {}, {})
  BY FitsNew
<1>4. NoPool \in PoolRecord /\ NoPool.cache = <<>>
  BY <1>3 DEF Fits, NoPool, NewPool
<1>5. PoolsFit(pool, sock, None)
  BY <1>1, <1>2, <1>3, <1>4 DEF PoolsFit
<1>6. SocksFit(sock)
  BY <1>1, ClosedFits DEF SocksFit
<1>7. Owned(pool, sock, open)
  <2>1. \A s \in Socks : sock[s].conn = None
    BY <1>1 DEF ClosedSock
  <2>2. \A k \in Keys : Range(pool[k].cache) = {}
    BY <1>1, <1>4 DEF Range
  <2>. QED
    BY <1>1, <2>1, <2>2 DEF Owned
<1>. QED
  BY <1>1, <1>5, <1>6, <1>7 DEF IInv, Good

LEMMA NextInv == KeysFit /\ IInv /\ [Next]_vars => IInv'
<1>. SUFFICES ASSUME KeysFit, IInv, [Next]_vars PROVE IInv'
  OBVIOUS
<1>1. CASE UNCHANGED vars
  BY <1>1 DEF vars, IInv, Down
<1>2. CASE phase = "down"
  <2>1. Down
    BY <1>2 DEF IInv
  <2>2. ASSUME NEW s \in Socks, SockStep(s) PROVE FALSE
    <3>1. sock[s].st = "closed"
      BY <2>1 DEF Down
    <3>. QED
      BY <1>2, <2>2, <3>1
      DEF SockStep, Connect, ConnectBadPort, Resolved, Connected, ConnectFails, Close,
          ConnOpTimeout, ConnOpResume, KilledInQueue, KilledResolving, KilledConnecting,
          SetKeepalive, SetKeepaliveExiting
  <2>3. ASSUME NEW k \in Keys, KeepaliveClose(k) PROVE FALSE
    <3>1. pool[k].cache = <<>>
      BY <2>1 DEF Down
    <3>2. DOMAIN pool[k].cache = {}
      BY <3>1
    <3>. QED
      BY <2>3, <3>2 DEF KeepaliveClose
  <2>4. ~BeginExit /\ ~CleanupConnPools
    BY <1>2 DEF BeginExit, CleanupConnPools
  <2>. QED
    BY <1>1, <2>2, <2>3, <2>4 DEF Next
<1>3. CASE phase # "down"
  <2>1. Good(pool, sock, open) /\ phase \in {"running", "exiting"}
    BY <1>3 DEF IInv
  <2>2. ASSUME Good(pool', sock', open'), phase' \in {"running", "exiting"} PROVE IInv'
    BY <2>2 DEF IInv
  <2>3. ASSUME NEW s \in Socks, SockStep(s) PROVE IInv'
    <3>1. phase' = phase
      BY <2>3
      DEF SockStep, Connect, ConnectBadPort, Resolved, Connected, ConnectFails, Close,
          ConnOpTimeout, ConnOpResume, KilledInQueue, KilledResolving, KilledConnecting,
          SetKeepalive, SetKeepaliveExiting, Finalize
    <3>2. CASE Connect(s)
      BY <2>1, <2>2, <3>1, <3>2, ConnectGood
    <3>3. CASE ConnectBadPort(s)
      BY <2>1, <2>2, <3>1, <3>3, ConnectBadPortGood
    <3>4. CASE Resolved(s)
      BY <2>1, <2>2, <3>1, <3>4, ResolvedGood
    <3>5. CASE Connected(s)
      BY <2>1, <2>2, <3>1, <3>5, ConnectedGood
    <3>6. CASE ConnectFails(s) \/ Close(s) \/ KilledConnecting(s) \/ SetKeepaliveExiting(s)
      <4>1. sock[s].st # "queued" /\ Finalize(s)
        BY <3>6 DEF ConnectFails, Close, KilledConnecting, SetKeepaliveExiting
      <4>. QED
        BY <2>1, <2>2, <3>1, <4>1, FinalizeGood
    <3>7. CASE ConnOpTimeout(s) \/ KilledInQueue(s)
      BY <2>1, <2>2, <3>1, <3>7, LeavesQueueGood
    <3>8. CASE ConnOpResume(s)
      BY <2>1, <2>2, <3>1, <3>8, ConnOpResumeGood
    <3>9. CASE KilledResolving(s)
      BY <2>1, <2>2, <3>1, <3>9, KilledResolvingGood
    <3>10. CASE SetKeepalive(s)
      BY <2>1, <2>2, <3>1, <3>10, SetKeepaliveGood
    <3>. QED
      BY <2>3, <3>2, <3>3, <3>4, <3>5, <3>6, <3>7, <3>8, <3>9, <3>10 DEF SockStep
  <2>4. ASSUME NEW k \in Keys, KeepaliveClose(k) PROVE IInv'
    <3>1. phase' = phase
      BY <2>4 DEF KeepaliveClose
    <3>. QED
      BY <2>1, <2>2, <2>4, <3>1, KeepaliveCloseGood
  <2>5. CASE BeginExit
    BY <2>1, <2>2, <2>5 DEF BeginExit
  <2>6. CASE CleanupConnPools
    <3>1. Down' /\ phase' = "down"
      BY <2>1, <2>6, CleanupGood DEF CleanupConnPools
    <3>. QED
      BY <3>1 DEF IInv
  <2>. QED
    BY <1>1, <2>3, <2>4, <2>5, <2>6 DEF Next
<1>. QED
  BY <1>2, <1>3
LEMMA Invariance == ASSUME KeysFit PROVE Spec => []IInv
BY InitInv, NextInv, PTL DEF Spec

LEMMA Bounded ==
    ASSUME NEW S, NEW n \in Nat, NEW q \in Seq(S), Len(q) <= n
    PROVE  q \in BoundedSeq(S, n)
<1>1. Len(q) \in 0..n /\ q \in [1..Len(q) -> S]
  <2>1. Len(q) \in Nat /\ q \in [1..Len(q) -> S]
    BY LenProperties
  <2>. QED
    BY <2>1
<1>. QED
  BY <1>1 DEF BoundedSeq, SeqOf

LEMMA InvType == IInv => TypeOK
<1>. SUFFICES ASSUME IInv PROVE TypeOK
  OBVIOUS
<1>1. PoolSize \in Nat /\ PoolSize + Backlog \in Nat
  BY SizeAssumption
<1>2. /\ pool \in [Keys -> PoolRecord] /\ sock \in [Socks -> SockRecord]
      /\ open \subseteq Conns /\ phase \in {"running", "exiting", "down"}
      /\ \A k \in Keys : /\ Len(pool[k].cache) <= PoolSize
                         /\ Len(pool[k].wait_connect_op) <= PoolSize + Backlog
  <2>1. CASE Good(pool, sock, open)
    <3>1. ASSUME NEW k \in Keys
          PROVE  /\ Len(pool[k].cache) <= PoolSize
                 /\ Len(pool[k].wait_connect_op) <= PoolSize + Backlog
      <4>1. Fits(pool[k], CountedIn(sock, k), WaitingIn(sock, k))
        BY <2>1, NamesAssumption, PoolOf DEF Good
      <4>. QED
        BY <4>1 DEF Fits, CacheFits, QueueFits
    <3>. QED
      BY <2>1, <3>1 DEF IInv, Good, PoolsFit, SocksFit, Owned
  <2>2. CASE Down
    <3>1. Len(<<>>) = 0
      OBVIOUS
    <3>. QED
      BY <1>1, <2>2, <3>1, SizeAssumption DEF IInv, Down
  <2>. QED
    BY <2>1, <2>2 DEF IInv
<1>3. pool \in [Keys -> [listed: BOOLEAN, backlog: {-1, Backlog},
                        connections: Int, cache: BoundedSeq(Conns, PoolSize),
                        wait_connect_op: BoundedSeq(Socks, PoolSize + Backlog),
                        timed: SUBSET Socks, posted: SUBSET Socks,
                        mismatched: BOOLEAN]]
  <2>1. ASSUME NEW k \in Keys
        PROVE  pool[k] \in [listed: BOOLEAN, backlog: {-1, Backlog},
                        connections: Int, cache: BoundedSeq(Conns, PoolSize),
                        wait_connect_op: BoundedSeq(Socks, PoolSize + Backlog),
                        timed: SUBSET Socks, posted: SUBSET Socks,
                        mismatched: BOOLEAN]
    <3>1. PICK p, A, B : /\ p = pool[k] /\ A = BoundedSeq(Conns, PoolSize)
                         /\ B = BoundedSeq(Socks, PoolSize + Backlog)
      OBVIOUS
    <3>2. p \in PoolRecord /\ p.cache \in A /\ p.wait_connect_op \in B
      BY <1>1, <1>2, <3>1, Bounded, Lengths
    <3>3. p \in [listed: BOOLEAN, backlog: {-1, Backlog}, connections: Int, cache: A,
                 wait_connect_op: B, timed: SUBSET Socks, posted: SUBSET Socks,
                 mismatched: BOOLEAN]
      BY <3>2 DEF PoolRecord
    <3>. QED
      BY <3>1, <3>3
  <2>. QED
    BY <1>2, <2>1
<1>4. sock \in [Socks -> [st: States, conn: Conns \cup {None},
                          spool: Keys \cup {None}, key: Keys \cup {None}]]
  BY <1>2 DEF SockRecord
<1>. QED
  BY <1>2, <1>3, <1>4 DEF TypeOK

LEMMA InvOwners == IInv => ConnectionsHaveOneOwner
<1>. SUFFICES ASSUME IInv PROVE ConnectionsHaveOneOwner
  OBVIOUS
<1>1. \A k \in Keys : ToSet(pool[k].cache) = Range(pool[k].cache)
  BY DEF ToSet, Range
<1>2. Owned(pool, sock, open) /\ \A k \in Keys : IsInjective(pool[k].cache)
  <2>1. CASE Good(pool, sock, open)
    <3>1. ASSUME NEW k \in Keys PROVE IsInjective(pool[k].cache)
      <4>1. Fits(pool[k], CountedIn(sock, k), WaitingIn(sock, k))
        BY <2>1, NamesAssumption, PoolOf DEF Good
      <4>. QED
        BY <4>1 DEF Fits, CacheFits
    <3>. QED
      BY <2>1, <3>1 DEF Good
  <2>2. CASE Down
    <3>1. Range(<<>>) = {} /\ IsInjective(<<>>)
      BY DEF Range, IsInjective
    <3>2. \A k \in Keys : Range(pool[k].cache) = {} /\ IsInjective(pool[k].cache)
      BY <2>2, <3>1 DEF Down
    <3>3. \A s \in Socks : sock[s].conn = None
      BY <2>2 DEF Down
    <3>4. open = {}
      BY <2>2 DEF Down
    <3>. QED
      BY <3>2, <3>3, <3>4 DEF Owned
  <2>. QED
    BY <2>1, <2>2 DEF IInv
<1>3. Held \cup Cached = open
  <2>1. Held \cup Cached \subseteq open
    BY <1>1, <1>2 DEF Held, Cached, Owned
  <2>2. open \subseteq Held \cup Cached
    <3>1. \A c \in open : c # None
      BY <1>2, NamesAssumption DEF Owned
    <3>. QED
      BY <1>1, <1>2, <3>1 DEF Held, Cached, Owned
  <2>. QED
    BY <2>1, <2>2
<1>4. Held \cap Cached = {}
  BY <1>1, <1>2 DEF Held, Cached, Owned
<1>5. \A s, t \in Socks : sock[s].conn = sock[t].conn /\ sock[s].conn # None => s = t
  BY <1>2 DEF Owned
<1>6. \A j, k \in Keys : j # k => ToSet(pool[j].cache) \cap ToSet(pool[k].cache) = {}
  BY <1>1, <1>2 DEF Owned
<1>. QED
  BY <1>2, <1>3, <1>4, <1>5, <1>6 DEF ConnectionsHaveOneOwner

LEMMA InvPools == IInv => CountsAgree /\ PoolKeptWhileUsed /\ QueueWatched
<1>. SUFFICES ASSUME IInv PROVE CountsAgree /\ PoolKeptWhileUsed /\ QueueWatched
  OBVIOUS
<1>1. \A k \in Keys : /\ Counted(k) = CountedIn(sock, k)
                      /\ WaitingIn(sock, k)
                           = {s \in Socks : sock[s].st = "queued" /\ sock[s].spool = k}
                      /\ ToSet(pool[k].wait_connect_op) = Range(pool[k].wait_connect_op)
  BY DEF Counted, CountedIn, WaitingIn, ToSet, Range
<1>2. CASE Good(pool, sock, open)
  <2>1. \A k \in Keys : Fits(pool[k], CountedIn(sock, k), WaitingIn(sock, k))
    BY <1>2, NamesAssumption, PoolOf DEF Good
  <2>2. CountsAgree
    BY <1>1, <2>1 DEF Fits, CountFits, CountsAgree
  <2>3. PoolKeptWhileUsed
    BY <1>1, <2>1 DEF Fits, CountFits, Unused, PoolKeptWhileUsed
  <2>4. QueueWatched
    <3>. SUFFICES ASSUME NEW k \in Keys
         PROVE  LET queue == pool[k].wait_connect_op
                    waiting == {s \in Socks : sock[s].st = "queued" /\ sock[s].spool = k}
                IN  /\ ToSet(queue) = waiting
                    /\ IsInjective(queue)
                    /\ pool[k].timed \cap pool[k].posted = {}
                    /\ pool[k].timed \cup pool[k].posted = ToSet(queue)
                    /\ pool[k].posted \subseteq {queue[i] : i \in DOMAIN queue \cap {1}}
      BY DEF QueueWatched
    <3>1. QueueFits(pool[k], WaitingIn(sock, k)) /\ pool[k] \in PoolRecord
      BY <2>1 DEF Fits
    <3>2. PICK q : q = pool[k].wait_connect_op
      OBVIOUS
    <3>3. pool[k].posted \subseteq {q[i] : i \in DOMAIN q \cap {1}}
      <4>1. ASSUME NEW s \in pool[k].posted PROVE 1 \in DOMAIN q /\ s = q[1]
        <5>1. q \in Seq(Socks) /\ q # <<>> /\ s = Head(q)
          BY <3>1, <3>2, <4>1, Lengths DEF QueueFits
        <5>. QED
          BY <5>1, QueueTail, LenProperties
      <4>. QED
        BY <4>1
    <3>. QED
      BY <1>1, <3>1, <3>2, <3>3 DEF QueueFits
  <2>. QED
    BY <2>2, <2>3, <2>4
<1>3. CASE phase = "down" /\ Down
  <2>1. \A k \in Keys : CountedIn(sock, k) = {} /\ WaitingIn(sock, k) = {}
    BY <1>3 DEF Down, CountedIn, WaitingIn
  <2>2. CountsAgree /\ PoolKeptWhileUsed
    BY <1>1, <1>3, <2>1 DEF Down, CountsAgree, PoolKeptWhileUsed
  <2>3. QueueWatched
    <3>1. ToSet(<<>>) = {} /\ IsInjective(<<>>)
      BY DEF ToSet, IsInjective
    <3>. QED
      BY <1>1, <1>3, <2>1, <3>1 DEF Down, QueueWatched
  <2>. QED
    BY <2>2, <2>3
<1>. QED
  BY <1>2, <1>3 DEF IInv

----------------------------------------------------------------------------
(* The theorems, for a program that rekeys no socket to another pool.      *)

\* What connect, setkeepalive, close, timers and posted events leave is of the
\* type given; a cache never outgrows the pool's size, and a queue never the
\* pool's size and the backlog together (the backlog alone it may exceed).
THEOREM TypeSafe == ASSUME KeysFit PROVE Spec => []TypeOK
BY Invariance, InvType, PTL

\* An open connection is a socket's or idle in one cache, and never two of
\* these: connect, setkeepalive, close and the idle handler hand it over whole.
THEOREM OwnersSafe == ASSUME KeysFit PROVE Spec => []ConnectionsHaveOneOwner
BY Invariance, InvOwners, PTL

\* The counter that a dozen places of the socket code increment and decrement
\* is what its pool has: "count mismatched" is never logged.
THEOREM CountsSafe == ASSUME KeysFit PROVE Spec => []CountsAgree
<1>1. IInv => CountsAgree
  BY InvPools
<1>. QED
  BY <1>1, Invariance, PTL

\* free_pool never takes a pool from under a connection or a queued operation.
THEOREM KeptSafe == ASSUME KeysFit PROVE Spec => []PoolKeptWhileUsed
<1>1. IInv => PoolKeptWhileUsed
  BY InvPools
<1>. QED
  BY <1>1, Invariance, PTL

\* The resume handler, which takes the head of the queue, takes the operation
\* whose event it handles; each queued one has its timer or its event.
THEOREM QueueSafe == ASSUME KeysFit PROVE Spec => []QueueWatched
<1>1. IInv => QueueWatched
  BY InvPools
<1>. QED
  BY <1>1, Invariance, PTL

=============================================================================
