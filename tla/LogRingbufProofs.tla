-------------------------- MODULE LogRingbufProofs --------------------------
(***************************************************************************)
(* Proofs about LogRingbuf, for a buffer of any size and messages of any   *)
(* length: what the reader has yet to come to is whole, and the ring is    *)
(* the queue of AbstractLog.                                               *)
(***************************************************************************)
EXTENDS LogRingbuf, CollectionLemmas

----------------------------------------------------------------------------
(* The layout of a buffer.  r are its records from the head to the tail.   *)
(* The first k of them lie behind the head and end at the sentinel, and    *)
(* the reader turns round after them; the others end at the tail.  A       *)
(* buffer in which the reader does not have to turn round has k = 0.       *)

Records == [at : 0..(Size - 1), log : Messages]
EndOf(x) == x.at + HeaderLen + x.log.len

Buffers == [head : 0..(Size - 1), tail : 0..Size, sentinel : 0..Size, count : Nat]

\* In each part there is a byte at least for each record that is still to come.
FirstPart(b, r, k) ==
    \A i \in 1..k : /\ b.head <= r[i].at /\ EndOf(r[i]) <= b.sentinel
                    /\ k - i + 1 <= b.sentinel - r[i].at
SecondPart(b, r, k) ==
    \A i \in 1..Len(r) : i > k => /\ EndOf(r[i]) <= b.tail
                                  /\ Len(r) - i + 1 <= b.tail - r[i].at

InOrder(r, k) ==
    \A i, j \in 1..Len(r) : i < j /\ (j <= k \/ k < i) => EndOf(r[i]) <= r[j].at

Adjacent(r, k) ==
    \A i \in 1..Len(r) : i < Len(r) /\ i # k => r[i + 1].at = EndOf(r[i])

Ends(b, r, k) ==
    /\ r # <<>> => r[1].at = b.head
    /\ r = <<>> => b.head = 0 /\ b.tail = 0
    /\ b.tail <= b.sentinel
    /\ k > 0 => EndOf(r[k]) = b.sentinel /\ b.tail <= b.head
    /\ k > 0 /\ k < Len(r) => r[k + 1].at = 0
    /\ k > 0 /\ k = Len(r) => b.tail = 0
    /\ k < Len(r) => EndOf(r[Len(r)]) = b.tail

Layout(b, r, k) ==
    /\ b \in Buffers /\ r \in Seq(Records) /\ b.count = Len(r) /\ k \in 0..Len(r)
    /\ FirstPart(b, r, k) /\ SecondPart(b, r, k)
    /\ InOrder(r, k) /\ Adjacent(r, k) /\ Ends(b, r, k)

\* The memory D holds the records r.
Holds(D, r) ==
    \A i \in 1..Len(r) : \A p \in 0..(HeaderLen + r[i].log.len - 1) :
        D[r[i].at + p] = [log |-> r[i].log, pos |-> p]

\* The inductive invariant.
RingInv ==
    /\ DOMAIN data = 0..(Size - 1) /\ filter_level \in Levels
    /\ \E r, k : Layout(rb, r, k) /\ Holds(data, r)

----------------------------------------------------------------------------
(* Facts about one layout.                                                 *)

LEMMA LogConstants ==
    /\ HeaderLen \in Nat /\ HeaderLen > 0 /\ MaxLen \in Nat
    /\ Size \in Nat /\ Size >= HeaderLen /\ Size > 0
BY LogAssumption

LEMMA RecordFacts ==
    ASSUME NEW x \in Records
    PROVE  /\ x.at \in Nat /\ x.at < Size /\ x.log \in Messages /\ x.log.len \in Nat
           /\ EndOf(x) \in Nat /\ EndOf(x) = x.at + HeaderLen + x.log.len
           /\ EndOf(x) >= x.at + HeaderLen /\ EndOf(x) > x.at
<1>1. x.at \in Nat /\ x.at < Size /\ x.log \in Messages
  BY LogConstants DEF Records
<1>2. x.log.len \in Nat
  BY <1>1, LogConstants DEF Messages, Log
<1>. QED
  BY <1>1, <1>2, LogConstants DEF EndOf

LEMMA LayoutFacts ==
    ASSUME NEW b, NEW r, NEW k, Layout(b, r, k)
    PROVE  /\ r \in Seq(Records) /\ Len(r) \in Nat /\ k \in 0..Len(r) /\ k \in Nat
           /\ b.head \in Nat /\ b.head < Size /\ b.tail \in Nat /\ b.tail <= Size
           /\ b.sentinel \in Nat /\ b.sentinel <= Size /\ b.tail <= b.sentinel
           /\ b.count = Len(r)
           /\ b = [head |-> b.head, tail |-> b.tail, sentinel |-> b.sentinel,
                   count |-> b.count]
           /\ \A i \in 1..Len(r) : r[i] \in Records
BY LogConstants DEF Layout, Buffers, Ends

LEMMA RecordsFacts ==
    ASSUME NEW r \in Seq(Records), NEW i \in 1..Len(r)
    PROVE  /\ r[i].at \in Nat /\ r[i].at < Size /\ r[i].log \in Messages
           /\ r[i].log.len \in Nat /\ EndOf(r[i]) \in Nat
           /\ EndOf(r[i]) >= r[i].at + HeaderLen /\ EndOf(r[i]) > r[i].at
<1>1. PICK x \in Records : x = r[i]
  OBVIOUS
<1>2. /\ x.at \in Nat /\ x.at < Size /\ x.log \in Messages /\ x.log.len \in Nat
      /\ EndOf(x) \in Nat /\ EndOf(x) >= x.at + HeaderLen /\ EndOf(x) > x.at
  BY RecordFacts
<1>. QED
  BY <1>1, <1>2

\* The mode of the writer.
LEMMA TailAndHead ==
    ASSUME NEW b, NEW r, NEW k, Layout(b, r, k), r # <<>>
    PROVE  /\ k = 0 => b.tail > b.head
           /\ k > 0 => b.tail <= b.head /\ b.head < b.sentinel
           /\ b.head < b.sentinel
<1>1. Len(r) > 0 /\ 1 \in 1..Len(r) /\ r[1].at = b.head
  BY LayoutFacts DEF Layout, Ends
<1>2. r[1] \in Records /\ EndOf(r[1]) \in Nat /\ EndOf(r[1]) > b.head
  BY <1>1, LayoutFacts, RecordsFacts
<1>3. k = 0 => EndOf(r[1]) <= b.tail
  <2>1. SecondPart(b, r, k)
    BY DEF Layout
  <2>2. k = 0 => 1 > k
    OBVIOUS
  <2>. QED
    BY <1>1, <2>1, <2>2 DEF SecondPart
<1>4. k > 0 => EndOf(r[1]) <= b.sentinel /\ b.tail <= b.head
  <2>1. FirstPart(b, r, k) /\ Ends(b, r, k)
    BY DEF Layout
  <2>2. k > 0 => 1 \in 1..k
    BY LayoutFacts
  <2>. QED
    BY <2>1, <2>2 DEF FirstPart, Ends
<1>. QED
  BY <1>2, <1>3, <1>4, LayoutFacts

\* There are no more records than bytes.
LEMMA CountBounded ==
    ASSUME NEW b, NEW r, NEW k, Layout(b, r, k)
    PROVE  Len(r) <= Size
<1>1. CASE r = <<>>
  BY <1>1, LogConstants
<1>2. CASE r # <<>>
  <2>1. Len(r) > 0 /\ 1 \in 1..Len(r) /\ r[1].at = b.head
    BY <1>2, LayoutFacts DEF Layout, Ends
  <2>2. CASE k = 0
    <3>1. Len(r) - 1 + 1 <= b.tail - r[1].at
      <4>1. SecondPart(b, r, k) /\ 1 > k
        BY <2>2 DEF Layout
      <4>. QED
        BY <2>1, <4>1 DEF SecondPart
    <3>2. PICK n \in Nat, h \in Nat, t \in Nat : n = Len(r) /\ h = r[1].at /\ t = b.tail
      BY <2>1, LayoutFacts
    <3>. QED
      BY <3>1, <3>2, LayoutFacts, LogConstants
  <2>3. CASE k > 0
    <3>1. k - 1 + 1 <= b.sentinel - b.head /\ b.tail <= b.head
      <4>1. 1 \in 1..k
        BY <2>3, LayoutFacts
      <4>. QED
        BY <2>1, <2>3, <4>1 DEF Layout, FirstPart, Ends
    <3>2. Len(r) - k <= b.tail
      <4>1. CASE k = Len(r)
        BY <4>1, LayoutFacts
      <4>2. CASE k # Len(r)
        <5>1. k + 1 \in 1..Len(r) /\ k + 1 > k
          BY <4>2, LayoutFacts
        <5>2. Len(r) - (k + 1) + 1 <= b.tail - r[k + 1].at
          BY <5>1 DEF Layout, SecondPart
        <5>3. r[k + 1].at \in Nat
          BY <5>1, LayoutFacts, RecordsFacts
        <5>. QED
          BY <5>2, <5>3, LayoutFacts
      <4>. QED
        BY <4>1, <4>2
    <3>3. k <= b.sentinel - b.head /\ k \in Nat
      BY <3>1, LayoutFacts
    <3>4. PICK n \in Nat, h \in Nat, t \in Nat, s \in Nat :
            n = Len(r) /\ h = b.head /\ t = b.tail /\ s = b.sentinel
      BY <2>1, LayoutFacts
    <3>5. n - k <= t /\ t <= h /\ k <= s - h /\ s <= Size
      BY <3>1, <3>2, <3>3, <3>4, LayoutFacts
    <3>. QED
      BY <3>3, <3>4, <3>5, LogConstants
  <2>. QED
    BY <2>2, <2>3, LayoutFacts
<1>. QED
  BY <1>1, <1>2

LEMMA HeadByte ==
    ASSUME NEW D, NEW r \in Seq(Records), Holds(D, r), NEW i \in 1..Len(r)
    PROVE  D[r[i].at].log = r[i].log
<1>1. r[i].at \in Nat /\ r[i].log.len \in Nat
  BY RecordsFacts
<1>2. 0 \in 0..(HeaderLen + r[i].log.len - 1) /\ r[i].at + 0 = r[i].at
  BY <1>1, LogConstants
<1>3. D[r[i].at + 0] = [log |-> r[i].log, pos |-> 0]
  BY <1>2 DEF Holds
<1>. QED
  BY <1>2, <1>3

LEMMA EmptyLayout == Layout(Empty, <<>>, 0) /\ \A D : Holds(D, <<>>)
<1>1. Empty \in Buffers /\ Empty.head = 0 /\ Empty.tail = 0 /\ Empty.count = 0
      /\ Empty.sentinel = Size
  BY LogConstants DEF Empty, Buffers
<1>2. <<>> \in Seq(Records) /\ Len(<<>>) = 0 /\ 1..0 = {}
  OBVIOUS
<1>3. FirstPart(Empty, <<>>, 0) /\ SecondPart(Empty, <<>>, 0) /\ InOrder(<<>>, 0)
      /\ Adjacent(<<>>, 0)
  BY <1>2 DEF FirstPart, SecondPart, InOrder, Adjacent
<1>4. Ends(Empty, <<>>, 0)
  BY <1>1, <1>2, LogConstants DEF Ends
<1>. QED
  BY <1>1, <1>2, <1>3, <1>4 DEF Layout, Holds

----------------------------------------------------------------------------
(* Moving the head.                                                        *)

\* Where the head goes after the first record.
LEMMA NextRecord ==
    ASSUME NEW b, NEW r, NEW k, Layout(b, r, k), NEW i \in 1..Len(r), i < Len(r),
           NEW c, c.head = EndOf(r[i]), c.sentinel = b.sentinel
    PROVE  NextHeader(c) = r[i + 1].at
<1>1. i + 1 \in 1..Len(r) /\ i \in Nat /\ i < i + 1
  BY LayoutFacts
<1>2. PICK x, y : x = r[i] /\ y = r[i + 1]
  OBVIOUS
<1>3. /\ x \in Records /\ y \in Records /\ EndOf(x) \in Nat /\ EndOf(y) \in Nat
      /\ y.at \in Nat /\ EndOf(y) >= y.at + HeaderLen /\ EndOf(y) > y.at
  BY <1>1, <1>2, LayoutFacts, RecordsFacts
<1>4. CASE i = k
  <2>1. EndOf(x) = b.sentinel /\ y.at = 0
    BY <1>1, <1>2, <1>4, LayoutFacts DEF Layout, Ends
  <2>. QED
    BY <1>2, <1>3, <1>4, <2>1, LayoutFacts DEF NextHeader
<1>5. CASE i # k
  <2>1. y.at = EndOf(x)
    BY <1>2, <1>5, LayoutFacts DEF Layout, Adjacent
  <2>2. EndOf(y) <= b.sentinel
    <3>1. i + 1 <= k => i + 1 \in 1..k
      BY <1>1, LayoutFacts
    <3>2. i + 1 <= k => EndOf(y) <= b.sentinel
      BY <1>2, <3>1 DEF Layout, FirstPart
    <3>3. ~(i + 1 <= k) => EndOf(y) <= b.tail
      BY <1>1, <1>2, LayoutFacts DEF Layout, SecondPart
    <3>. QED
      BY <1>3, <3>2, <3>3, LayoutFacts
  <2>3. ~(Size - c.head < HeaderLen) /\ ~(c.head >= b.sentinel)
    BY <1>2, <1>3, <2>1, <2>2, LayoutFacts, LogConstants
  <2>. QED
    BY <1>2, <2>1, <2>3 DEF NextHeader
<1>. QED
  BY <1>4, <1>5

LEMMA TailFacts ==
    ASSUME NEW S, NEW r \in Seq(S), r # <<>>
    PROVE  /\ Tail(r) \in Seq(S) /\ Len(Tail(r)) = Len(r) - 1 /\ Len(r) \in Nat
           /\ Len(r) > 0
           /\ \A i \in 1..Len(Tail(r)) : i + 1 \in 1..Len(r) /\ Tail(r)[i] = r[i + 1]
OBVIOUS

LEMMA HoldsTail ==
    ASSUME NEW D, NEW r \in Seq(Records), r # <<>>, Holds(D, r)
    PROVE  Holds(D, Tail(r))
BY TailFacts DEF Holds

\* The first record goes.
Fewer(k) == IF k > 0 THEN k - 1 ELSE 0

LEMMA Advanced ==
    ASSUME NEW b, NEW r, NEW k, Layout(b, r, k), Holds(data, r), r # <<>>
    PROVE  Layout(Advance(b), Tail(r), Fewer(k))
<1>1. /\ Len(r) > 0 /\ 1 \in 1..Len(r) /\ r[1].at = b.head /\ b.count = Len(r)
      /\ r[1] \in Records /\ r \in Seq(Records) /\ Len(r) \in Nat
  BY LayoutFacts DEF Layout, Ends
<1>2. data[b.head].log.len = r[1].log.len
  BY <1>1, HeadByte
<1>3. PICK next : next = [b EXCEPT !.head = b.head + HeaderLen + data[b.head].log.len,
                                   !.count = b.count - 1]
  OBVIOUS
<1>4. /\ next.head = EndOf(r[1]) /\ next.tail = b.tail /\ next.sentinel = b.sentinel
      /\ next.count = Len(r) - 1
      /\ next = [head |-> next.head, tail |-> next.tail, sentinel |-> next.sentinel,
                 count |-> next.count]
  <2>1. b = [head |-> b.head, tail |-> b.tail, sentinel |-> b.sentinel,
             count |-> b.count]
    BY LayoutFacts
  <2>2. EndOf(r[1]) = b.head + HeaderLen + data[b.head].log.len
    BY <1>1, <1>2 DEF EndOf
  <2>. QED
    BY <1>1, <1>3, <2>1, <2>2
<1>5. PICK c : c = Advance(b)
  OBVIOUS
<1>6. /\ next.count = 0 => c = [Empty EXCEPT !.head = NextHeader(Empty)]
      /\ next.count # 0 => c = [next EXCEPT !.head = NextHeader(next)]
  BY <1>3, <1>5 DEF Advance
<1>7. PICK q, m : q = Tail(r) /\ m = Fewer(k)
  OBVIOUS
<1>8. /\ q \in Seq(Records) /\ Len(q) = Len(r) - 1 /\ Len(q) \in Nat
      /\ \A i \in 1..Len(q) : i + 1 \in 1..Len(r) /\ q[i] = r[i + 1]
  BY <1>1, <1>7, TailFacts
<1>9. CASE Len(r) = 1
  <2>1. NextHeader(Empty) = 0
    BY LogConstants DEF NextHeader, Empty
  <2>2. c = Empty
    BY <1>4, <1>6, <1>9, <2>1 DEF Empty
  <2>3. q = <<>>
    BY <1>8, <1>9
  <2>4. m = 0
    BY <1>7, <1>9, LayoutFacts DEF Fewer
  <2>. QED
    BY <1>5, <1>7, <2>2, <2>3, <2>4, EmptyLayout
<1>10. CASE Len(r) # 1
  <2>1. /\ 2 \in 1..Len(r) /\ 1 \in 1..Len(q) /\ q[1] = r[2] /\ Len(r) > 1
        /\ r[2] \in Records
    BY <1>1, <1>8, <1>10, LayoutFacts
  <2>2. NextHeader(next) = r[1 + 1].at
    BY <1>1, <1>4, <2>1, NextRecord
  <2>3. c = [next EXCEPT !.head = r[2].at]
    BY <1>1, <1>4, <1>6, <1>10, <2>2
  <2>4. /\ c.head = r[2].at /\ c.tail = b.tail /\ c.sentinel = b.sentinel
        /\ c.count = Len(q)
    BY <1>4, <1>8, <2>3
  <2>5. c \in Buffers
    <3>1. r[2].at \in 0..(Size - 1) /\ Len(q) \in Nat
      BY <1>8, <2>1 DEF Records
    <3>2. c = [head |-> c.head, tail |-> c.tail, sentinel |-> c.sentinel,
               count |-> c.count]
      BY <1>4, <2>3
    <3>. QED
      BY <2>4, <3>1, <3>2, LayoutFacts DEF Buffers
  <2>6. m \in 0..Len(q) /\ m \in Nat /\ (k = 0 => m = 0) /\ (k > 0 => m = k - 1)
    BY <1>7, <1>8, LayoutFacts DEF Fewer
  <2>7. FirstPart(c, q, m)
    <3>1. ASSUME NEW i \in 1..m
          PROVE  /\ c.head <= q[i].at /\ EndOf(q[i]) <= c.sentinel
                 /\ m - i + 1 <= c.sentinel - q[i].at
      <4>1. /\ i \in Nat /\ i + 1 \in 1..k /\ i \in 1..Len(q) /\ q[i] = r[i + 1]
            /\ m = k - 1 /\ i + 1 \in 1..Len(r) /\ i + 1 <= k
        BY <1>8, <2>6, LayoutFacts
      <4>2. /\ EndOf(r[i + 1]) <= b.sentinel
            /\ k - (i + 1) + 1 <= b.sentinel - r[i + 1].at
        BY <4>1 DEF Layout, FirstPart
      <4>3. r[2].at <= r[i + 1].at
        <5>1. CASE i = 1
          <6>1. r[2].at \in Nat /\ i + 1 = 2
            BY <1>1, <2>1, <5>1, RecordsFacts
          <6>. QED
            BY <6>1
        <5>2. CASE i # 1
          <6>1. InOrder(r, k)
            BY DEF Layout
          <6>2. 2 < i + 1 /\ i + 1 <= k /\ 2 \in 1..Len(r) /\ i + 1 \in 1..Len(r)
            BY <2>1, <4>1, <5>2
          <6>3. EndOf(r[2]) <= r[i + 1].at
            BY <6>1, <6>2 DEF InOrder
          <6>4. /\ r[2].at \in Nat /\ EndOf(r[2]) \in Nat /\ EndOf(r[2]) > r[2].at
                /\ r[i + 1].at \in Nat
            BY <1>1, <6>2, RecordsFacts
          <6>. QED
            BY <6>3, <6>4
        <5>. QED
          BY <5>1, <5>2
      <4>4. m - i + 1 = k - (i + 1) + 1
        BY <4>1, LayoutFacts
      <4>. QED
        BY <2>4, <4>1, <4>2, <4>3, <4>4
    <3>. QED
      BY <3>1 DEF FirstPart
  <2>8. SecondPart(c, q, m)
    <3>1. ASSUME NEW i \in 1..Len(q), i > m
          PROVE  EndOf(q[i]) <= c.tail /\ Len(q) - i + 1 <= c.tail - q[i].at
      <4>1. i + 1 \in 1..Len(r) /\ i + 1 > k /\ q[i] = r[i + 1]
        BY <1>8, <2>6, <3>1, LayoutFacts
      <4>2. /\ EndOf(r[i + 1]) <= b.tail
            /\ Len(r) - (i + 1) + 1 <= b.tail - r[i + 1].at
        BY <4>1 DEF Layout, SecondPart
      <4>3. Len(q) - i + 1 = Len(r) - (i + 1) + 1
        BY <1>8, <1>1
      <4>. QED
        BY <2>4, <4>1, <4>2, <4>3
    <3>. QED
      BY <3>1 DEF SecondPart
  <2>9. InOrder(q, m)
    <3>1. ASSUME NEW i \in 1..Len(q), NEW j \in 1..Len(q), i < j, j <= m \/ m < i
          PROVE  EndOf(q[i]) <= q[j].at
      <4>1. /\ i + 1 \in 1..Len(r) /\ j + 1 \in 1..Len(r) /\ i + 1 < j + 1
            /\ q[i] = r[i + 1] /\ q[j] = r[j + 1]
            /\ j + 1 <= k \/ k < i + 1
        <5>1. i \in Nat /\ j \in Nat /\ i <= Len(q) /\ j <= Len(q) /\ 1 <= i
          BY <1>8
        <5>2. i + 1 \in 1..Len(r) /\ j + 1 \in 1..Len(r) /\ i + 1 < j + 1
          BY <1>1, <1>8, <3>1, <5>1
        <5>3. k \in Nat /\ (j + 1 <= k \/ k < i + 1)
          BY <2>6, <3>1, <5>1, LayoutFacts
        <5>. QED
          BY <1>8, <5>2, <5>3
      <4>. QED
        BY <4>1 DEF Layout, InOrder
    <3>. QED
      BY <3>1 DEF InOrder
  <2>10. Adjacent(q, m)
    <3>1. ASSUME NEW i \in 1..Len(q), i < Len(q), i # m
          PROVE  q[i + 1].at = EndOf(q[i])
      <4>1. /\ i + 1 \in 1..Len(r) /\ i + 1 < Len(r) /\ i + 1 # k /\ i + 1 \in 1..Len(q)
            /\ q[i] = r[i + 1] /\ q[i + 1] = r[i + 1 + 1]
        BY <1>8, <2>6, <3>1, LayoutFacts
      <4>. QED
        BY <4>1 DEF Layout, Adjacent
    <3>. QED
      BY <3>1 DEF Adjacent
  <2>11. Ends(c, q, m)
    <3>1. q # <<>> /\ q[1].at = c.head /\ c.tail <= c.sentinel
      BY <2>1, <2>4, LayoutFacts
    <3>2. m > 0 => /\ EndOf(q[m]) = c.sentinel /\ c.tail <= c.head
                   /\ m < Len(q) => q[m + 1].at = 0
                   /\ m = Len(q) => c.tail = 0
      <4>1. SUFFICES ASSUME m > 0
                     PROVE  /\ EndOf(q[m]) = c.sentinel /\ c.tail <= c.head
                            /\ m < Len(q) => q[m + 1].at = 0
                            /\ m = Len(q) => c.tail = 0
        OBVIOUS
      <4>2. /\ k > 1 /\ m = k - 1 /\ m \in 1..Len(q) /\ q[m] = r[k]
            /\ m < Len(q) => k < Len(r) /\ q[m + 1] = r[k + 1]
            /\ m = Len(q) => k = Len(r)
        <5>1. k > 0 /\ m = k - 1 /\ k \in Nat /\ k <= Len(r) /\ m + 1 = k
          BY <2>6, <4>1, LayoutFacts
        <5>2. m \in 1..Len(q) /\ q[m] = r[m + 1]
          BY <1>8, <2>6, <4>1
        <5>3. m < Len(q) => m + 1 \in 1..Len(q) /\ q[m + 1] = r[m + 1 + 1]
          BY <1>8, <5>2
        <5>. QED
          BY <1>8, <4>1, <5>1, <5>2, <5>3
      <4>3. b.head <= r[2].at
        <5>1. 2 \in 1..k
          BY <4>2, LayoutFacts
        <5>. QED
          BY <5>1 DEF Layout, FirstPart
      <4>4. /\ EndOf(r[k]) = b.sentinel /\ b.tail <= b.head
            /\ k < Len(r) => r[k + 1].at = 0
            /\ k = Len(r) => b.tail = 0
        BY <4>2, LayoutFacts DEF Layout, Ends
      <4>5. b.tail <= r[2].at
        BY <2>1, <4>3, <4>4, LayoutFacts, RecordsFacts
      <4>. QED
        BY <2>4, <4>2, <4>4, <4>5
    <3>3. m < Len(q) => EndOf(q[Len(q)]) = c.tail
      <4>1. SUFFICES ASSUME m < Len(q) PROVE EndOf(q[Len(q)]) = c.tail
        OBVIOUS
      <4>2. k < Len(r)
        BY <1>8, <2>6, <4>1, LayoutFacts
      <4>3. EndOf(r[Len(r)]) = b.tail
        BY <4>2 DEF Layout, Ends
      <4>4. q[Len(q)] = r[Len(r)]
        <5>1. Len(q) \in 1..Len(q) /\ Len(q) + 1 = Len(r)
          BY <1>1, <1>8, <2>1
        <5>. QED
          BY <1>8, <5>1
      <4>. QED
        BY <2>4, <4>3, <4>4
    <3>. QED
      BY <3>1, <3>2, <3>3 DEF Ends
  <2>. QED
    BY <1>5, <1>7, <1>8, <2>4, <2>5, <2>6, <2>7, <2>8, <2>9, <2>10, <2>11 DEF Layout
<1>. QED
  BY <1>9, <1>10

----------------------------------------------------------------------------
(* Making room: the loops throw away the oldest records, and end.          *)

\* q is r without its first records, as many as lost says.
Suffix(q, r, lost) ==
    /\ q \in Seq(Records) /\ lost \in 0..Len(r) /\ Len(q) = Len(r) - lost
    /\ \A i \in 1..Len(q) : i + lost \in 1..Len(r) /\ q[i] = r[i + lost]

\* The buffers that hold the newest of the records r.
Rests(r) == {c \in Buffers : \E q, m, lost : Layout(c, q, m) /\ Suffix(q, r, lost)}

LEMMA SuffixSelf == ASSUME NEW r \in Seq(Records) PROVE Suffix(r, r, 0)
BY DEF Suffix

LEMMA SuffixHolds ==
    ASSUME NEW D, NEW r, NEW q, NEW lost, Holds(D, r), Suffix(q, r, lost)
    PROVE  Holds(D, q)
BY DEF Holds, Suffix

LEMMA SuffixTail ==
    ASSUME NEW r \in Seq(Records), NEW q, NEW lost, Suffix(q, r, lost), q # <<>>
    PROVE  Suffix(Tail(q), r, lost + 1)
<1>1. /\ q \in Seq(Records) /\ lost \in 0..Len(r) /\ Len(q) = Len(r) - lost
      /\ \A i \in 1..Len(q) : i + lost \in 1..Len(r) /\ q[i] = r[i + lost]
  BY DEF Suffix
<1>2. PICK p : p = Tail(q)
  OBVIOUS
<1>3. /\ p \in Seq(Records) /\ Len(p) = Len(q) - 1 /\ Len(q) \in Nat /\ Len(q) > 0
      /\ \A i \in 1..Len(p) : i + 1 \in 1..Len(q) /\ p[i] = q[i + 1]
  BY <1>1, <1>2, TailFacts
<1>4. Len(r) \in Nat /\ lost + 1 \in 0..Len(r) /\ Len(p) = Len(r) - (lost + 1)
  BY <1>1, <1>3
<1>5. ASSUME NEW i \in 1..Len(p)
      PROVE  i + (lost + 1) \in 1..Len(r) /\ p[i] = r[i + (lost + 1)]
  <2>1. (i + 1) + lost \in 1..Len(r) /\ p[i] = r[(i + 1) + lost]
    BY <1>1, <1>3
  <2>2. (i + 1) + lost = i + (lost + 1)
    BY <1>1
  <2>. QED
    BY <2>1, <2>2
<1>. QED
  BY <1>2, <1>3, <1>4, <1>5 DEF Suffix

LEMMA Room ==
    ASSUME NEW b, NEW r, NEW k, Layout(b, r, k)
    PROVE  /\ FreeSpaces(b) \in Nat
           /\ r = <<>> => FreeSpaces(b) = Size
           /\ r # <<>> /\ k = 0 => FreeSpaces(b) = Size - b.tail
           /\ k > 0 => FreeSpaces(b) = b.head - b.tail
<1>1. CASE r = <<>>
  <2>1. Len(r) = 0 /\ k = 0 /\ b.count = 0
    BY <1>1, LayoutFacts
  <2>. QED
    BY <1>1, <2>1, LogConstants DEF FreeSpaces
<1>2. CASE r # <<>>
  <2>1. b.count # 0
    BY <1>2, LayoutFacts
  <2>. QED
    BY <1>2, <2>1, TailAndHead, LayoutFacts, LogConstants DEF FreeSpaces
<1>. QED
  BY <1>1, <1>2

\* One round of a loop.
LEMMA ThrownAway ==
    ASSUME NEW r \in Seq(Records), Holds(data, r), NEW c \in Rests(r), c.count # 0
    PROVE  /\ ThrowAway(c) \in Rests(r) /\ ThrowAway(c).count = c.count - 1
           /\ c.count \in Nat
<1>1. PICK q, m, lost : Layout(c, q, m) /\ Suffix(q, r, lost)
  BY DEF Rests
<1>2. c.count = Len(q) /\ q # <<>> /\ q \in Seq(Records) /\ Len(q) \in Nat
  BY <1>1, LayoutFacts
<1>3. Holds(data, q)
  BY <1>1, SuffixHolds
<1>4. PICK d : d = ThrowAway(c)
  OBVIOUS
<1>5. Layout(d, Tail(q), Fewer(m))
  BY <1>1, <1>2, <1>3, <1>4, Advanced DEF ThrowAway
<1>6. Suffix(Tail(q), r, lost + 1)
  BY <1>1, <1>2, SuffixTail
<1>7. d \in Rests(r)
  <2>1. d \in Buffers
    BY <1>5 DEF Layout
  <2>. QED
    BY <1>5, <1>6, <2>1 DEF Rests
<1>8. d.count = Len(q) - 1
  BY <1>2, <1>5, LayoutFacts, TailFacts
<1>. QED
  BY <1>2, <1>4, <1>7, <1>8

\* The two loops: one ends when nothing lies behind the tail, the other when
\* there is room.
Drops(c, behind, need) == IF behind THEN c.head >= c.tail /\ c.count > 0
                          ELSE FreeSpaces(c) < need

Rounds(g, b, behind, need) ==
    g = [i \in 0..b.count |->
            IF i = 0 THEN b
            ELSE IF Drops(g[i - 1], behind, need) THEN ThrowAway(g[i - 1])
                                                  ELSE g[i - 1]]

\* An empty buffer ends both.
LEMMA DropsSome ==
    ASSUME NEW r \in Seq(Records), NEW c \in Rests(r), NEW behind \in BOOLEAN,
           NEW need \in 0..Size, Drops(c, behind, need)
    PROVE  c.count # 0
<1>1. PICK q, m, lost : Layout(c, q, m) /\ Suffix(q, r, lost)
  BY DEF Rests
<1>2. c.count = Len(q) /\ q \in Seq(Records) /\ Len(q) \in Nat
  BY <1>1, LayoutFacts
<1>3. CASE behind
  BY <1>2, <1>3 DEF Drops
<1>4. CASE ~behind
  <2>1. FreeSpaces(c) < need /\ (q = <<>> => FreeSpaces(c) = Size)
    BY <1>1, <1>4, Room DEF Drops
  <2>2. q # <<>>
    BY <2>1, LogConstants
  <2>. QED
    BY <1>2, <2>2
<1>. QED
  BY <1>3, <1>4

LEMMA LoopExists ==
    ASSUME NEW r \in Seq(Records), Holds(data, r), NEW b \in Rests(r),
           b.count \in Nat, NEW behind \in BOOLEAN, NEW need \in 0..Size
    PROVE  \E g : Rounds(g, b, behind, need)
<1> DEFINE S == Rests(r)
           n == b.count
           F == [p \in S \X (1..n) |->
                    IF Drops(p[1], behind, need) THEN ThrowAway(p[1]) ELSE p[1]]
<1>1. \A c \in S : (IF Drops(c, behind, need) THEN ThrowAway(c) ELSE c) \in S
  BY DropsSome, ThrownAway
<1>2. F \in [S \X (1..n) -> S]
  <2>. HIDE DEF S
  <2>. QED BY <1>1
<1>3. \A c \in S, i \in 1..n :
         F[<<c, i>>] = IF Drops(c, behind, need) THEN ThrowAway(c) ELSE c
  <2>. HIDE DEF S
  <2>. QED OBVIOUS
<1>4. b \in S
  OBVIOUS
<1>. HIDE DEF S, F
<1>5. PICK g \in [0..n -> S] : Repeats(g, b, F, n)
  <2>1. Turns(F, n, S)
    BY <1>2 DEF Turns
  <2>. QED
    BY <1>4, <2>1, Iterated, Zenon
<1>6. \A i \in 0..n : g[i] = IF i = 0 THEN b
                             ELSE IF Drops(g[i - 1], behind, need)
                                  THEN ThrowAway(g[i - 1]) ELSE g[i - 1]
  <2>1. \A i \in 0..n : i # 0 => i \in 1..n /\ i - 1 \in 0..n
    OBVIOUS
  <2>. QED
    BY <1>3, <1>5, <2>1 DEF Repeats
<1>. QED
  BY <1>5, <1>6 DEF Rounds

\* After i rounds at most n - i records are left for the loop to drop.
LEMMA LoopEnds ==
    ASSUME NEW r \in Seq(Records), Holds(data, r), NEW b \in Rests(r),
           b.count \in Nat, NEW behind \in BOOLEAN, NEW need \in 0..Size,
           NEW g, Rounds(g, b, behind, need)
    PROVE  g[b.count] \in Rests(r) /\ ~Drops(g[b.count], behind, need)
<1> DEFINE n == b.count
           Good(i, c) == /\ c \in Rests(r) /\ c.count \in Nat
                         /\ Drops(c, behind, need) => c.count <= n - i
           Q == {i \in 0..n : Good(i, g[i])}
<1>1. /\ g[0] = b
      /\ \A i \in 1..n : g[i] = IF Drops(g[i - 1], behind, need)
                                THEN ThrowAway(g[i - 1]) ELSE g[i - 1]
  BY DEF Rounds
<1>2. 0 \in Q
  BY <1>1
<1>3. ASSUME NEW i \in 1..n, i - 1 \in Q PROVE i \in Q
  <2>1. PICK c, d : c = g[i - 1] /\ d = g[i]
    OBVIOUS
  <2>2. Good(i - 1, c)
    BY <1>3, <2>1
  <2>3. CASE Drops(c, behind, need)
    <3>1. c.count # 0 /\ d = ThrowAway(c)
      BY <1>1, <2>1, <2>2, <2>3, DropsSome
    <3>2. d \in Rests(r) /\ d.count = c.count - 1
      BY <2>2, <3>1, ThrownAway
    <3>3. d.count \in Nat /\ d.count <= n - i
      BY <2>2, <2>3, <3>1, <3>2
    <3>. QED
      BY <2>1, <3>2, <3>3
  <2>4. CASE ~Drops(c, behind, need)
    BY <1>1, <2>1, <2>2, <2>4
  <2>. QED
    BY <2>3, <2>4
<1>4. \A i \in 0..n : i \in Q
  <2> DEFINE h == [i \in 0..n |-> i]
  <2>1. h[0] \in Q
    BY <1>2
  <2>2. \A i \in 1..n : h[i - 1] \in Q => h[i] \in Q
    <3>1. \A i \in 1..n : h[i - 1] = i - 1 /\ h[i] = i
      OBVIOUS
    <3>. HIDE DEF Q, h
    <3>. QED BY <1>3, <3>1
  <2>3. \A i \in 0..n : h[i] = i
    OBVIOUS
  <2>. HIDE DEF Q, h
  <2>4. \A i \in 0..n : h[i] \in Q
    BY <2>1, <2>2, KeptByTurns
  <2>. QED
    BY <2>3, <2>4
<1>5. Good(n, g[n])
  <2>1. n \in 0..n
    OBVIOUS
  <2>. QED
    BY <1>4, <2>1
<1>6. ~Drops(g[n], behind, need)
  <2>1. Drops(g[n], behind, need) => g[n].count # 0
    BY <1>5, DropsSome
  <2>. QED
    BY <1>5, <2>1
<1>. QED
  BY <1>5, <1>6

LEMMA BehindDropped ==
    ASSUME NEW r \in Seq(Records), Holds(data, r), NEW b \in Rests(r), b.count \in Nat
    PROVE  /\ DropBehindTail(b) \in Rests(r)
           /\ ~Drops(DropBehindTail(b), TRUE, 0)
<1> DEFINE IsAfter(g) ==
              g = [i \in 0..b.count |->
                     IF i = 0 THEN b
                     ELSE IF g[i - 1].head >= g[i - 1].tail /\ g[i - 1].count > 0
                          THEN ThrowAway(g[i - 1]) ELSE g[i - 1]]
           after == CHOOSE g : IsAfter(g)
<1>1. DropBehindTail(b) = after[b.count]
  BY DEF DropBehindTail
<1>2. \A g : IsAfter(g) <=> Rounds(g, b, TRUE, 0)
  BY DEF Rounds, Drops
<1>3. 0 \in 0..Size
  BY LogConstants
<1>4. \E g : IsAfter(g)
  <2>1. \E g : Rounds(g, b, TRUE, 0)
    BY <1>3, LoopExists
  <2>. HIDE DEF IsAfter
  <2>. QED BY <1>2, <2>1
<1>5. Rounds(after, b, TRUE, 0)
  <2>. HIDE DEF IsAfter
  <2>. QED BY <1>2, <1>4
<1>. HIDE DEF after
<1>. QED
  BY <1>1, <1>3, <1>5, LoopEnds

LEMMA RoomDropped ==
    ASSUME NEW r \in Seq(Records), Holds(data, r), NEW b \in Rests(r), b.count \in Nat,
           NEW need \in 0..Size
    PROVE  /\ DropUntilRoom(b, need) \in Rests(r)
           /\ ~(FreeSpaces(DropUntilRoom(b, need)) < need)
<1> DEFINE IsAfter(g) ==
              g = [i \in 0..b.count |->
                     IF i = 0 THEN b
                     ELSE IF FreeSpaces(g[i - 1]) < need
                          THEN ThrowAway(g[i - 1]) ELSE g[i - 1]]
           after == CHOOSE g : IsAfter(g)
<1>1. DropUntilRoom(b, need) = after[b.count]
  BY DEF DropUntilRoom
<1>2. \A g : IsAfter(g) <=> Rounds(g, b, FALSE, need)
  BY DEF Rounds, Drops
<1>3. \E g : IsAfter(g)
  <2>1. \E g : Rounds(g, b, FALSE, need)
    BY LoopExists
  <2>. HIDE DEF IsAfter
  <2>. QED BY <1>2, <2>1
<1>4. Rounds(after, b, FALSE, need)
  <2>. HIDE DEF IsAfter
  <2>. QED BY <1>2, <1>3
<1>. HIDE DEF after
<1>5. after[b.count] \in Rests(r) /\ ~Drops(after[b.count], FALSE, need)
  BY <1>4, LoopEnds
<1>. QED
  BY <1>1, <1>5 DEF Drops

\* Nothing lies behind the tail: the records are between head and tail, and
\* the tail goes to the front.
Turned(c) == [c EXCEPT !.sentinel = c.tail, !.tail = 0]

LEMMA TurnedLayout ==
    ASSUME NEW c, NEW q, Layout(c, q, 0)
    PROVE  Layout(Turned(c), q, Len(q))
<1>1. PICK d : d = Turned(c)
  OBVIOUS
<1>2. /\ d.head = c.head /\ d.count = c.count /\ d.sentinel = c.tail /\ d.tail = 0
      /\ d = [head |-> d.head, tail |-> d.tail, sentinel |-> d.sentinel,
              count |-> d.count]
  <2>1. c = [head |-> c.head, tail |-> c.tail, sentinel |-> c.sentinel,
             count |-> c.count]
    BY LayoutFacts
  <2>. QED
    BY <1>1, <2>1 DEF Turned
<1>3. /\ q \in Seq(Records) /\ Len(q) \in Nat /\ c.count = Len(q)
      /\ c.head \in Nat /\ c.head < Size /\ c.tail \in Nat /\ c.tail <= Size
  BY LayoutFacts
<1>4. d \in Buffers
  BY <1>2, <1>3, LogConstants DEF Buffers
<1>5. ASSUME NEW i \in 1..Len(q)
      PROVE  /\ EndOf(q[i]) <= c.tail /\ Len(q) - i + 1 <= c.tail - q[i].at
             /\ c.head <= q[i].at
  <2>1. SecondPart(c, q, 0) /\ InOrder(q, 0) /\ Ends(c, q, 0)
    BY DEF Layout
  <2>2. i > 0 /\ 1 \in 1..Len(q) /\ q # <<>> /\ 0 < 1
    BY <1>3
  <2>3. EndOf(q[i]) <= c.tail /\ Len(q) - i + 1 <= c.tail - q[i].at
    BY <2>1, <2>2 DEF SecondPart
  <2>4. q[1].at = c.head
    BY <2>1, <2>2 DEF Ends
  <2>5. i # 1 => EndOf(q[1]) <= q[i].at
    <3>1. i # 1 => 1 < i
      OBVIOUS
    <3>. QED
      BY <2>1, <2>2, <3>1 DEF InOrder
  <2>6. q[i].at \in Nat /\ EndOf(q[1]) \in Nat /\ EndOf(q[1]) > q[1].at /\ q[1].at \in Nat
    BY <1>3, <2>2, RecordsFacts
  <2>. QED
    BY <2>3, <2>4, <2>5, <2>6
<1>6. FirstPart(d, q, Len(q))
  BY <1>2, <1>5 DEF FirstPart
<1>7. SecondPart(d, q, Len(q))
  BY <1>3 DEF SecondPart
<1>8. InOrder(q, Len(q))
  <2>1. InOrder(q, 0)
    BY DEF Layout
  <2>2. \A i \in 1..Len(q) : 0 < i
    OBVIOUS
  <2>. QED
    BY <2>1, <2>2 DEF InOrder
<1>9. Adjacent(q, Len(q))
  <2>1. Adjacent(q, 0)
    BY DEF Layout
  <2>2. \A i \in 1..Len(q) : i # 0
    OBVIOUS
  <2>. QED
    BY <2>1, <2>2 DEF Adjacent
<1>10. Ends(d, q, Len(q))
  <2>1. Ends(c, q, 0)
    BY DEF Layout
  <2>2. 0 < Len(q) => EndOf(q[Len(q)]) = c.tail
    BY <2>1 DEF Ends
  <2>3. /\ q # <<>> => q[1].at = c.head
        /\ q = <<>> => c.head = 0 /\ Len(q) = 0
    BY <2>1 DEF Ends
  <2>. QED
    BY <1>2, <1>3, <2>2, <2>3 DEF Ends
<1>. QED
  BY <1>1, <1>2, <1>3, <1>4, <1>6, <1>7, <1>8, <1>9, <1>10 DEF Layout

LEMMA TurnedRound ==
    ASSUME NEW r \in Seq(Records), Holds(data, r), NEW b \in Rests(r), b.count \in Nat
    PROVE  TurnRound(b) \in Rests(r)
<1>1. PICK c : c = DropBehindTail(b)
  OBVIOUS
<1>2. c \in Rests(r) /\ ~(c.head >= c.tail /\ c.count > 0)
  BY <1>1, BehindDropped DEF Drops
<1>3. PICK q, m, lost : Layout(c, q, m) /\ Suffix(q, r, lost)
  BY <1>2 DEF Rests
<1>4. m = 0
  <2>1. m \in Nat /\ Len(q) \in Nat /\ m <= Len(q) /\ c.count = Len(q)
        /\ c.head \in Nat /\ c.tail \in Nat
    BY <1>3, LayoutFacts
  <2>2. m > 0 => c.tail <= c.head
    BY <1>3 DEF Layout, Ends
  <2>. QED
    BY <1>2, <2>1, <2>2
<1>5. Layout(Turned(c), q, Len(q))
  BY <1>3, <1>4, TurnedLayout
<1>6. TurnRound(b) = Turned(c)
  BY <1>1 DEF TurnRound, Turned
<1>7. Turned(c) \in Buffers
  BY <1>5 DEF Layout
<1>. QED
  BY <1>3, <1>5, <1>6, <1>7 DEF Rests

\* There is room behind the tail, and what is left are the newest records.
LEMMA MadeRoom ==
    ASSUME NEW r, NEW k, NEW b, Layout(b, r, k), Holds(data, r), NEW need \in 0..Size
    PROVE  MakeRoom(b, need) \in Rests(r) /\ FreeSpaces(MakeRoom(b, need)) >= need
<1>1. r \in Seq(Records) /\ b.count \in Nat /\ b \in Buffers
  BY LayoutFacts DEF Layout
<1>2. b \in Rests(r)
  BY <1>1, SuffixSelf DEF Rests
<1>3. CASE FreeSpaces(b) >= need
  BY <1>2, <1>3 DEF MakeRoom
<1>4. CASE ~(FreeSpaces(b) >= need)
  <2>1. PICK b1 : b1 = IF Size - b.tail < need THEN TurnRound(b) ELSE b
    OBVIOUS
  <2>2. b1 \in Rests(r)
    BY <1>1, <1>2, <2>1, TurnedRound
  <2>3. PICK c : c = DropUntilRoom(b1, need)
    OBVIOUS
  <2>4. b1.count \in Nat
    BY <2>2 DEF Rests, Buffers
  <2>5. c \in Rests(r) /\ ~(FreeSpaces(c) < need)
    BY <1>1, <2>2, <2>3, <2>4, RoomDropped
  <2>6. FreeSpaces(c) \in Nat
    BY <2>5, Room DEF Rests
  <2>7. MakeRoom(b, need) = c
    BY <1>4, <2>1, <2>3 DEF MakeRoom
  <2>. QED
    BY <2>5, <2>6, <2>7
<1>. QED
  BY <1>3, <1>4

----------------------------------------------------------------------------
(* A record is appended where there is room for it.                        *)

Bytes(log) == HeaderLen + log.len

\* What AppendLog makes of a buffer.
Longer(b, log) ==
    [b EXCEPT !.tail = b.tail + Bytes(log), !.count = b.count + 1,
              !.sentinel = IF b.tail + Bytes(log) > b.sentinel
                           THEN b.tail + Bytes(log) ELSE b.sentinel]

Record(at, log) == [at |-> at, log |-> log]

LEMMA FittingFacts ==
    ASSUME NEW log \in Fitting
    PROVE  /\ log \in Messages /\ log.len \in Nat /\ Bytes(log) \in Nat
           /\ Bytes(log) > 0 /\ Bytes(log) <= Size /\ log.len + HeaderLen = Bytes(log)
           /\ Bytes(log) = HeaderLen + log.len
<1>1. log \in Messages /\ log.len + HeaderLen <= Size
  BY DEF Fitting
<1>2. log.len \in Nat
  BY <1>1, LogConstants DEF Messages, Log
<1>. QED
  BY <1>1, <1>2, LogConstants DEF Bytes

\* The space there is lies between the tail and the next record, or the end.
LEMMA SpaceBehindTail ==
    ASSUME NEW b, NEW q, NEW k, Layout(b, q, k), NEW n \in Nat, n > 0, n <= Size,
           FreeSpaces(b) >= n
    PROVE  /\ b.tail + n <= Size /\ b.tail < Size
           /\ k > 0 => b.tail + n <= b.head /\ b.tail + n < b.sentinel
<1>1. /\ b.head \in Nat /\ b.head < Size /\ b.tail \in Nat /\ b.tail <= Size
      /\ b.sentinel \in Nat /\ k \in Nat /\ Len(q) \in Nat /\ k <= Len(q)
  BY LayoutFacts
<1>2. CASE q = <<>>
  <2>1. b.tail = 0 /\ Len(q) = 0
    BY <1>2 DEF Layout, Ends
  <2>. QED
    BY <1>1, <2>1, LogConstants
<1>3. CASE q # <<>> /\ k = 0
  BY <1>1, <1>3, Room, LogConstants
<1>4. CASE k > 0
  <2>1. q # <<>>
    BY <1>1, <1>4
  <2>2. b.head < b.sentinel /\ FreeSpaces(b) = b.head - b.tail
    BY <1>4, <2>1, Room, TailAndHead
  <2>. QED
    BY <1>1, <2>2, LogConstants
<1>. QED
  BY <1>1, <1>2, <1>3, <1>4

\* Sums: what ends before the tail t ends before t + n, and a byte o of what
\* lies before the tail, or from the head h on, is none of the n behind the tail.
LEMMA EndsBefore ==
    ASSUME NEW n \in Nat, n > 0, NEW l \in Nat, NEW i \in Int, NEW a \in Nat,
           NEW e \in Nat, NEW t \in Nat, e <= t, l - i + 1 <= t - a
    PROVE  e <= t + n /\ (l + 1) - i + 1 <= (t + n) - a
OBVIOUS

LEMMA LiesBefore ==
    ASSUME NEW n \in Nat, NEW o \in Nat, NEW e \in Nat, NEW t \in Nat,
           o < e, e <= t, t <= Size
    PROVE  ~(t <= o /\ o < t + n) /\ o < Size
BY LogConstants

LEMMA LiesBehind ==
    ASSUME NEW n \in Nat, NEW a \in Nat, NEW j \in Nat, NEW o \in Nat, NEW e \in Nat,
           NEW t \in Nat, NEW h \in Nat, NEW s \in Nat, o = a + j, o < e, e <= s,
           s <= Size, t + n <= h, h <= a
    PROVE  ~(t <= o /\ o < t + n) /\ o < Size
BY LogConstants

LEMMA AppendFacts ==
    ASSUME NEW S, NEW q \in Seq(S), NEW x \in S
    PROVE  /\ Append(q, x) \in Seq(S) /\ Len(Append(q, x)) = Len(q) + 1
           /\ Len(q) \in Nat /\ Append(q, x)[Len(q) + 1] = x /\ Append(q, x) # <<>>
           /\ \A i \in 1..Len(q) : Append(q, x)[i] = q[i]
OBVIOUS

LEMMA AppendedLayout ==
    ASSUME NEW b, NEW q, NEW k, Layout(b, q, k), NEW log \in Fitting,
           FreeSpaces(b) >= Bytes(log)
    PROVE  Layout(Longer(b, log), Append(q, Record(b.tail, log)), k)
<1>1. PICK n \in Nat : n = Bytes(log)
  BY FittingFacts
<1>2. n > 0 /\ n <= Size
  BY <1>1, FittingFacts
<1>3. /\ b.tail + n <= Size /\ b.tail < Size
      /\ k > 0 => b.tail + n <= b.head /\ b.tail + n < b.sentinel
  BY <1>1, <1>2, SpaceBehindTail
<1>4. /\ b.head \in Nat /\ b.head < Size /\ b.tail \in Nat
      /\ b.sentinel \in Nat /\ b.sentinel <= Size /\ k \in Nat /\ Len(q) \in Nat
      /\ k <= Len(q) /\ q \in Seq(Records) /\ b.count = Len(q)
  BY LayoutFacts
<1>5. PICK x : x = Record(b.tail, log)
  OBVIOUS
<1>6. x \in Records /\ x.at = b.tail /\ EndOf(x) = b.tail + n
  <2>1. b.tail \in 0..(Size - 1) /\ log \in Messages
    BY <1>3, <1>4, FittingFacts, LogConstants
  <2>2. x.at = b.tail /\ x.log = log
    BY <1>5 DEF Record
  <2>3. x \in Records
    BY <1>5, <2>1 DEF Records, Record
  <2>4. EndOf(x) = b.tail + n
    BY <1>1, <1>4, <2>2, FittingFacts, LogConstants DEF EndOf
  <2>. QED
    BY <2>2, <2>3, <2>4
<1>7. PICK p : p = Append(q, x)
  OBVIOUS
<1>8. /\ p \in Seq(Records) /\ Len(p) = Len(q) + 1 /\ p[Len(q) + 1] = x /\ p # <<>>
      /\ \A i \in 1..Len(q) : p[i] = q[i]
  BY <1>4, <1>6, <1>7, AppendFacts
<1>9. PICK c : c = Longer(b, log)
  OBVIOUS
<1>10. /\ c.head = b.head /\ c.tail = b.tail + n /\ c.count = Len(p)
       /\ c.sentinel = IF b.tail + n > b.sentinel THEN b.tail + n ELSE b.sentinel
       /\ c = [head |-> c.head, tail |-> c.tail, sentinel |-> c.sentinel,
               count |-> c.count]
  <2>1. b = [head |-> b.head, tail |-> b.tail, sentinel |-> b.sentinel,
             count |-> b.count]
    BY LayoutFacts
  <2>. QED
    BY <1>1, <1>4, <1>8, <1>9, <2>1 DEF Longer
<1>11. /\ c.tail \in Nat /\ c.sentinel \in Nat /\ c.tail <= c.sentinel
       /\ c.sentinel <= Size /\ c.tail <= Size
       /\ k > 0 => c.sentinel = b.sentinel
  <2>1. PICK t \in Nat, s \in Nat : t = b.tail /\ s = b.sentinel
    BY <1>4
  <2>2. /\ t + n <= Size /\ s <= Size /\ c.tail = t + n
        /\ c.sentinel = IF t + n > s THEN t + n ELSE s
        /\ k > 0 => t + n < s
    BY <1>3, <1>4, <1>10, <2>1
  <2>. QED
    BY <2>1, <2>2, LogConstants
<1>12. c \in Buffers
  <2>1. /\ c.head \in 0..(Size - 1) /\ c.tail \in 0..Size /\ c.sentinel \in 0..Size
        /\ c.count \in Nat
    BY <1>4, <1>8, <1>10, <1>11, LogConstants
  <2>2. c = [head |-> c.head, tail |-> c.tail, sentinel |-> c.sentinel,
             count |-> c.count]
    BY <1>10
  <2>. QED
    BY <2>1, <2>2 DEF Buffers
<1>13. FirstPart(c, p, k)
  <2>1. FirstPart(b, q, k)
    BY DEF Layout
  <2>2. k > 0 => c.sentinel = b.sentinel
    BY <1>3, <1>4, <1>10
  <2>3. \A i \in 1..k : k > 0 /\ p[i] = q[i]
    BY <1>4, <1>8
  <2>. QED
    BY <1>10, <2>1, <2>2, <2>3 DEF FirstPart
<1>14. SecondPart(c, p, k)
  <2>1. ASSUME NEW i \in 1..Len(p), i > k
        PROVE  EndOf(p[i]) <= c.tail /\ Len(p) - i + 1 <= c.tail - p[i].at
    <3>1. CASE i = Len(q) + 1
      BY <1>2, <1>4, <1>6, <1>8, <1>10, <3>1
    <3>2. CASE i # Len(q) + 1
      <4>1. i \in 1..Len(q) /\ p[i] = q[i]
        BY <1>4, <1>8, <3>2
      <4>2. EndOf(q[i]) <= b.tail /\ Len(q) - i + 1 <= b.tail - q[i].at
        BY <2>1, <4>1 DEF Layout, SecondPart
      <4>3. q[i].at \in Nat /\ EndOf(q[i]) \in Nat
        BY <1>4, <4>1, RecordsFacts
      <4>4. PICK l \in Nat, a \in Nat, e \in Nat, t \in Nat :
              l = Len(q) /\ a = q[i].at /\ e = EndOf(q[i]) /\ t = b.tail
        BY <1>4, <4>3
      <4>5. e <= t /\ l - i + 1 <= t - a /\ i \in Int
        BY <4>1, <4>2, <4>4
      <4>6. e <= t + n /\ (l + 1) - i + 1 <= (t + n) - a
        BY <1>2, <4>5, EndsBefore
      <4>. QED
        BY <1>8, <1>10, <4>1, <4>4, <4>6
    <3>. QED
      BY <3>1, <3>2
  <2>. QED
    BY <2>1 DEF SecondPart
<1>15. InOrder(p, k)
  <2>1. InOrder(q, k) /\ SecondPart(b, q, k)
    BY DEF Layout
  <2>2. ASSUME NEW i \in 1..Len(p), NEW j \in 1..Len(p), i < j, j <= k \/ k < i
        PROVE  EndOf(p[i]) <= p[j].at
    <3>1. i \in 1..Len(q) /\ p[i] = q[i]
      BY <1>4, <1>8, <2>2
    <3>2. CASE j = Len(q) + 1
      <4>1. i > k /\ p[j].at = b.tail
        BY <1>4, <1>6, <1>8, <2>2, <3>2
      <4>. QED
        BY <2>1, <3>1, <4>1 DEF SecondPart
    <3>3. CASE j # Len(q) + 1
      <4>1. j \in 1..Len(q) /\ p[j] = q[j]
        BY <1>4, <1>8, <3>3
      <4>. QED
        BY <2>1, <2>2, <3>1, <4>1 DEF InOrder
    <3>. QED
      BY <3>2, <3>3
  <2>. QED
    BY <2>2 DEF InOrder
<1>16. Adjacent(p, k)
  <2>1. Adjacent(q, k) /\ Ends(b, q, k)
    BY DEF Layout
  <2>2. ASSUME NEW i \in 1..Len(p), i < Len(p), i # k
        PROVE  p[i + 1].at = EndOf(p[i])
    <3>1. i \in 1..Len(q) /\ p[i] = q[i]
      BY <1>4, <1>8, <2>2
    <3>2. CASE i = Len(q)
      <4>1. k < Len(q) /\ p[i + 1].at = b.tail
        BY <1>4, <1>6, <1>8, <2>2, <3>2
      <4>. QED
        BY <2>1, <3>1, <3>2, <4>1 DEF Ends
    <3>3. CASE i # Len(q)
      <4>1. i < Len(q) /\ i + 1 \in 1..Len(q) /\ p[i + 1] = q[i + 1]
        BY <1>4, <1>8, <3>1, <3>3
      <4>. QED
        BY <2>1, <2>2, <3>1, <4>1 DEF Adjacent
    <3>. QED
      BY <3>2, <3>3
  <2>. QED
    BY <2>2 DEF Adjacent
<1>17. Ends(c, p, k)
  <2>1. Ends(b, q, k)
    BY DEF Layout
  <2>2. p[1].at = c.head
    <3>1. CASE q = <<>>
      <4>1. Len(q) = 0 /\ b.head = 0 /\ b.tail = 0
        BY <2>1, <3>1 DEF Ends
      <4>. QED
        BY <1>6, <1>8, <1>10, <4>1
    <3>2. CASE q # <<>>
      <4>1. 1 \in 1..Len(q) /\ q[1].at = b.head
        BY <1>4, <2>1, <3>2 DEF Ends
      <4>. QED
        BY <1>8, <1>10, <4>1
    <3>. QED
      BY <3>1, <3>2
  <2>3. k > 0 => EndOf(p[k]) = c.sentinel /\ c.tail <= c.head
    <3>1. k > 0 => k \in 1..Len(q) /\ p[k] = q[k]
      BY <1>4, <1>8
    <3>. QED
      BY <1>3, <1>10, <1>11, <2>1, <3>1 DEF Ends
  <2>4. k > 0 => p[k + 1].at = 0
    <3>1. CASE k = Len(q)
      <4>1. k > 0 => b.tail = 0
        BY <2>1, <3>1 DEF Ends
      <4>. QED
        BY <1>6, <1>8, <3>1, <4>1
    <3>2. CASE k # Len(q)
      <4>1. k < Len(q) /\ k + 1 \in 1..Len(q) /\ p[k + 1] = q[k + 1]
        BY <1>4, <1>8, <3>2
      <4>. QED
        BY <2>1, <4>1 DEF Ends
    <3>. QED
      BY <3>1, <3>2
  <2>5. EndOf(p[Len(p)]) = c.tail /\ k < Len(p)
    BY <1>4, <1>6, <1>8, <1>10
  <2>. QED
    BY <1>4, <1>8, <1>11, <2>2, <2>3, <2>4, <2>5 DEF Ends
<1>18. c.count = Len(p) /\ k \in 0..Len(p)
  BY <1>4, <1>8, <1>10
<1>. QED
  BY <1>5, <1>7, <1>8, <1>9, <1>12, <1>13, <1>14, <1>15, <1>16, <1>17, <1>18 DEF Layout

\* The new record overwrites none of those that are kept.
LEMMA AppendedHolds ==
    ASSUME NEW b, NEW q, NEW k, Layout(b, q, k), Holds(data, q), NEW log \in Fitting,
           FreeSpaces(b) >= Bytes(log)
    PROVE  Holds(Place(log, b.tail), Append(q, Record(b.tail, log)))
<1>1. PICK n \in Nat : n = Bytes(log)
  BY FittingFacts
<1>2. n > 0 /\ n <= Size /\ n = HeaderLen + log.len
  BY <1>1, FittingFacts
<1>3. /\ b.tail + n <= Size /\ b.tail < Size
      /\ k > 0 => b.tail + n <= b.head
  BY <1>1, <1>2, SpaceBehindTail
<1>4. /\ b.head \in Nat /\ b.tail \in Nat /\ b.sentinel \in Nat /\ b.sentinel <= Size
      /\ k \in Nat /\ Len(q) \in Nat /\ k <= Len(q) /\ q \in Seq(Records)
      /\ b.tail <= Size
  BY LayoutFacts
<1>5. PICK x : x = Record(b.tail, log)
  OBVIOUS
<1>6. x.at = b.tail /\ x.log = log
  BY <1>5 DEF Record
<1>7. PICK p : p = Append(q, x)
  OBVIOUS
<1>8. x \in Records
  <2>1. b.tail \in 0..(Size - 1) /\ log \in Messages
    BY <1>3, <1>4, FittingFacts, LogConstants
  <2>. QED
    BY <1>5, <2>1 DEF Records, Record
<1>9. /\ Len(p) = Len(q) + 1 /\ p[Len(q) + 1] = x
      /\ \A i \in 1..Len(q) : p[i] = q[i]
  BY <1>4, <1>7, <1>8, AppendFacts
<1>10. PICK D : D = Place(log, b.tail)
  OBVIOUS
<1>11. \A o \in 0..(Size - 1) :
         D[o] = IF b.tail <= o /\ o < b.tail + n
                THEN [log |-> log, pos |-> o - b.tail] ELSE data[o]
  <2>1. b.tail + HeaderLen + log.len = b.tail + n
    BY <1>2, <1>4, FittingFacts, LogConstants
  <2>. QED
    BY <1>10, <2>1 DEF Place
<1>12. ASSUME NEW i \in 1..Len(p), NEW j \in 0..(HeaderLen + p[i].log.len - 1)
       PROVE  D[p[i].at + j] = [log |-> p[i].log, pos |-> j]
  <2>1. CASE i = Len(q) + 1
    <3>1. p[i].at = b.tail /\ p[i].log = log
      BY <1>6, <1>9, <2>1
    <3>2. j \in 0..(n - 1)
      <4>1. j \in 0..(HeaderLen + log.len - 1)
        BY <1>12, <3>1
      <4>2. PICK l \in Nat : l = log.len
        BY FittingFacts
      <4>3. j \in 0..(HeaderLen + l - 1) /\ n = HeaderLen + l
        BY <1>2, <4>1, <4>2
      <4>. QED
        BY <4>3, LogConstants
    <3>3. PICK o : o = b.tail + j
      OBVIOUS
    <3>4. o \in 0..(Size - 1) /\ b.tail <= o /\ o < b.tail + n /\ o - b.tail = j
      <4>1. PICK t \in Nat : t = b.tail
        BY <1>4
      <4>2. o = t + j /\ t + n <= Size /\ j \in Nat /\ j < n
        BY <1>3, <3>2, <3>3, <4>1
      <4>3. o \in 0..(Size - 1) /\ t <= o /\ o < t + n /\ o - t = j
        BY <4>2, LogConstants
      <4>. QED
        BY <4>1, <4>3
    <3>. QED
      BY <1>11, <3>1, <3>3, <3>4
  <2>2. CASE i # Len(q) + 1
    <3>1. i \in 1..Len(q) /\ p[i] = q[i]
      BY <1>4, <1>9, <2>2
    <3>2. /\ q[i].at \in Nat /\ q[i].log.len \in Nat /\ EndOf(q[i]) \in Nat
      BY <1>4, <3>1, RecordsFacts
    <3>3. PICK a \in Nat, l \in Nat, e \in Nat :
            a = q[i].at /\ l = q[i].log.len /\ e = EndOf(q[i])
      BY <3>2
    <3>4. e = a + HeaderLen + l
      BY <3>3 DEF EndOf
    <3>5. j \in Nat /\ a + j < e
      <4>1. j \in 0..(HeaderLen + l - 1)
        BY <1>12, <3>1, <3>3
      <4>. QED
        BY <3>4, <4>1, LogConstants
    <3>6. i <= k => b.head <= a /\ e <= b.sentinel
      <4>1. FirstPart(b, q, k)
        BY DEF Layout
      <4>2. i <= k => i \in 1..k
        BY <1>4
      <4>. QED
        BY <3>3, <4>1, <4>2 DEF FirstPart
    <3>7. ~(i <= k) => e <= b.tail
      <4>1. SecondPart(b, q, k)
        BY DEF Layout
      <4>2. ~(i <= k) => i > k
        BY <1>4
      <4>. QED
        BY <3>1, <3>3, <4>1, <4>2 DEF SecondPart
    <3>8. PICK o \in Nat : o = a + j
      BY <3>5
    <3>9. ~(b.tail <= o /\ o < b.tail + n) /\ o < Size
      <4>1. CASE i <= k
        <5>1. k > 0
          BY <1>4, <4>1
        <5>2. PICK t \in Nat, h \in Nat, s \in Nat :
                t = b.tail /\ h = b.head /\ s = b.sentinel
          BY <1>4
        <5>3. t + n <= h /\ h <= a /\ e <= s /\ s <= Size /\ o = a + j /\ o < e
              /\ j \in Nat
          BY <1>3, <1>4, <3>5, <3>6, <3>8, <4>1, <5>1, <5>2
        <5>4. ~(t <= o /\ o < t + n) /\ o < Size
          BY <5>3, LiesBehind
        <5>. QED
          BY <5>2, <5>4
      <4>2. CASE ~(i <= k)
        <5>1. PICK t \in Nat : t = b.tail
          BY <1>4
        <5>2. e <= t /\ t <= Size /\ o < e
          BY <1>4, <3>5, <3>7, <3>8, <4>2, <5>1
        <5>3. ~(t <= o /\ o < t + n) /\ o < Size
          BY <5>2, LiesBefore
        <5>. QED
          BY <5>1, <5>3
      <4>. QED
        BY <4>1, <4>2
    <3>10. o \in 0..(Size - 1)
      BY <3>9, LogConstants
    <3>11. D[o] = data[o]
      BY <1>11, <3>9, <3>10
    <3>12. data[q[i].at + j] = [log |-> q[i].log, pos |-> j]
      <4>1. j \in 0..(HeaderLen + q[i].log.len - 1)
        BY <1>12, <3>1
      <4>. QED
        BY <3>1, <4>1 DEF Holds
    <3>. QED
      BY <3>1, <3>3, <3>8, <3>11, <3>12
  <2>. QED
    BY <2>1, <2>2
<1>. QED
  BY <1>5, <1>7, <1>10, <1>12 DEF Holds

----------------------------------------------------------------------------
(* What the reader will find: Offsets and Contents of any buffer b and     *)
(* memory D.                                                               *)

IsWalk(g, b, D) ==
    g = [i \in 1..b.count |->
            IF i = 1 THEN b.head
            ELSE NextHeader([b EXCEPT !.head =
                                g[i - 1] + HeaderLen + D[g[i - 1]].log.len])]

Walk(b, D) == CHOOSE g : IsWalk(g, b, D)

LogsOf(r) == [i \in 1..Len(r) |-> r[i].log]

\* One step of the reader.
LEMMA WalkStep ==
    ASSUME NEW b, NEW D, NEW r, NEW k, Layout(b, r, k), Holds(D, r),
           NEW i \in 1..Len(r), i # 1, NEW o, o = r[i - 1].at
    PROVE  NextHeader([b EXCEPT !.head = o + HeaderLen + D[o].log.len]) = r[i].at
<1>1. r \in Seq(Records) /\ Len(r) \in Nat
  BY LayoutFacts
<1>2. i - 1 \in 1..Len(r) /\ i - 1 < Len(r) /\ (i - 1) + 1 = i
  BY <1>1
<1>3. PICK j : j = i - 1
  OBVIOUS
<1>4. j \in 1..Len(r) /\ j < Len(r) /\ j + 1 = i
  BY <1>2, <1>3
<1>5. D[o].log = r[j].log /\ o = r[j].at
  BY <1>1, <1>3, <1>4, HeadByte
<1>6. PICK c : c = [b EXCEPT !.head = o + HeaderLen + D[o].log.len]
  OBVIOUS
<1>7. c.head = EndOf(r[j]) /\ c.sentinel = b.sentinel
  <2>1. b = [head |-> b.head, tail |-> b.tail, sentinel |-> b.sentinel,
             count |-> b.count]
    BY LayoutFacts
  <2>2. o + HeaderLen + D[o].log.len = EndOf(r[j])
    BY <1>5 DEF EndOf
  <2>. QED
    BY <1>6, <2>1, <2>2
<1>8. NextHeader(c) = r[j + 1].at
  BY <1>4, <1>7, NextRecord
<1>. QED
  BY <1>4, <1>6, <1>8

LEMMA Walked ==
    ASSUME NEW b, NEW D, NEW r, NEW k, Layout(b, r, k), Holds(D, r)
    PROVE  \A i \in 1..Len(r) : Walk(b, D)[i] = r[i].at
<1> DEFINE n == Len(r)
           w == [i \in 1..n |-> r[i].at]
<1>1. r \in Seq(Records) /\ n \in Nat /\ b.count = n
  BY LayoutFacts
<1>2. ASSUME NEW i \in 1..n
      PROVE  w[i] = IF i = 1 THEN b.head
                    ELSE NextHeader([b EXCEPT !.head =
                                w[i - 1] + HeaderLen + D[w[i - 1]].log.len])
  <2>1. CASE i = 1
    <3>1. r # <<>> /\ r[1].at = b.head
      BY <1>1, <2>1 DEF Layout, Ends
    <3>. QED
      BY <2>1, <3>1
  <2>2. CASE i # 1
    <3>1. w[i - 1] = r[i - 1].at /\ w[i] = r[i].at
      BY <1>1, <2>2
    <3>. HIDE DEF w
    <3>2. NextHeader([b EXCEPT !.head = w[i - 1] + HeaderLen + D[w[i - 1]].log.len])
            = r[i].at
      BY <2>2, <3>1, WalkStep
    <3>. QED
      BY <2>2, <3>1, <3>2
  <2>. QED
    BY <2>1, <2>2
<1>3. IsWalk(w, b, D)
  <2>1. w = [i \in 1..n |-> w[i]]
    OBVIOUS
  <2>. HIDE DEF w
  <2>. QED
    BY <1>1, <1>2, <2>1 DEF IsWalk
<1>4. PICK g : g = Walk(b, D)
  OBVIOUS
<1>5. IsWalk(g, b, D)
  BY <1>3, <1>4 DEF Walk
<1>6. \A i \in 1..n : g[i] = IF i = 1 THEN b.head
                             ELSE NextHeader([b EXCEPT !.head =
                                   g[i - 1] + HeaderLen + D[g[i - 1]].log.len])
  BY <1>1, <1>5 DEF IsWalk
<1> DEFINE Bad == {i \in 1..n : g[i] # r[i].at}
<1>7. Bad = {}
  <2>. SUFFICES ASSUME Bad # {} PROVE FALSE
    OBVIOUS
  <2>1. PICK i \in Bad : \A j \in Bad : i <= j
    <3>. Bad \in SUBSET Nat
      OBVIOUS
    <3>. HIDE DEF Bad
    <3>. QED BY LeastMember
  <2>2. i \in 1..n /\ g[i] # r[i].at
    OBVIOUS
  <2>3. CASE i = 1
    <3>1. r # <<>> /\ r[1].at = b.head
      BY <1>1, <2>2, <2>3 DEF Layout, Ends
    <3>. QED
      BY <1>6, <2>2, <2>3, <3>1
  <2>4. CASE i # 1
    <3>1. i - 1 \in 1..n /\ ~(i <= i - 1)
      BY <2>2, <2>4
    <3>2. g[i - 1] = r[i - 1].at
      <4>1. i - 1 \notin Bad
        <5>. HIDE DEF Bad
        <5>. QED BY <2>1, <3>1
      <4>. QED
        BY <3>1, <4>1
    <3>3. NextHeader([b EXCEPT !.head = g[i - 1] + HeaderLen + D[g[i - 1]].log.len])
            = r[i].at
      BY <2>2, <2>4, <3>2, WalkStep
    <3>. QED
      BY <1>6, <2>2, <2>4, <3>3
  <2>. QED
    BY <2>3, <2>4
<1>. QED
  BY <1>4, <1>7

LEMMA ContentsFound ==
    ASSUME NEW b, NEW D, NEW r, NEW k, Layout(b, r, k), Holds(D, r)
    PROVE  [i \in 1..b.count |-> D[Walk(b, D)[i]].log] = LogsOf(r)
<1>1. r \in Seq(Records) /\ b.count = Len(r)
  BY LayoutFacts
<1>2. \A i \in 1..Len(r) : D[Walk(b, D)[i]].log = r[i].log
  BY <1>1, Walked, HeadByte
<1>. QED
  BY <1>1, <1>2 DEF LogsOf

LEMMA ContentsNow ==
    ASSUME NEW r, NEW k, Layout(rb, r, k), Holds(data, r)
    PROVE  Contents = LogsOf(r) /\ \A i \in 1..Len(r) : Offsets[i] = r[i].at
<1>1. Offsets = Walk(rb, data)
  BY DEF Offsets, Walk, IsWalk
<1>. QED
  BY <1>1, Walked, ContentsFound DEF Contents

LEMMA ContentsThen ==
    ASSUME NEW r, NEW k, Layout(rb', r, k), Holds(data', r)
    PROVE  Contents' = LogsOf(r)
<1>1. Offsets' = Walk(rb', data')
  BY DEF Offsets, Walk, IsWalk, NextHeader
<1>. QED
  BY <1>1, ContentsFound DEF Contents

----------------------------------------------------------------------------
(* The steps.                                                              *)

LEMMA Captured ==
    ASSUME NEW r, NEW k, Layout(rb, r, k), Holds(data, r), NEW log \in Messages,
           CaptureLog(log)
    PROVE  /\ log \in Fitting
           /\ \E q, m, lost, at : /\ Suffix(q, r, lost)
                                  /\ Layout(rb', Append(q, Record(at, log)), m)
                                  /\ Holds(data', Append(q, Record(at, log)))
<1>1. log \in Fitting
  BY DEF CaptureLog, Fitting
<1>2. PICK need : need = log.len + HeaderLen
  OBVIOUS
<1>3. need = Bytes(log) /\ need \in 0..Size /\ need \in Nat
  BY <1>1, <1>2, FittingFacts, LogConstants
<1>4. PICK b : b = MakeRoom(rb, need)
  OBVIOUS
<1>5. b \in Rests(r) /\ FreeSpaces(b) >= Bytes(log)
  BY <1>3, <1>4, MadeRoom
<1>6. PICK q, m, lost : Layout(b, q, m) /\ Suffix(q, r, lost)
  BY <1>5 DEF Rests
<1>7. Holds(data, q)
  BY <1>6, SuffixHolds
<1>8. data' = Place(log, b.tail) /\ rb' = Longer(b, log)
  <2>1. b.tail + HeaderLen + log.len = b.tail + Bytes(log)
    <3>1. PICK t \in Nat, l \in Nat : t = b.tail /\ l = log.len
      BY <1>1, <1>6, FittingFacts, LayoutFacts
    <3>2. t + HeaderLen + l = t + (HeaderLen + l)
      BY <3>1, LogConstants
    <3>. QED
      BY <3>1, <3>2 DEF Bytes
  <2>2. AppendLog(b, log)
    BY <1>2, <1>4 DEF CaptureLog
  <2>. QED
    BY <2>1, <2>2 DEF AppendLog, Longer
<1>9. Layout(rb', Append(q, Record(b.tail, log)), m)
  BY <1>1, <1>5, <1>6, <1>8, AppendedLayout
<1>10. Holds(data', Append(q, Record(b.tail, log)))
  BY <1>1, <1>5, <1>6, <1>7, <1>8, AppendedHolds
<1>. QED
  BY <1>1, <1>6, <1>9, <1>10

LEMMA ReadOne ==
    ASSUME NEW r, NEW k, Layout(rb, r, k), Holds(data, r), GetMsg
    PROVE  /\ r # <<>> /\ Layout(rb', Tail(r), Fewer(k)) /\ Holds(data', Tail(r))
<1>1. rb.count = Len(r) /\ r \in Seq(Records)
  BY LayoutFacts
<1>2. r # <<>> /\ rb' = Advance(rb) /\ data' = data
  BY <1>1 DEF GetMsg
<1>. QED
  BY <1>1, <1>2, Advanced, HoldsTail

LEMMA InitRing == Init => RingInv
<1>. SUFFICES ASSUME Init PROVE RingInv
  OBVIOUS
<1>1. rb = Empty /\ DOMAIN data = 0..(Size - 1) /\ filter_level \in Levels
  BY DEF Init
<1>. QED
  BY <1>1, EmptyLayout DEF RingInv

LEMMA NextRing == RingInv /\ [Next]_vars => RingInv'
<1>. SUFFICES ASSUME RingInv, [Next]_vars PROVE RingInv'
  OBVIOUS
<1>1. DOMAIN data = 0..(Size - 1) /\ filter_level \in Levels
  BY DEF RingInv
<1>2. PICK r, k : Layout(rb, r, k) /\ Holds(data, r)
  BY DEF RingInv
<1>3. CASE \E log \in Messages : CaptureLog(log)
  <2>1. PICK log \in Messages : CaptureLog(log)
    BY <1>3
  <2>2. PICK q, m, lost, at : /\ Layout(rb', Append(q, Record(at, log)), m)
                              /\ Holds(data', Append(q, Record(at, log)))
    BY <1>2, <2>1, Captured
  <2>3. DOMAIN data' = 0..(Size - 1) /\ filter_level' = filter_level
    BY <2>1 DEF CaptureLog, AppendLog, Place
  <2>. QED
    BY <1>1, <2>2, <2>3 DEF RingInv
<1>4. CASE GetMsg
  <2>1. Layout(rb', Tail(r), Fewer(k)) /\ Holds(data', Tail(r))
    BY <1>2, <1>4, ReadOne
  <2>2. data' = data /\ filter_level' = filter_level
    BY <1>4 DEF GetMsg
  <2>. QED
    BY <1>1, <2>1, <2>2 DEF RingInv
<1>5. CASE \E level \in Levels : SetFilterLevel(level)
  BY <1>1, <1>2, <1>5 DEF SetFilterLevel, RingInv
<1>6. CASE UNCHANGED vars
  BY <1>1, <1>2, <1>6 DEF vars, RingInv
<1>. QED
  BY <1>3, <1>4, <1>5, <1>6 DEF Next

LEMMA RingInvariant == Spec => []RingInv
<1>1. Init => RingInv
  BY InitRing
<1>2. RingInv /\ [Next]_vars => RingInv'
  BY NextRing
<1>. QED
  BY <1>1, <1>2, PTL DEF Spec

----------------------------------------------------------------------------
(* The theorems.                                                           *)

\* The pointers stay inside the buffer, and there are never more records than
\* the buffer has bytes.
THEOREM TypeSafe == Spec => []TypeOK
<1>1. RingInv => TypeOK
  <2>. SUFFICES ASSUME RingInv PROVE TypeOK
    OBVIOUS
  <2>1. DOMAIN data = 0..(Size - 1) /\ filter_level \in Levels
    BY DEF RingInv
  <2>2. PICK r, k : Layout(rb, r, k)
    BY DEF RingInv
  <2>3. rb \in Buffers
    BY <2>2 DEF Layout
  <2>4. rb.count \in 0..Size
    BY <2>2, CountBounded, LayoutFacts, LogConstants
  <2>. QED
    BY <2>1, <2>3, <2>4 DEF TypeOK, Buffers
<1>. QED
  BY <1>1, RingInvariant, PTL

\* A record that the reader has yet to come to is never overwritten, however
\* the writer turns round, and a read of a buffer that holds records succeeds.
THEOREM RecordsSafe == Spec => []RecordsReadable
<1>1. RingInv => RecordsReadable
  <2>. SUFFICES ASSUME RingInv PROVE RecordsReadable
    OBVIOUS
  <2>1. PICK r, k : Layout(rb, r, k) /\ Holds(data, r)
    BY DEF RingInv
  <2>2. r \in Seq(Records) /\ rb.count = Len(r) /\ Len(r) \in Nat
    BY <2>1, LayoutFacts
  <2>3. ASSUME NEW i \in 1..rb.count, NEW o, o = Offsets[i]
        PROVE  /\ o + HeaderLen + data[o].log.len <= Size
               /\ \A p \in 0..(HeaderLen + data[o].log.len - 1) :
                     data[o + p] = [log |-> data[o].log, pos |-> p]
    <3>1. i \in 1..Len(r) /\ o = r[i].at
      BY <2>1, <2>2, <2>3, ContentsNow
    <3>2. data[o].log = r[i].log
      BY <2>1, <2>2, <3>1, HeadByte
    <3>3. o + HeaderLen + data[o].log.len = EndOf(r[i])
      BY <3>1, <3>2 DEF EndOf
    <3>4. EndOf(r[i]) <= Size
      <4>1. /\ rb.tail \in Nat /\ rb.tail <= Size /\ rb.sentinel \in Nat
            /\ rb.sentinel <= Size /\ k \in Nat
        BY <2>1, LayoutFacts
      <4>2. i <= k => i \in 1..k
        BY <4>1
      <4>3. ~(i <= k) => i > k
        BY <4>1
      <4>4. i <= k => EndOf(r[i]) <= rb.sentinel
        BY <2>1, <4>2 DEF Layout, FirstPart
      <4>5. ~(i <= k) => EndOf(r[i]) <= rb.tail
        BY <2>1, <3>1, <4>3 DEF Layout, SecondPart
      <4>6. EndOf(r[i]) \in Nat
        BY <2>2, <3>1, RecordsFacts
      <4>. QED
        BY <4>1, <4>4, <4>5, <4>6, LogConstants
    <3>. QED
      BY <2>1, <3>1, <3>2, <3>3, <3>4 DEF Holds
  <2>4. RecordsIntact
    BY <2>3 DEF RecordsIntact
  <2>5. ReadSucceeds
    <3>1. rb.count > 0 => r # <<>>
      BY <2>2
    <3>. QED
      BY <2>1, <3>1, TailAndHead DEF ReadSucceeds
  <2>. QED
    BY <2>4, <2>5 DEF RecordsReadable
<1>. QED
  BY <1>1, RingInvariant, PTL

LEMMA LogsFacts ==
    ASSUME NEW r \in Seq(Records)
    PROVE  /\ LogsOf(r) \in Seq(Messages) /\ Len(LogsOf(r)) = Len(r)
           /\ \A i \in 1..Len(r) : LogsOf(r)[i] = r[i].log
<1>1. \A i \in 1..Len(r) : r[i].log \in Messages
  BY RecordsFacts
<1>2. Len(r) \in Nat
  OBVIOUS
<1>. QED
  BY <1>1, <1>2 DEF LogsOf

LEMMA LogsTail ==
    ASSUME NEW r \in Seq(Records), r # <<>>
    PROVE  LogsOf(Tail(r)) = Tail(LogsOf(r)) /\ LogsOf(r) # <<>>
<1>1. PICK q : q = Tail(r)
  OBVIOUS
<1>2. /\ q \in Seq(Records) /\ Len(q) = Len(r) - 1 /\ Len(r) \in Nat /\ Len(r) > 0
      /\ \A i \in 1..Len(q) : i + 1 \in 1..Len(r) /\ q[i] = r[i + 1]
  BY <1>1, TailFacts
<1>3. PICK s, u : s = LogsOf(r) /\ u = LogsOf(q)
  OBVIOUS
<1>4. /\ s \in Seq(Messages) /\ Len(s) = Len(r) /\ \A i \in 1..Len(r) : s[i] = r[i].log
      /\ u \in Seq(Messages) /\ Len(u) = Len(q) /\ \A i \in 1..Len(q) : u[i] = q[i].log
  BY <1>2, <1>3, LogsFacts
<1>5. s # <<>>
  BY <1>2, <1>4
<1>6. PICK t : t = Tail(s)
  OBVIOUS
<1>7. /\ t \in Seq(Messages) /\ Len(t) = Len(s) - 1
      /\ \A i \in 1..Len(t) : t[i] = s[i + 1]
  BY <1>4, <1>5, <1>6, TailFacts
<1>8. Len(u) = Len(t) /\ \A i \in 1..Len(u) : u[i] = t[i]
  BY <1>2, <1>4, <1>7
<1>9. u = t
  BY <1>4, <1>7, <1>8, SeqEqual
<1>. QED
  BY <1>1, <1>3, <1>5, <1>6, <1>9

LEMMA LogsAppended ==
    ASSUME NEW r \in Seq(Records), NEW q, NEW lost, Suffix(q, r, lost),
           NEW x \in Records
    PROVE  /\ lost \in 0..Len(LogsOf(r))
           /\ LogsOf(Append(q, x))
                = Append(SubSeq(LogsOf(r), lost + 1, Len(LogsOf(r))), x.log)
<1>1. /\ q \in Seq(Records) /\ lost \in 0..Len(r) /\ Len(q) = Len(r) - lost
      /\ \A i \in 1..Len(q) : i + lost \in 1..Len(r) /\ q[i] = r[i + lost]
      /\ Len(r) \in Nat /\ Len(q) \in Nat
  BY DEF Suffix
<1>2. PICK s, p : s = LogsOf(r) /\ p = Append(q, x)
  OBVIOUS
<1>3. /\ p \in Seq(Records) /\ Len(p) = Len(q) + 1 /\ p[Len(q) + 1] = x
      /\ \A i \in 1..Len(q) : p[i] = q[i]
  BY <1>1, <1>2, AppendFacts
<1>4. PICK u : u = LogsOf(p)
  OBVIOUS
<1>5. /\ s \in Seq(Messages) /\ Len(s) = Len(r) /\ \A i \in 1..Len(r) : s[i] = r[i].log
      /\ u \in Seq(Messages) /\ Len(u) = Len(p) /\ \A i \in 1..Len(p) : u[i] = p[i].log
  BY <1>2, <1>3, <1>4, LogsFacts
<1>6. PICK t : t = SubSeq(s, lost + 1, Len(s))
  OBVIOUS
<1>7. /\ t \in Seq(Messages) /\ Len(t) = Len(q)
      /\ \A i \in 1..Len(q) : t[i] = s[i + lost]
  <2>1. lost + 1 \in 1..(Len(s) + 1) /\ Len(s) \in (lost + 1 - 1)..Len(s)
    BY <1>1, <1>5
  <2>. QED
    BY <1>1, <1>5, <1>6, <2>1, SubSeqProperties
<1>8. x.log \in Messages
  BY RecordFacts
<1>9. PICK v : v = Append(t, x.log)
  OBVIOUS
<1>10. /\ v \in Seq(Messages) /\ Len(v) = Len(q) + 1 /\ v[Len(q) + 1] = x.log
       /\ \A i \in 1..Len(q) : v[i] = t[i]
  BY <1>7, <1>8, <1>9, AppendFacts
<1>11. ASSUME NEW i \in 1..(Len(q) + 1) PROVE u[i] = v[i]
  <2>1. CASE i = Len(q) + 1
    BY <1>1, <1>3, <1>5, <1>10, <2>1
  <2>2. CASE i # Len(q) + 1
    <3>1. i \in 1..Len(q) /\ i \in 1..Len(p)
      BY <1>1, <1>3, <2>2
    <3>2. u[i] = q[i].log /\ v[i] = s[i + lost]
      BY <1>3, <1>5, <1>7, <1>10, <3>1
    <3>3. s[i + lost] = q[i].log
      BY <1>1, <1>5, <3>1
    <3>. QED
      BY <3>2, <3>3
  <2>. QED
    BY <2>1, <2>2
<1>12. u = v
  BY <1>3, <1>5, <1>10, <1>11, SeqEqual
<1>. QED
  BY <1>1, <1>2, <1>4, <1>5, <1>6, <1>9, <1>12

\* The ring is the queue of AbstractLog: what is read is what was written, in
\* that order and once, and a line that is written pushes out the oldest only.
THEOREM Refinement == Spec => ImplementsLog
<1>1. Init => Abstract!Init
  <2>. SUFFICES ASSUME Init PROVE Contents = <<>>
    BY DEF Abstract!Init
  <2>1. rb = Empty
    BY DEF Init
  <2>2. Contents = LogsOf(<<>>)
    BY <2>1, EmptyLayout, ContentsNow
  <2>3. <<>> \in Seq(Records) /\ Len(<<>>) = 0
    OBVIOUS
  <2>4. PICK s : s = LogsOf(<<>>)
    OBVIOUS
  <2>5. s \in Seq(Messages) /\ Len(s) = 0
    BY <2>3, <2>4, LogsFacts
  <2>6. s = <<>>
    BY <2>5, EmptySeq
  <2>. QED
    BY <2>2, <2>4, <2>6
<1>2. RingInv /\ [Next]_vars => [Abstract!Next]_Contents
  <2>. SUFFICES ASSUME RingInv, [Next]_vars
                PROVE  Abstract!Next \/ UNCHANGED Contents
    OBVIOUS
  <2>1. PICK r, k : Layout(rb, r, k) /\ Holds(data, r)
    BY DEF RingInv
  <2>2. r \in Seq(Records) /\ Contents = LogsOf(r)
    BY <2>1, LayoutFacts, ContentsNow
  <2>3. CASE \E log \in Messages : CaptureLog(log)
    <3>1. PICK log \in Messages : CaptureLog(log)
      BY <2>3
    <3>2. log \in Fitting
      BY <2>1, <3>1, Captured
    <3>3. PICK q, m, lost, at : /\ Suffix(q, r, lost)
                                /\ Layout(rb', Append(q, Record(at, log)), m)
                                /\ Holds(data', Append(q, Record(at, log)))
      BY <2>1, <3>1, Captured
    <3>4. Contents' = LogsOf(Append(q, Record(at, log)))
      BY <3>3, ContentsThen
    <3>5. Record(at, log) \in Records /\ Record(at, log).log = log
      <4>1. PICK p, x : p = Append(q, x) /\ x = Record(at, log)
        OBVIOUS
      <4>2. q \in Seq(Records) /\ p \in Seq(Records)
        BY <3>3, <4>1 DEF Suffix, Layout
      <4>3. Len(q) + 1 \in 1..Len(p) /\ p[Len(q) + 1] = x
        BY <4>1, <4>2
      <4>. QED
        BY <4>1, <4>2, <4>3 DEF Record
    <3>6. /\ lost \in 0..Len(Contents)
          /\ Contents' = Append(SubSeq(Contents, lost + 1, Len(Contents)), log)
      BY <2>2, <3>3, <3>4, <3>5, LogsAppended
    <3>7. Abstract!Write(log)
      BY <3>6 DEF Abstract!Write
    <3>. QED
      BY <3>2, <3>7 DEF Abstract!Next
  <2>4. CASE GetMsg
    <3>1. r # <<>> /\ Layout(rb', Tail(r), Fewer(k)) /\ Holds(data', Tail(r))
      BY <2>1, <2>4, ReadOne
    <3>2. Contents' = LogsOf(Tail(r))
      BY <3>1, ContentsThen
    <3>3. Abstract!Read
      BY <2>2, <3>1, <3>2, LogsTail DEF Abstract!Read
    <3>. QED
      BY <3>3 DEF Abstract!Next
  <2>5. CASE \E level \in Levels : SetFilterLevel(level)
    <3>1. rb' = rb /\ data' = data
      BY <2>5 DEF SetFilterLevel
    <3>. QED
      BY <2>1, <2>2, <3>1, ContentsThen
  <2>6. CASE UNCHANGED vars
    <3>1. rb' = rb /\ data' = data
      BY <2>6 DEF vars
    <3>. QED
      BY <2>1, <2>2, <3>1, ContentsThen
  <2>. QED
    BY <2>3, <2>4, <2>5, <2>6 DEF Next
<1>3. Spec => Abstract!Spec
  BY <1>1, <1>2, RingInvariant, PTL DEF Spec, Abstract!Spec
<1>. QED
  BY <1>3 DEF ImplementsLog
=============================================================================
