-------------------------- MODULE SemaphoreProofs --------------------------
(***************************************************************************)
(* Proofs, for any set of threads, any initial count and any bound on the  *)
(* posts, of what MCSemaphore checks for three threads: the invariants of  *)
(* Semaphore, its order of service, and that each of its steps is a step   *)
(* of AbstractSemaphore or changes nothing there.  And of what             *)
(* MCSemaphorePool checks for SemaphorePool, for blocks of any size and    *)
(* any number of blocks: the counts agree with what is out, no block is    *)
(* given back while an item of it is used, and at exit all of them are.    *)
(***************************************************************************)
EXTENDS Semaphore, SemaphorePool, CollectionLemmas

----------------------------------------------------------------------------
(* The inductive invariant.  WaitersConsistent is needed for the types: a  *)
(* thread that is told to leave must be in the queue, and wait_count stays *)
(* a natural number only if it counts the queue.  It is preserved because  *)
(* a thread that runs does not wait, which RunnerAwake adds.               *)

RunnerAwake == running # NoThread => co_status[running] = "ready"

IInv == /\ TypeOK
        /\ WaitersConsistent
        /\ RunnerAwake
        /\ NoLostWakeup
        /\ ResourcesConserved

\* The invariant holds of a semaphore just made.
LEMMA InitInv == Init => IInv
<1>. SUFFICES ASSUME Init PROVE IInv
  OBVIOUS
<1>. USE SemaphoreAssumption DEF Init
<1>1. TypeOK
  <2>1. wait_queue \in Seq(Threads)
    BY EmptySeq
  <2>2. /\ timer_set \in [Threads -> BOOLEAN]
        /\ cleanup \in [Threads -> BOOLEAN]
        /\ co_status \in [Threads -> {"ready", "waiting", "dead"}]
    BY ZenonT(20)
  <2>. QED
    BY <2>1, <2>2 DEF TypeOK
<1>2. WaitersConsistent
  <2>1. wait_count = Len(wait_queue)
    OBVIOUS
  <2>2. IsInjective(wait_queue) /\ Range(wait_queue) = {}
    BY DEF IsInjective, Range
  <2>3. \A t \in Threads : /\ ~timer_set[t] /\ ~cleanup[t]
                           /\ co_status[t] # "waiting"
    BY ZenonT(20)
  <2>. QED
    BY <2>1, <2>2, <2>3 DEF WaitersConsistent
<1>3. RunnerAwake /\ NoLostWakeup /\ ResourcesConserved
  BY DEF RunnerAwake, NoLostWakeup, ResourcesConserved
<1>. QED
  BY <1>1, <1>2, <1>3 DEF IInv

\* A waiting thread is found in the queue, and taking it out leaves the rest.
LEMMA WaiterLeaves ==
    ASSUME TypeOK, WaitersConsistent,
           NEW t \in Threads, co_status[t] = "waiting"
    PROVE  LET i == PositionOf(t)
               q == RemoveAt(wait_queue, i)
           IN  /\ i \in 1..Len(wait_queue)
               /\ q \in Seq(Threads)
               /\ Len(q) = Len(wait_queue) - 1
               /\ Len(wait_queue) \in Nat \ {0}
               /\ IsInjective(q)
               /\ Range(q) = Range(wait_queue) \ {t}
<1>1. wait_queue \in Seq(Threads) /\ IsInjective(wait_queue)
  BY DEF TypeOK, WaitersConsistent
<1>2. DOMAIN wait_queue = 1..Len(wait_queue) /\ Len(wait_queue) \in Nat
  BY <1>1, LenProperties
<1>3. t \in Range(wait_queue)
  BY DEF WaitersConsistent
<1>4. PositionOf(t) \in DOMAIN wait_queue /\ wait_queue[PositionOf(t)] = t
  BY <1>3 DEF PositionOf, Range
<1>5. PositionOf(t) \in 1..Len(wait_queue)
  BY <1>2, <1>4
<1>. HIDE DEF PositionOf
<1>6. /\ RemoveAt(wait_queue, PositionOf(t)) \in Seq(Threads)
      /\ Len(RemoveAt(wait_queue, PositionOf(t))) = Len(wait_queue) - 1
  BY <1>1, <1>5, QueueRemoveAt
<1>7. /\ IsInjective(RemoveAt(wait_queue, PositionOf(t)))
      /\ Range(RemoveAt(wait_queue, PositionOf(t))) = Range(wait_queue) \ {t}
  BY <1>1, <1>4, <1>5, QueueLeft
<1>. QED
  BY <1>2, <1>5, <1>6, <1>7

\* The oldest waiter is a waiting thread, and taking it leaves the rest.
LEMMA OldestLeaves ==
    ASSUME TypeOK, WaitersConsistent, wait_queue # <<>>
    PROVE  /\ Head(wait_queue) \in Threads
           /\ co_status[Head(wait_queue)] = "waiting"
           /\ Tail(wait_queue) \in Seq(Threads)
           /\ Len(Tail(wait_queue)) = Len(wait_queue) - 1
           /\ Len(wait_queue) \in Nat \ {0}
           /\ IsInjective(Tail(wait_queue))
           /\ Range(Tail(wait_queue)) = Range(wait_queue) \ {Head(wait_queue)}
<1>1. wait_queue \in Seq(Threads) /\ IsInjective(wait_queue)
  BY DEF TypeOK, WaitersConsistent
<1>2. /\ Tail(wait_queue) = RemoveAt(wait_queue, 1)
      /\ Head(wait_queue) = wait_queue[1]
      /\ 1 \in 1..Len(wait_queue)
  BY <1>1, QueueTail
<1>3. Len(wait_queue) \in Nat \ {0} /\ DOMAIN wait_queue = 1..Len(wait_queue)
  BY <1>1, EmptySeq, LenProperties
<1>4. Head(wait_queue) \in Threads /\ Head(wait_queue) \in Range(wait_queue)
  BY <1>1, <1>2, <1>3, ElementOfSeq DEF Range
<1>5. co_status[Head(wait_queue)] = "waiting"
  BY <1>4 DEF WaitersConsistent
<1>6. /\ Tail(wait_queue) \in Seq(Threads)
      /\ Len(Tail(wait_queue)) = Len(wait_queue) - 1
  BY <1>1, <1>2, QueueRemoveAt
<1>7. /\ IsInjective(Tail(wait_queue))
      /\ Range(Tail(wait_queue)) = Range(wait_queue) \ {Head(wait_queue)}
  BY <1>1, <1>2, QueueLeft
<1>. QED
  BY <1>3, <1>4, <1>5, <1>6, <1>7

----------------------------------------------------------------------------
(* Each action preserves the invariant.                                    *)

\* sem:post.
LEMMA PostInv == ASSUME IInv, NEW n \in 1..MaxPosts, Post(n) PROVE IInv'
<1>. USE DEF Post, threadVars
<1>1. TypeOK'
  BY DEF IInv, TypeOK
<1>2. WaitersConsistent' /\ RunnerAwake'
  BY DEF IInv, WaitersConsistent, RunnerAwake
<1>3. NoLostWakeup'
  BY DEF NoLostWakeup
<1>4. ResourcesConserved'
  BY SemaphoreAssumption DEF IInv, TypeOK, ResourcesConserved
<1>. QED
  BY <1>1, <1>2, <1>3, <1>4 DEF IInv

\* sem:wait with something to take.
LEMMA WaitAcquiresInv == ASSUME IInv, NEW t \in Threads, WaitAcquires(t) PROVE IInv'
<1>. USE DEF WaitAcquires, MayTakeAtOnce, threadVars
<1>1. TypeOK'
  BY DEF IInv, TypeOK
<1>2. WaitersConsistent' /\ RunnerAwake'
  BY DEF IInv, WaitersConsistent, RunnerAwake
<1>3. NoLostWakeup'
  BY DEF NoLostWakeup
<1>4. ResourcesConserved'
  BY SemaphoreAssumption DEF IInv, TypeOK, ResourcesConserved
<1>. QED
  BY <1>1, <1>2, <1>3, <1>4 DEF IInv

\* sem:wait with nothing to take: the thread runs, so it is not queued yet.
LEMMA WaitYieldsInv == ASSUME IInv, NEW t \in Threads, WaitYields(t) PROVE IInv'
<1>1. TypeOK /\ WaitersConsistent /\ RunnerAwake /\ NoLostWakeup
      /\ ResourcesConserved
  BY DEF IInv
<1>2. running = t /\ co_status[t] = "ready" /\ t \notin Range(wait_queue)
  BY <1>1, SemaphoreAssumption DEF WaitYields, RunnerAwake, WaitersConsistent
<1>3. /\ wait_queue' \in Seq(Threads)
      /\ Len(wait_queue') = Len(wait_queue) + 1
      /\ IsInjective(wait_queue')
      /\ Range(wait_queue') = Range(wait_queue) \cup {t}
  BY <1>1, <1>2, QueueJoined DEF WaitYields, TypeOK, WaitersConsistent
<1>4. TypeOK'
  BY <1>1, <1>3 DEF WaitYields, MayFollow, TypeOK
<1>5. WaitersConsistent'
  <2>1. wait_count' = Len(wait_queue')
    BY <1>1, <1>3 DEF WaitYields, WaitersConsistent
  <2>2. ASSUME NEW u \in Threads
        PROVE  /\ co_status'[u] = "waiting" <=> u \in Range(wait_queue')
               /\ timer_set'[u] <=> co_status'[u] = "waiting"
               /\ cleanup'[u] <=> co_status'[u] = "waiting"
    BY <1>1, <1>3 DEF WaitYields, WaitersConsistent, TypeOK
  <2>. QED
    BY <1>3, <2>1, <2>2 DEF WaitersConsistent
<1>6. RunnerAwake'
  BY <1>1 DEF WaitYields, MayFollow, TypeOK, RunnerAwake
<1>7. NoLostWakeup'
  BY <1>1 DEF WaitYields, MayTakeAtOnce, NoLostWakeup, TypeOK
<1>8. ResourcesConserved'
  BY <1>1 DEF WaitYields, ResourcesConserved
<1>. QED
  BY <1>4, <1>5, <1>6, <1>7, <1>8 DEF IInv

\* The running thread gives up the CPU.
LEMMA SliceEndsInv ==
    ASSUME IInv, NEW t \in Threads, NEW s \in {"ready", "dead"}, SliceEnds(t, s)
    PROVE  IInv'
<1>. USE DEF SliceEnds
<1>1. TypeOK /\ WaitersConsistent /\ RunnerAwake
  BY DEF IInv
<1>2. co_status[t] = "ready"
  BY <1>1, SemaphoreAssumption DEF RunnerAwake
<1>3. TypeOK'
  BY <1>1 DEF TypeOK, MayFollow
<1>4. WaitersConsistent'
  <2>1. \A u \in Threads : co_status'[u] = "waiting" <=> co_status[u] = "waiting"
    BY <1>1, <1>2 DEF TypeOK
  <2>. QED
    BY <1>1, <2>1 DEF WaitersConsistent
<1>5. RunnerAwake'
  BY <1>1 DEF TypeOK, MayFollow, RunnerAwake
<1>6. NoLostWakeup' /\ ResourcesConserved'
  BY DEF IInv, NoLostWakeup, ResourcesConserved
<1>. QED
  BY <1>3, <1>4, <1>5, <1>6 DEF IInv

\* The event loop runs a thread that does not wait.
LEMMA SliceStartsInv == ASSUME IInv, NEW t \in Threads, SliceStarts(t) PROVE IInv'
<1>. USE DEF SliceStarts
<1>1. TypeOK /\ WaitersConsistent
  BY DEF IInv
<1>2. TypeOK'
  BY <1>1 DEF TypeOK
<1>3. WaitersConsistent'
  <2>1. \A u \in Threads : co_status'[u] = "waiting" <=> co_status[u] = "waiting"
    BY <1>1 DEF TypeOK
  <2>. QED
    BY <1>1, <2>1 DEF WaitersConsistent
<1>4. RunnerAwake'
  BY <1>1 DEF TypeOK, RunnerAwake
<1>5. NoLostWakeup' /\ ResourcesConserved'
  BY DEF IInv, NoLostWakeup, ResourcesConserved
<1>. QED
  BY <1>2, <1>3, <1>4, <1>5 DEF IInv

\* What the three ways out of a wait have in common: t leaves the queue, its
\* timer and its cleanup with it, and no longer waits.
LEMMA LeavingInv ==
    ASSUME TypeOK, WaitersConsistent, NEW t \in Threads, co_status[t] = "waiting",
           NEW s \in {"ready", "dead"},
           wait_queue' \in Seq(Threads),
           Len(wait_queue') = Len(wait_queue) - 1,
           Len(wait_queue) \in Nat \ {0},
           IsInjective(wait_queue'),
           Range(wait_queue') = Range(wait_queue) \ {t},
           wait_count' = wait_count - 1,
           timer_set' = [timer_set EXCEPT ![t] = FALSE],
           cleanup' = [cleanup EXCEPT ![t] = FALSE],
           co_status' = [co_status EXCEPT ![t] = s]
    PROVE  /\ WaitersConsistent'
           /\ wait_count' \in Nat
           /\ timer_set' \in [Threads -> BOOLEAN]
           /\ cleanup' \in [Threads -> BOOLEAN]
           /\ co_status' \in [Threads -> {"ready", "waiting", "dead"}]
<1>1. wait_count' = Len(wait_queue') /\ wait_count' \in Nat
  BY DEF WaitersConsistent
<1>2. /\ timer_set' \in [Threads -> BOOLEAN]
      /\ cleanup' \in [Threads -> BOOLEAN]
      /\ co_status' \in [Threads -> {"ready", "waiting", "dead"}]
  BY DEF TypeOK
<1>3. ASSUME NEW u \in Threads
      PROVE  /\ co_status'[u] = "waiting" <=> u \in Range(wait_queue')
             /\ timer_set'[u] <=> co_status'[u] = "waiting"
             /\ cleanup'[u] <=> co_status'[u] = "waiting"
  <2>1. CASE u = t
    BY <2>1 DEF TypeOK
  <2>2. CASE u # t
    BY <2>2 DEF TypeOK, WaitersConsistent
  <2>. QED
    BY <2>1, <2>2
<1>. QED
  BY <1>1, <1>2, <1>3 DEF WaitersConsistent

\* A waiting thread is killed.
LEMMA SemaCleanupInv == ASSUME IInv, NEW t \in Threads, SemaCleanup(t) PROVE IInv'
<1>1. TypeOK /\ WaitersConsistent
  BY DEF IInv
<1>2. co_status[t] = "waiting"
  BY <1>1 DEF SemaCleanup, WaitersConsistent
<1>3. /\ WaitersConsistent'
      /\ wait_queue' \in Seq(Threads)
      /\ wait_count' \in Nat
      /\ timer_set' \in [Threads -> BOOLEAN]
      /\ cleanup' \in [Threads -> BOOLEAN]
      /\ co_status' \in [Threads -> {"ready", "waiting", "dead"}]
  <2>1. /\ wait_queue' = RemoveAt(wait_queue, PositionOf(t))
        /\ wait_count' = wait_count - 1
        /\ timer_set' = [timer_set EXCEPT ![t] = FALSE]
        /\ cleanup' = [cleanup EXCEPT ![t] = FALSE]
        /\ co_status' = [co_status EXCEPT ![t] = "dead"]
    BY DEF SemaCleanup, Dequeue
  <2>. QED
    BY <1>1, <1>2, <2>1, WaiterLeaves, LeavingInv
<1>4. TypeOK'
  BY <1>1, <1>3 DEF SemaCleanup, TypeOK
<1>5. RunnerAwake'
  BY <1>1, <1>2 DEF IInv, SemaCleanup, TypeOK, RunnerAwake
<1>6. NoLostWakeup'
  <2>1. wait_queue # <<>>
    BY <1>1, <1>2, WaiterLeaves DEF TypeOK
  <2>. QED
    BY <2>1 DEF IInv, SemaCleanup, NoLostWakeup
<1>7. ResourcesConserved'
  BY DEF IInv, SemaCleanup, ResourcesConserved
<1>. QED
  BY <1>3, <1>4, <1>5, <1>6, <1>7 DEF IInv

\* A wait times out.
LEMMA SemaTimeoutInv ==
    ASSUME IInv, NEW t \in Threads, SemaTimeoutHandler(t) PROVE IInv'
<1>1. TypeOK /\ WaitersConsistent
  BY DEF IInv
<1>2. co_status[t] = "waiting"
  BY <1>1 DEF SemaTimeoutHandler, WaitersConsistent
<1>3. /\ WaitersConsistent'
      /\ wait_queue' \in Seq(Threads)
      /\ wait_count' \in Nat
      /\ timer_set' \in [Threads -> BOOLEAN]
      /\ cleanup' \in [Threads -> BOOLEAN]
      /\ co_status' \in [Threads -> {"ready", "waiting", "dead"}]
  <2>1. /\ wait_queue' = RemoveAt(wait_queue, PositionOf(t))
        /\ wait_count' = wait_count - 1
        /\ timer_set' = [timer_set EXCEPT ![t] = FALSE]
        /\ cleanup' = [cleanup EXCEPT ![t] = FALSE]
        /\ co_status' = [co_status EXCEPT ![t] = "ready"]
    BY DEF SemaTimeoutHandler, Dequeue, Resume
  <2>. QED
    BY <1>1, <1>2, <2>1, WaiterLeaves, LeavingInv
<1>4. TypeOK'
  BY <1>1, <1>3 DEF SemaTimeoutHandler, Resume, TypeOK
<1>5. RunnerAwake'
  BY <1>1 DEF SemaTimeoutHandler, Resume, TypeOK, RunnerAwake
<1>6. NoLostWakeup'
  <2>1. wait_queue # <<>>
    BY <1>1, <1>2, WaiterLeaves DEF TypeOK
  <2>. QED
    BY <2>1 DEF IInv, SemaTimeoutHandler, NoLostWakeup
<1>7. ResourcesConserved'
  BY DEF IInv, SemaTimeoutHandler, ResourcesConserved
<1>. QED
  BY <1>3, <1>4, <1>5, <1>6, <1>7 DEF IInv

\* The event loop calls the handler, and the handler returns: it may do so
\* only when there is nobody to serve or nothing to give.
LEMMA SemaHandlerInv == ASSUME IInv, SemaHandler \/ SemaHandlerReturns PROVE IInv'
<1>. USE DEF SemaHandler, SemaHandlerReturns, threadVars
<1>1. TypeOK'
  BY DEF IInv, TypeOK
<1>2. WaitersConsistent' /\ RunnerAwake' /\ ResourcesConserved'
  BY DEF IInv, WaitersConsistent, RunnerAwake, ResourcesConserved
<1>3. NoLostWakeup'
  BY DEF IInv, MayGrant, NoLostWakeup
<1>. QED
  BY <1>1, <1>2, <1>3 DEF IInv

\* The handler gives a resource to the oldest waiter.
LEMMA SemaHandlerGrantsInv == ASSUME IInv, SemaHandlerGrants PROVE IInv'
<1>. DEFINE t == Head(wait_queue)
<1>1. TypeOK /\ WaitersConsistent
  BY DEF IInv
<1>2. wait_queue # <<>> /\ resource_count > 0
  BY DEF SemaHandlerGrants, MayGrant
<1>3. /\ t \in Threads
      /\ co_status[t] = "waiting"
      /\ Tail(wait_queue) \in Seq(Threads)
      /\ Len(Tail(wait_queue)) = Len(wait_queue) - 1
      /\ Len(wait_queue) \in Nat \ {0}
      /\ IsInjective(Tail(wait_queue))
      /\ Range(Tail(wait_queue)) = Range(wait_queue) \ {t}
  BY <1>1, <1>2, OldestLeaves
<1>4. /\ wait_queue' = Tail(wait_queue)
      /\ wait_count' = wait_count - 1
      /\ timer_set' = [timer_set EXCEPT ![t] = FALSE]
      /\ cleanup' = [cleanup EXCEPT ![t] = FALSE]
      /\ co_status' = [co_status EXCEPT ![t] = "ready"]
      /\ running' = t
  BY DEF SemaHandlerGrants, Resume
<1>. HIDE DEF t
<1>5. /\ WaitersConsistent'
      /\ wait_count' \in Nat
      /\ timer_set' \in [Threads -> BOOLEAN]
      /\ cleanup' \in [Threads -> BOOLEAN]
      /\ co_status' \in [Threads -> {"ready", "waiting", "dead"}]
  BY <1>1, <1>3, <1>4, LeavingInv
<1>6. TypeOK'
  BY <1>1, <1>2, <1>3, <1>4, <1>5 DEF SemaHandlerGrants, TypeOK
<1>7. RunnerAwake'
  BY <1>1, <1>3, <1>4 DEF TypeOK, RunnerAwake
<1>8. NoLostWakeup'
  BY DEF SemaHandlerGrants, NoLostWakeup
<1>9. ResourcesConserved'
  BY <1>1, SemaphoreAssumption
  DEF IInv, SemaHandlerGrants, TypeOK, ResourcesConserved
<1>. QED
  BY <1>5, <1>6, <1>7, <1>8, <1>9 DEF IInv

\* All actions together.
LEMMA NextInv == IInv /\ [Next]_vars => IInv'
<1>. SUFFICES ASSUME IInv, [Next]_vars PROVE IInv'
  OBVIOUS
<1>1. CASE \E n \in 1..MaxPosts : Post(n)
  BY <1>1, PostInv
<1>2. CASE \E t \in Threads : WaitAcquires(t)
  BY <1>2, WaitAcquiresInv
<1>3. CASE \E t \in Threads : WaitYields(t)
  BY <1>3, WaitYieldsInv
<1>4. CASE \E t \in Threads : \E s \in {"ready", "dead"} : SliceEnds(t, s)
  BY <1>4, SliceEndsInv
<1>5. CASE \E t \in Threads : SliceStarts(t)
  BY <1>5, SliceStartsInv
<1>6. CASE \E t \in Threads : SemaCleanup(t)
  BY <1>6, SemaCleanupInv
<1>7. CASE \E t \in Threads : SemaTimeoutHandler(t)
  BY <1>7, SemaTimeoutInv
<1>8. CASE SemaHandler \/ SemaHandlerReturns
  BY <1>8, SemaHandlerInv
<1>9. CASE SemaHandlerGrants
  BY <1>9, SemaHandlerGrantsInv
<1>10. CASE UNCHANGED vars
  BY <1>10 DEF vars, threadVars, IInv, TypeOK, WaitersConsistent, RunnerAwake,
               NoLostWakeup, ResourcesConserved
<1>. QED
  BY <1>1, <1>2, <1>3, <1>4, <1>5, <1>6, <1>7, <1>8, <1>9, <1>10 DEF Next

----------------------------------------------------------------------------
(* The order of service.                                                   *)

\* Joining at the end and leaving from anywhere keep everybody else in order.
LEMMA AppendKeepsOrder ==
    ASSUME NEW S, NEW s \in Seq(S), IsInjective(s), NEW e \in S, e \notin Range(s)
    PROVE  KeepsOrder(s, Append(s, e))
<1> DEFINE r == Append(s, e)
<1>1. /\ DOMAIN s = 1..Len(s)
      /\ DOMAIN r = 1..(Len(s) + 1)
      /\ Len(s) \in Nat
      /\ \A j \in 1..Len(s) : r[j] = s[j]
      /\ r[Len(s) + 1] = e
  BY LenProperties, AppendProperties
<1>. HIDE DEF r
<1>2. \A i, j \in 1..Len(s) : s[i] = s[j] => i = j
  BY <1>1 DEF IsInjective
<1>3. \A j \in 1..Len(s) : s[j] # e
  BY <1>1 DEF Range
<1>4. \A i \in 1..Len(s), k \in 1..(Len(s) + 1) : r[k] = s[i] => k = i
  BY <1>1, <1>2, <1>3
<1>5. KeepsOrder(s, r)
  BY <1>1, <1>4 DEF KeepsOrder
<1>. QED
  BY <1>5 DEF r

LEMMA RemoveAtKeepsOrder ==
    ASSUME NEW S, NEW s \in Seq(S), IsInjective(s), NEW p \in 1..Len(s)
    PROVE  KeepsOrder(s, RemoveAt(s, p))
<1> DEFINE r == RemoveAt(s, p)
<1>1. /\ r \in Seq(S)
      /\ Len(r) = Len(s) - 1
      /\ \A j \in 1..(Len(s) - 1) : r[j] = IF j < p THEN s[j] ELSE s[j + 1]
  BY QueueRemoveAt
<1>. HIDE DEF r
<1>2. DOMAIN s = 1..Len(s) /\ DOMAIN r = 1..(Len(s) - 1) /\ Len(s) \in Nat
  BY <1>1, LenProperties
<1>3. \A i, j \in 1..Len(s) : s[i] = s[j] => i = j
  BY <1>2 DEF IsInjective
<1>4. \A i \in 1..Len(s), k \in 1..(Len(s) - 1) :
         r[k] = s[i] => IF k < p THEN i = k ELSE i = k + 1
  BY <1>1, <1>2, <1>3
<1>5. KeepsOrder(s, r)
  BY <1>2, <1>4 DEF KeepsOrder
<1>. QED
  BY <1>5 DEF r

\* A queue nobody touches keeps its order.
LEMMA SameKeepsOrder ==
    ASSUME NEW S, NEW s \in Seq(S), IsInjective(s)
    PROVE  KeepsOrder(s, s)
<1>1. DOMAIN s = 1..Len(s) /\ Len(s) \in Nat
  BY LenProperties
<1>. QED
  BY <1>1 DEF IsInjective, KeepsOrder

\* How a step changes the queue and the resources: the four ways of the
\* abstract semaphore, or not at all.
LEMMA StepKinds ==
    ASSUME IInv, [Next]_vars
    PROVE  \/ /\ resource_count' > resource_count /\ grants' = grants
              /\ wait_queue' = wait_queue
           \/ /\ wait_queue = <<>> /\ resource_count > 0
              /\ resource_count' = resource_count - 1
              /\ wait_queue' = wait_queue
           \/ \E t \in Threads :
                 /\ ~(wait_queue = <<>> /\ resource_count > 0)
                 /\ t \notin Range(wait_queue)
                 /\ wait_queue' = Append(wait_queue, t)
                 /\ resource_count' = resource_count /\ grants' = grants
           \/ /\ wait_queue # <<>> /\ resource_count > 0
              /\ wait_queue' = Tail(wait_queue)
              /\ resource_count' = resource_count - 1
           \/ \E i \in 1..Len(wait_queue) :
                 /\ wait_queue' = RemoveAt(wait_queue, i)
                 /\ resource_count' = resource_count /\ grants' = grants
           \/ UNCHANGED <<resource_count, wait_queue, grants>>
<1>0. TypeOK /\ WaitersConsistent /\ RunnerAwake
  BY DEF IInv
<1>1. CASE \E n \in 1..MaxPosts : Post(n)
  BY <1>0, <1>1 DEF Post, TypeOK
<1>2. CASE \E t \in Threads : WaitAcquires(t)
  BY <1>2 DEF WaitAcquires, MayTakeAtOnce
<1>3. CASE \E t \in Threads : WaitYields(t)
  <2>. PICK t \in Threads : WaitYields(t)
    BY <1>3
  <2>1. t \notin Range(wait_queue)
    BY <1>0, SemaphoreAssumption DEF WaitYields, RunnerAwake, WaitersConsistent
  <2>. QED
    BY <2>1 DEF WaitYields, MayTakeAtOnce
<1>4. CASE \E t \in Threads : SemaCleanup(t) \/ SemaTimeoutHandler(t)
  <2>. PICK t \in Threads : SemaCleanup(t) \/ SemaTimeoutHandler(t)
    BY <1>4
  <2>1. co_status[t] = "waiting"
    BY <1>0 DEF SemaCleanup, SemaTimeoutHandler, WaitersConsistent
  <2>2. PositionOf(t) \in 1..Len(wait_queue)
    BY <1>0, <2>1, WaiterLeaves
  <2>. QED
    BY <2>2 DEF SemaCleanup, SemaTimeoutHandler, Dequeue
<1>5. CASE SemaHandlerGrants
  BY <1>5 DEF SemaHandlerGrants, MayGrant
<1>6. CASE \/ \E t \in Threads : \/ SliceStarts(t)
                                \/ \E s \in {"ready", "dead"} : SliceEnds(t, s)
           \/ SemaHandler \/ SemaHandlerReturns \/ UNCHANGED vars
  BY <1>6 DEF SliceEnds, SliceStarts, SemaHandler, SemaHandlerReturns, vars
<1>. QED
  BY <1>1, <1>2, <1>3, <1>4, <1>5, <1>6 DEF Next

----------------------------------------------------------------------------
(* The theorems.                                                           *)

\* The inductive invariant holds in every reachable state.
THEOREM Invariance == Spec => []IInv
<1>. QED
  BY InitInv, NextInv, PTL DEF Spec

\* Types, and with them that wait_count never goes below zero (it is a signed
\* int that sem:count() subtracts).
THEOREM TypeCorrect == Spec => []TypeOK
<1>1. IInv => TypeOK
  BY DEF IInv
<1>. QED
  BY <1>1, Invariance, PTL

\* post never leaves a waiter asleep beside a free resource.
THEOREM WakeupSafe == Spec => []NoLostWakeup
<1>1. IInv => NoLostWakeup
  BY DEF IInv
<1>. QED
  BY <1>1, Invariance, PTL

\* Every way out of a wait leaves queue, count, timer and cleanup in agreement.
THEOREM WaitersSafe == Spec => []WaitersConsistent
<1>1. IInv => WaitersConsistent
  BY DEF IInv
<1>. QED
  BY <1>1, Invariance, PTL

\* Grants never exceed what was posted, and none is lost.
THEOREM ConservationSafe == Spec => []ResourcesConserved
<1>1. IInv => ResourcesConserved
  BY DEF IInv
<1>. QED
  BY <1>1, Invariance, PTL

\* First come, first served, whichever way each wait ends.
THEOREM OrderSafe == Spec => FirstComeFirstServed
<1>1. ASSUME IInv, [Next]_vars
      PROVE  /\ grants' > grants =>
                   wait_queue = <<>> \/ wait_queue' = Tail(wait_queue)
             /\ KeepsOrder(wait_queue, wait_queue')
  <2>1. /\ wait_queue \in Seq(Threads) /\ IsInjective(wait_queue)
        /\ grants \in Nat
    BY <1>1 DEF IInv, TypeOK, WaitersConsistent
  <2>2. wait_queue' = wait_queue => KeepsOrder(wait_queue, wait_queue')
    BY <2>1, SameKeepsOrder
  <2>3. ASSUME NEW t \in Threads, t \notin Range(wait_queue),
               wait_queue' = Append(wait_queue, t)
        PROVE  KeepsOrder(wait_queue, wait_queue')
    BY <2>1, <2>3, AppendKeepsOrder
  <2>4. ASSUME NEW i \in 1..Len(wait_queue), wait_queue' = RemoveAt(wait_queue, i)
        PROVE  KeepsOrder(wait_queue, wait_queue')
    BY <2>1, <2>4, RemoveAtKeepsOrder
  <2>5. ASSUME wait_queue # <<>>, wait_queue' = Tail(wait_queue)
        PROVE  KeepsOrder(wait_queue, wait_queue')
    BY <2>1, <2>5, QueueTail, RemoveAtKeepsOrder
  <2>6. KeepsOrder(wait_queue, wait_queue')
    BY <1>1, <2>2, <2>3, <2>4, <2>5, StepKinds
  <2>7. grants' > grants => wait_queue = <<>> \/ wait_queue' = Tail(wait_queue)
    BY <1>1, <2>1, StepKinds
  <2>. QED
    BY <2>6, <2>7
<1>. QED
  BY <1>1, Invariance, PTL DEF Spec, FirstComeFirstServed

\* The code implements the abstract semaphore: each step of the worker is one of
\* its steps or changes neither the resources nor the queue.
THEOREM Refinement == Spec => Abstract!SafeSpec
<1>1. Init => Abstract!Init
  BY DEF Init, Abstract!Init
<1>2. ASSUME IInv, [Next]_vars
      PROVE  [Abstract!Next]_(Abstract!vars)
  <2>1. wait_queue \in Seq(Threads)
    BY <1>2 DEF IInv, TypeOK
  <2>2. DOMAIN wait_queue = 1..Len(wait_queue)
    BY <2>1, LenProperties
  <2>. QED
    BY <1>2, <2>2, StepKinds
    DEF Range, RemoveAt, Abstract!Range, Abstract!RemoveAt,
        Abstract!Next, Abstract!vars, Abstract!Post, Abstract!Acquire, Abstract!Join,
        Abstract!Grant, Abstract!Leave
<1>. QED
  BY <1>1, <1>2, Invariance, PTL DEF Spec, Abstract!SafeSpec

----------------------------------------------------------------------------
(* The block allocator, SemaphorePool: arithmetic of the midpoint.         *)

LEMMA OneMore ==
    ASSUME NEW n \in Nat, NEW c \in Nat
    PROVE  n * (c + 1) = n * c + n /\ n * c \in Nat
OBVIOUS

LEMMA DivExact ==
    ASSUME NEW n \in Nat \ {0}, NEW c \in Nat
    PROVE  (n * c) \div n = c
OBVIOUS

LEMMA HalfBounds == ASSUME NEW c \in Nat PROVE c \div 2 \in 0..c
OBVIOUS

----------------------------------------------------------------------------
(* Items and blocks.                                                       *)

Within(B) == UNION {ItemsOf(b) : b \in B}

LEMMA ItemOfBlock ==
    ASSUME NEW b, NEW sem \in ItemsOf(b)
    PROVE  BlockOf(sem) = b
BY DEF ItemsOf, BlockOf

LEMMA WithinBlocks ==
    ASSUME NEW B \in SUBSET Epochs
    PROVE  /\ Within(B) \subseteq Items
           /\ \A sem \in Items : sem \in ItemsOf(BlockOf(sem))
           /\ \A sem \in Items : sem \in Within(B) <=> BlockOf(sem) \in B
           /\ \A b \in B : Within(B \ {b}) = Within(B) \ ItemsOf(b)
           /\ \A b : Within(B \cup {b}) = Within(B) \cup ItemsOf(b)
<1>1. Within(B) \subseteq Items
  BY DEF Within, Items
<1>2. ASSUME NEW sem \in Items PROVE sem \in ItemsOf(BlockOf(sem))
  <2>1. PICK b \in Epochs : sem \in ItemsOf(b)
    BY DEF Items
  <2>. QED
    BY <2>1, ItemOfBlock
<1>3. ASSUME NEW sem \in Items PROVE sem \in Within(B) <=> BlockOf(sem) \in B
  BY <1>2, ItemOfBlock DEF Within
<1>4. ASSUME NEW b \in B PROVE Within(B \ {b}) = Within(B) \ ItemsOf(b)
  BY ItemOfBlock DEF Within
<1>5. ASSUME NEW b PROVE Within(B \cup {b}) = Within(B) \cup ItemsOf(b)
  BY DEF Within
<1>. QED
  BY <1>1, <1>2, <1>3, <1>4, <1>5

LEMMA ItemsFinite ==
    ASSUME NEW b
    PROVE  IsFiniteSet(ItemsOf(b)) /\ Cardinality(ItemsOf(b)) = NumPerBlock
<1>1. IsFiniteSet({b}) /\ Cardinality({b}) = 1
  BY FS_Singleton
<1>2. IsFiniteSet(1..NumPerBlock) /\ Cardinality(1..NumPerBlock) = NumPerBlock
  <2>. 1 \in Int /\ NumPerBlock \in Int /\ NumPerBlock >= 1
    BY PoolAssumption
  <2>. QED
    BY FS_Interval
<1>3. /\ IsFiniteSet({b} \X (1..NumPerBlock))
      /\ Cardinality({b} \X (1..NumPerBlock)) = 1 * NumPerBlock
  BY <1>1, <1>2, FS_Product
<1>. QED
  BY <1>3, PoolAssumption DEF ItemsOf

----------------------------------------------------------------------------
(* The queue without the items of a block.                                 *)

\* The members of a finite set of numbers have the ranks from 1 on, each its own.
LEMMA Ranks ==
    ASSUME NEW S, IsFiniteSet(S), S \subseteq Nat
    PROVE  /\ Cardinality(S) \in Nat
           /\ \A i \in S : Rank(i, S) \in 1..Cardinality(S)
           /\ \A i, j \in S : Rank(i, S) = Rank(j, S) => i = j
           /\ \A k \in 1..Cardinality(S) : \E i \in S : Rank(i, S) = k
<1> DEFINE Upto(i) == {j \in S : j <= i}
<1>1. \A i : /\ IsFiniteSet(Upto(i)) /\ Cardinality(Upto(i)) \in Nat
             /\ Cardinality(Upto(i)) <= Cardinality(S)
  <2>1. \A i : Upto(i) \in SUBSET S
    OBVIOUS
  <2>. HIDE DEF Upto
  <2>. QED
    BY <2>1, FS_Subset, FS_CardinalityType
<1>2. Cardinality(S) \in Nat
  BY FS_CardinalityType
<1>3. ASSUME NEW i \in S PROVE Rank(i, S) \in 1..Cardinality(S)
  <2>1. i \in Upto(i)
    OBVIOUS
  <2>2. Cardinality(Upto(i)) # 0
    BY <1>1, <2>1, FS_EmptySet
  <2>. QED
    BY <1>1, <1>2, <2>2 DEF Rank
<1>4. ASSUME NEW i \in S, NEW j \in S, i < j PROVE Rank(i, S) # Rank(j, S)
  <2>1. Upto(i) \in SUBSET Upto(j) /\ j \in Upto(j) /\ j \notin Upto(i)
    <3>1. i \in Nat /\ j \in Nat /\ \A x \in S : x \in Nat
      OBVIOUS
    <3>2. \A x \in S : x <= i => x <= j
      BY <1>4, <3>1
    <3>3. j <= j /\ ~(j <= i)
      BY <1>4, <3>1
    <3>4. j \in Upto(j) /\ j \notin Upto(i)
      BY <3>3
    <3>5. Upto(i) \subseteq Upto(j)
      BY <3>2
    <3>. HIDE DEF Upto
    <3>. QED
      BY <3>4, <3>5
  <2>2. Upto(i) # Upto(j)
    BY <2>1
  <2>3. Cardinality(Upto(i)) # Cardinality(Upto(j))
    <3>. HIDE DEF Upto
    <3>. QED
      BY <1>1, <2>1, <2>2, FS_Subset
  <2>. QED
    BY <2>3 DEF Rank
<1>5. \A i, j \in S : Rank(i, S) = Rank(j, S) => i = j
  BY <1>4
<1>6. ASSUME NEW k \in 1..Cardinality(S) PROVE \E i \in S : Rank(i, S) = k
  <2>. DEFINE f == [i \in S |-> Rank(i, S)]
              T == 1..Cardinality(S)
  <2>1. f \in Injection(S, T)
    <3>1. f \in [S -> T]
      BY <1>3
    <3>. QED
      BY <1>5, <3>1 DEF Injection, IsInjective
  <2>2. IsFiniteSet(T) /\ Cardinality(T) = Cardinality(S)
    <3>. 1 \in Int /\ Cardinality(S) \in Int
      BY <1>2
    <3>. QED
      BY <1>2, FS_Interval
  <2>3. f \in Surjection(S, T)
    <3>. HIDE DEF f, T
    <3>. QED
      BY <2>1, <2>2, FS_Injection
  <2>. QED
    BY <2>3 DEF Surjection
<1>. QED
  BY <1>2, <1>3, <1>5, <1>6

LEMMA WithoutBlockKeeps ==
    ASSUME NEW q \in Seq(Items), IsInjective(q), NEW b
    PROVE  /\ WithoutBlock(q, b) \in Seq(Items)
           /\ IsInjective(WithoutBlock(q, b))
           /\ Range(WithoutBlock(q, b)) = {sem \in Range(q) : BlockOf(sem) # b}
<1> DEFINE S == Others(q, b)
           n == Cardinality(S)
           At(k) == CHOOSE i \in S : Rank(i, S) = k
           r == [k \in 1..n |-> q[At(k)]]
<1>1. r = WithoutBlock(q, b)
  BY DEF WithoutBlock
<1>2. DOMAIN q = 1..Len(q) /\ Len(q) \in Nat /\ \A i \in DOMAIN q : q[i] \in Items
  BY LenProperties, ElementOfSeq
<1>3. IsFiniteSet(S) /\ S \subseteq DOMAIN q /\ S \subseteq Nat
  <2>1. S \in SUBSET (1..Len(q))
    BY <1>2 DEF Others
  <2>2. IsFiniteSet(1..Len(q))
    <3>. 1 \in Int /\ Len(q) \in Int
      BY <1>2
    <3>. QED
      BY FS_Interval
  <2>. QED
    BY <1>2, <2>1, <2>2, FS_Subset
<1>4. \A i \in DOMAIN q : i \in S <=> BlockOf(q[i]) # b
  BY DEF Others
<1>. HIDE DEF S
<1>5. /\ n \in Nat
      /\ \A i \in S : Rank(i, S) \in 1..n
      /\ \A i, j \in S : Rank(i, S) = Rank(j, S) => i = j
      /\ \A k \in 1..n : \E i \in S : Rank(i, S) = k
  BY <1>3, Ranks
<1>6. \A k \in 1..n : At(k) \in S /\ Rank(At(k), S) = k
  BY <1>5
<1>7. \A i \in S : At(Rank(i, S)) = i
  BY <1>5, <1>6
<1>. HIDE DEF n, At
<1>8. r \in Seq(Items)
  <2>1. \A k \in 1..n : q[At(k)] \in Items
    BY <1>2, <1>3, <1>6
  <2>. QED
    BY <1>5, <2>1, IsASeq
<1>9. IsInjective(r)
  <2>. SUFFICES ASSUME NEW j \in 1..n, NEW k \in 1..n, q[At(j)] = q[At(k)] PROVE j = k
    BY DEF IsInjective
  <2>1. At(j) = At(k)
    BY <1>3, <1>6 DEF IsInjective
  <2>. QED
    BY <1>6, <2>1
<1>10. Range(r) \subseteq {sem \in Range(q) : BlockOf(sem) # b}
  BY <1>3, <1>4, <1>6 DEF Range
<1>11. ASSUME NEW i \in S PROVE q[i] \in Range(r)
  <2>1. Rank(i, S) \in 1..n /\ r[Rank(i, S)] = q[i]
    BY <1>5, <1>7
  <2>. QED
    BY <2>1 DEF Range
<1>12. {sem \in Range(q) : BlockOf(sem) # b} \subseteq Range(r)
  BY <1>4, <1>11 DEF Range
<1>. QED
  BY <1>1, <1>8, <1>9, <1>10, <1>12

----------------------------------------------------------------------------
(* The inductive invariant: what is linked in the queue is what the blocks *)
(* kept have and Lua does not hold, and the counts are those of the items. *)
(* The capacity is counted as long as the allocator still decides by it.   *)

Deciding == phase = "serving" \/ live # {}

Typed == /\ free_queue \in Seq(Items) /\ IsInjective(free_queue)
         /\ cur_epoch \in 0..MaxEpoch
         /\ total \in Nat /\ used \in Nat
         /\ blocks \subseteq 1..cur_epoch
         /\ block_used \in [Epochs -> 0..NumPerBlock]
         /\ phase \in {"serving", "closing", "cleaned"}

Linked == /\ live \subseteq Within(blocks)
          /\ posted_events \subseteq live
          /\ Range(free_queue) = Within(blocks) \ live

Counted == /\ used = Cardinality(live)
           /\ \A b \in blocks : block_used[b] = Cardinality(live \cap ItemsOf(b))
           /\ Deciding => /\ total = NumPerBlock * Cardinality(blocks)
                          /\ cur_epoch > 0 => cur_epoch \in blocks

PoolInv == /\ Typed /\ Linked /\ Counted
           /\ phase = "cleaned" => blocks = {}

LEMMA BlocksFinite ==
    ASSUME Typed
    PROVE  /\ blocks \subseteq Epochs
           /\ IsFiniteSet(blocks) /\ Cardinality(blocks) \in Nat
           /\ Cardinality(blocks) <= cur_epoch
<1>1. blocks \in SUBSET (1..cur_epoch) /\ cur_epoch \in Nat
  BY DEF Typed
<1>2. IsFiniteSet(1..cur_epoch) /\ Cardinality(1..cur_epoch) = cur_epoch
  <2>. 1 \in Int /\ cur_epoch \in Int
    BY <1>1
  <2>. QED
    BY <1>1, FS_Interval
<1>3. blocks \subseteq Epochs
  BY PoolAssumption DEF Typed, Epochs
<1>. QED
  BY <1>1, <1>2, <1>3, FS_Subset, FS_CardinalityType

\* Lua holds finitely many items.
LEMMA LiveFinite ==
    ASSUME Typed, Linked
    PROVE  IsFiniteSet(live) /\ Cardinality(live) \in Nat
<1>1. /\ IsFiniteSet(blocks) /\ blocks \subseteq Epochs
  BY BlocksFinite
<1>2. IsFiniteSet(Within(blocks))
  <2>. DEFINE U == {ItemsOf(b) : b \in blocks}
  <2>1. IsFiniteSet(U)
    <3>1. Epochs \X (1..NumPerBlock) \in {Epochs \X (1..NumPerBlock)}
      OBVIOUS
    <3>. DEFINE f == [b \in blocks |-> ItemsOf(b)]
    <3>2. f \in Surjection(blocks, U)
      BY DEF Surjection
    <3>. HIDE DEF f, U
    <3>. QED
      BY <1>1, <3>2, FS_Surjection
  <2>2. \A T \in U : IsFiniteSet(T)
    BY ItemsFinite
  <2>. HIDE DEF U
  <2>. QED
    BY <2>1, <2>2, FS_UNION DEF Within, U
<1>3. live \in SUBSET Within(blocks)
  BY DEF Linked
<1>. QED
  BY <1>2, <1>3, FS_Subset, FS_CardinalityType

\* The items of b that Lua holds, one more or one less.
LEMMA HeldCard ==
    ASSUME NEW L, NEW b, NEW sem
    PROVE  /\ Cardinality(L \cap ItemsOf(b)) \in 0..NumPerBlock
           /\ sem \in ItemsOf(b) /\ sem \notin L =>
                Cardinality((L \cup {sem}) \cap ItemsOf(b))
                  = Cardinality(L \cap ItemsOf(b)) + 1
           /\ sem \in ItemsOf(b) /\ sem \in L =>
                Cardinality((L \ {sem}) \cap ItemsOf(b))
                  = Cardinality(L \cap ItemsOf(b)) - 1
           /\ sem \notin ItemsOf(b) =>
                /\ (L \cup {sem}) \cap ItemsOf(b) = L \cap ItemsOf(b)
                /\ (L \ {sem}) \cap ItemsOf(b) = L \cap ItemsOf(b)
<1> DEFINE H == L \cap ItemsOf(b)
<1>1. IsFiniteSet(H) /\ Cardinality(H) \in 0..NumPerBlock
  <2>1. IsFiniteSet(ItemsOf(b)) /\ Cardinality(ItemsOf(b)) = NumPerBlock
    BY ItemsFinite
  <2>2. H \in SUBSET ItemsOf(b)
    OBVIOUS
  <2>3. /\ IsFiniteSet(H) /\ Cardinality(H) \in Nat
        /\ Cardinality(H) <= Cardinality(ItemsOf(b))
    <3>. HIDE DEF H
    <3>. QED
      BY <2>1, <2>2, FS_Subset, FS_CardinalityType
  <2>. QED
    BY <2>1, <2>3, PoolAssumption
<1>2. ASSUME sem \in ItemsOf(b), sem \notin L
      PROVE  Cardinality((L \cup {sem}) \cap ItemsOf(b)) = Cardinality(H) + 1
  <2>1. (L \cup {sem}) \cap ItemsOf(b) = H \cup {sem} /\ sem \notin H
    BY <1>2
  <2>. HIDE DEF H
  <2>. QED
    BY <1>1, <2>1, FS_AddElement
<1>3. ASSUME sem \in ItemsOf(b), sem \in L
      PROVE  Cardinality((L \ {sem}) \cap ItemsOf(b)) = Cardinality(H) - 1
  <2>1. (L \ {sem}) \cap ItemsOf(b) = H \ {sem} /\ sem \in H
    BY <1>3
  <2>. HIDE DEF H
  <2>. QED
    BY <1>1, <2>1, FS_RemoveElement
<1>. QED
  BY <1>1, <1>2, <1>3

LEMMA MidEpochBounds ==
    ASSUME Typed, total = NumPerBlock * Cardinality(blocks)
    PROVE  MidEpoch \in 0..cur_epoch
<1>1. Cardinality(blocks) \in 0..cur_epoch /\ cur_epoch \in Nat
  BY BlocksFinite DEF Typed
<1>2. total \div NumPerBlock = Cardinality(blocks)
  BY <1>1, DivExact, PoolAssumption
<1>3. Cardinality(blocks) \div 2 \in 0..Cardinality(blocks)
  BY <1>1, HalfBounds
<1>. QED
  BY <1>1, <1>2, <1>3 DEF MidEpoch

LEMMA InitPoolInv == PoolInit => PoolInv
<1>. SUFFICES ASSUME PoolInit PROVE PoolInv
  OBVIOUS
<1>1. free_queue \in Seq(Items) /\ IsInjective(free_queue) /\ Range(free_queue) = {}
  BY DEF PoolInit, IsInjective, Range
<1>2. block_used \in [Epochs -> 0..NumPerBlock]
  BY PoolAssumption DEF PoolInit
<1>3. Typed
  BY <1>1, <1>2, PoolAssumption DEF PoolInit, Typed
<1>4. Linked
  BY <1>1 DEF PoolInit, Linked, Within
<1>5. Counted
  <2>. NumPerBlock * 0 = 0
    BY PoolAssumption
  <2>. QED
    BY FS_EmptySet DEF PoolInit, Counted
<1>. QED
  BY <1>3, <1>4, <1>5 DEF PoolInit, PoolInv

LEMMA AllocFromQueueInv == ASSUME PoolInv, AllocFromQueue PROVE PoolInv'
<1>1. PICK sem, b : sem = Head(free_queue) /\ b = BlockOf(sem)
  OBVIOUS
<1>2. /\ free_queue' = Tail(free_queue) /\ free_queue # <<>>
      /\ block_used' = [block_used EXCEPT ![b] = @ + 1]
      /\ live' = live \cup {sem} /\ used' = used + 1 /\ phase = "serving"
      /\ UNCHANGED <<cur_epoch, total, blocks, posted_events, phase>>
  BY <1>1 DEF AllocFromQueue
<1>3. Typed /\ Linked /\ Counted
  BY DEF PoolInv
<1>4. /\ Tail(free_queue) \in Seq(Items) /\ IsInjective(Tail(free_queue))
      /\ Range(Tail(free_queue)) = Range(free_queue) \ {sem}
      /\ sem \in Range(free_queue)
  <2>1. free_queue \in Seq(Items) /\ IsInjective(free_queue)
    BY <1>3 DEF Typed
  <2>. QED
    BY <1>1, <1>2, <2>1, QueueServed
<1>5. /\ sem \in Within(blocks) /\ sem \notin live /\ blocks \subseteq Epochs
  BY <1>3, <1>4, BlocksFinite DEF Linked
<1>6. sem \in Items /\ b \in blocks /\ b \in Epochs /\ sem \in ItemsOf(b)
  BY <1>1, <1>5, WithinBlocks
<1>7. Linked'
  BY <1>2, <1>3, <1>4, <1>5 DEF Linked
<1>8. ASSUME NEW c \in blocks
      PROVE  block_used'[c] = Cardinality(live' \cap ItemsOf(c))
  <2>1. block_used[c] = Cardinality(live \cap ItemsOf(c)) /\ c \in Epochs
    BY <1>3, <1>5 DEF Counted
  <2>2. CASE c = b
    BY <1>2, <1>3, <1>5, <1>6, <2>1, <2>2, HeldCard DEF Typed
  <2>3. CASE c # b
    <3>1. sem \notin ItemsOf(c)
      BY <1>1, <2>3, ItemOfBlock
    <3>. QED
      BY <1>2, <1>3, <2>1, <2>3, <3>1, HeldCard DEF Typed
  <2>. QED
    BY <2>2, <2>3
<1>9. block_used' \in [Epochs -> 0..NumPerBlock]
  <2>1. block_used'[b] \in 0..NumPerBlock
    <3>1. \A L : Cardinality(L \cap ItemsOf(b)) \in 0..NumPerBlock
      BY HeldCard
    <3>. QED
      BY <1>6, <1>8, <3>1
  <2>2. block_used' = [block_used EXCEPT ![b] = block_used'[b]]
    BY <1>2, <1>3, <1>6 DEF Typed
  <2>. QED
    BY <1>3, <2>1, <2>2 DEF Typed
<1>10. used' = Cardinality(live')
  BY <1>2, <1>3, <1>5, LiveFinite, FS_AddElement DEF Counted
<1>11. Typed'
  BY <1>2, <1>3, <1>4, <1>9 DEF Typed
<1>12. Counted'
  BY <1>2, <1>3, <1>8, <1>10 DEF Counted, Deciding
<1>. QED
  BY <1>2, <1>7, <1>11, <1>12 DEF PoolInv

\* The items of a new block, without the first, in order.
LEMMA NewQueue ==
    ASSUME NEW e, ItemsOf(e) \subseteq Items
    PROVE  LET q == [i \in 1..(NumPerBlock - 1) |-> <<e, i + 1>>]
           IN  /\ q \in Seq(Items) /\ IsInjective(q)
               /\ Range(q) = ItemsOf(e) \ {<<e, 1>>}
<1> DEFINE q == [i \in 1..(NumPerBlock - 1) |-> <<e, i + 1>>]
<1>1. NumPerBlock - 1 \in Nat /\ NumPerBlock \in Int
  BY PoolAssumption
<1>2. \A i \in 1..(NumPerBlock - 1) : i + 1 \in 1..NumPerBlock /\ i + 1 # 1
  BY <1>1
<1>3. \A i \in 1..(NumPerBlock - 1) : <<e, i + 1>> \in ItemsOf(e) \ {<<e, 1>>}
  BY <1>2 DEF ItemsOf
<1>4. q \in Seq(Items)
  <2>1. \A i \in 1..(NumPerBlock - 1) : <<e, i + 1>> \in Items
    BY <1>3
  <2>. QED
    BY <1>1, <2>1, IsASeq
<1>5. IsInjective(q)
  <2>. SUFFICES ASSUME NEW i \in 1..(NumPerBlock - 1), NEW j \in 1..(NumPerBlock - 1),
                       <<e, i + 1>> = <<e, j + 1>>
                PROVE  i = j
    BY DEF IsInjective
  <2>1. i + 1 = j + 1
    OBVIOUS
  <2>. QED
    BY <1>1, <2>1
<1>6. Range(q) \subseteq ItemsOf(e) \ {<<e, 1>>}
  BY <1>3 DEF Range
<1>7. ASSUME NEW sem \in ItemsOf(e) \ {<<e, 1>>} PROVE sem \in Range(q)
  <2>1. PICK n \in 1..NumPerBlock : sem = <<e, n>>
    BY DEF ItemsOf
  <2>2. n # 1
    BY <1>7, <2>1
  <2>3. n - 1 \in 1..(NumPerBlock - 1) /\ (n - 1) + 1 = n
    BY <1>1, <2>2
  <2>4. q[n - 1] = sem
    BY <2>1, <2>3
  <2>. QED
    BY <2>3, <2>4 DEF Range
<1>. QED
  BY <1>4, <1>5, <1>6, <1>7

LEMMA AllocNewBlockInv == ASSUME PoolInv, AllocNewBlock PROVE PoolInv'
<1>1. PICK e, sem : e = cur_epoch + 1 /\ sem = <<e, 1>>
  OBVIOUS
<1>2. Typed /\ Linked /\ Counted
  BY DEF PoolInv
<1>3. /\ cur_epoch' = e /\ cur_epoch < MaxEpoch
      /\ total' = total + NumPerBlock /\ used' = used + 1
      /\ blocks' = blocks \cup {e}
      /\ block_used' = [block_used EXCEPT ![e] = 1]
      /\ live' = live \cup {sem}
      /\ free_queue' = [i \in 1..(NumPerBlock - 1) |-> <<e, i + 1>>]
      /\ free_queue = <<>> /\ phase = "serving"
      /\ UNCHANGED <<posted_events, phase>>
  <2>1. cur_epoch' = e
    BY <1>1 DEF AllocNewBlock
  <2>. QED
    BY <1>1, <2>1 DEF AllocNewBlock
<1>4. /\ e \in Epochs /\ e \in 1..MaxEpoch /\ e > cur_epoch /\ cur_epoch \in Nat
      /\ \A b \in 1..cur_epoch : b # e /\ b \in 1..e
  BY <1>1, <1>2, <1>3, PoolAssumption DEF Typed, Epochs
<1>5. e \notin blocks /\ blocks \subseteq Epochs /\ IsFiniteSet(blocks)
  <2>1. blocks \subseteq 1..cur_epoch
    BY <1>2 DEF Typed
  <2>. QED
    BY <1>2, <1>4, <2>1, BlocksFinite
<1>6. live = Within(blocks)
  <2>1. Range(free_queue) = {}
    BY <1>3 DEF Range
  <2>. QED
    BY <1>2, <2>1 DEF Linked
<1>7. /\ ItemsOf(e) \subseteq Items
      /\ sem \in ItemsOf(e)
      /\ Within(blocks \cup {e}) = live \cup ItemsOf(e)
      /\ live \cap ItemsOf(e) = {}
  <2>1. ItemsOf(e) \subseteq Items
    BY <1>4 DEF Items
  <2>2. sem \in ItemsOf(e)
    BY <1>1, PoolAssumption DEF ItemsOf
  <2>3. Within(blocks \cup {e}) = live \cup ItemsOf(e)
    BY <1>5, <1>6, WithinBlocks
  <2>4. ASSUME NEW x \in ItemsOf(e) PROVE x \notin live
    BY <1>5, <1>6, <2>1, WithinBlocks, ItemOfBlock
  <2>. QED
    BY <2>1, <2>2, <2>3, <2>4
<1>8. /\ free_queue' \in Seq(Items) /\ IsInjective(free_queue')
      /\ Range(free_queue') = ItemsOf(e) \ {sem}
  BY <1>1, <1>3, <1>7, NewQueue
<1>9. Linked'
  <2>1. live' \subseteq Within(blocks')
    BY <1>3, <1>7
  <2>2. posted_events' \subseteq live'
    BY <1>2, <1>3 DEF Linked
  <2>3. Range(free_queue') = Within(blocks') \ live'
    BY <1>3, <1>7, <1>8
  <2>4. Within(blocks)' = Within(blocks')
    BY DEF Within, ItemsOf
  <2>. QED
    BY <2>1, <2>2, <2>3, <2>4 DEF Linked
<1>10. ASSUME NEW c \in blocks'
       PROVE  block_used'[c] = Cardinality(live' \cap ItemsOf(c))
  <2>1. CASE c = e
    <3>1. live' \cap ItemsOf(e) = {sem}
      BY <1>3, <1>7
    <3>2. block_used'[e] = 1
      BY <1>2, <1>3, <1>4 DEF Typed
    <3>. QED
      BY <2>1, <3>1, <3>2, FS_Singleton
  <2>2. CASE c # e
    <3>1. c \in blocks /\ c \in Epochs
      BY <1>3, <1>5, <1>10, <2>2
    <3>2. sem \notin ItemsOf(c)
      BY <1>7, <2>2, ItemOfBlock
    <3>3. live' \cap ItemsOf(c) = live \cap ItemsOf(c)
      BY <1>3, <3>2
    <3>4. block_used'[c] = block_used[c]
      BY <1>2, <1>3, <2>2, <3>1 DEF Typed
    <3>. QED
      BY <1>2, <3>1, <3>3, <3>4 DEF Counted
  <2>. QED
    BY <2>1, <2>2
<1>11. used' = Cardinality(live')
  <2>1. sem \notin live
    BY <1>7
  <2>. QED
    BY <1>2, <1>3, <2>1, LiveFinite, FS_AddElement DEF Counted
<1>12. total' = NumPerBlock * Cardinality(blocks') /\ total' \in Nat
  <2>1. total = NumPerBlock * Cardinality(blocks)
    BY <1>2, <1>3 DEF Counted, Deciding
  <2>2. Cardinality(blocks') = Cardinality(blocks) + 1 /\ Cardinality(blocks) \in Nat
    BY <1>3, <1>5, FS_AddElement, FS_CardinalityType
  <2>3. total' = total + NumPerBlock /\ NumPerBlock \in Nat /\ total \in Nat
    BY <1>2, <1>3, PoolAssumption DEF Typed
  <2>. QED
    BY <2>1, <2>2, <2>3, OneMore
<1>13. block_used' \in [Epochs -> 0..NumPerBlock]
  BY <1>2, <1>3, <1>4, PoolAssumption DEF Typed
<1>14. Typed'
  <2>1. used' \in Nat
    BY <1>2, <1>3 DEF Typed
  <2>2. cur_epoch' \in 0..MaxEpoch
    BY <1>3, <1>4
  <2>3. blocks' \subseteq 1..cur_epoch'
    BY <1>2, <1>3, <1>4 DEF Typed
  <2>. QED
    BY <1>2, <1>3, <1>8, <1>12, <1>13, <2>1, <2>2, <2>3 DEF Typed
<1>15. Counted'
  <2>1. cur_epoch' \in blocks'
    BY <1>3
  <2>2. \A b \in blocks' : block_used'[b] = Cardinality(live' \cap ItemsOf(b))
    BY <1>10
  <2>. QED
    BY <1>11, <1>12, <2>1, <2>2 DEF Counted, ItemsOf
<1>. QED
  BY <1>3, <1>9, <1>14, <1>15 DEF PoolInv

\* A finalized item joins the queue; its block leaves with its items only when
\* Lua holds none of them, and is never the newest.
LEMMA SemaGcInv == ASSUME PoolInv, NEW sem \in live, SemaGc(sem) PROVE PoolInv'
<1>1. PICK b, q : /\ b = BlockOf(sem)
                  /\ q = IF b < MidEpoch THEN Append(free_queue, sem)
                                         ELSE <<sem>> \o free_queue
  OBVIOUS
<1>2. Typed /\ Linked /\ Counted
  BY DEF PoolInv
<1>3. /\ block_used' = [block_used EXCEPT ![b] = @ - 1]
      /\ used' = used - 1 /\ live' = live \ {sem} /\ posted_events' = posted_events \ {sem}
      /\ phase \in {"serving", "closing"}
      /\ UNCHANGED <<cur_epoch, phase>>
      /\ \/ /\ GivesBack(b)
            /\ free_queue' = WithoutBlock(q, b)
            /\ total' = total - NumPerBlock /\ blocks' = blocks \ {b}
         \/ free_queue' = q /\ UNCHANGED <<total, blocks>>
  BY <1>1 DEF SemaGc, FreeSema
<1>4. /\ sem \in Within(blocks) /\ blocks \subseteq Epochs
      /\ IsFiniteSet(blocks) /\ Cardinality(blocks) \in Nat
  BY <1>2, BlocksFinite DEF Linked
<1>5. sem \in Items /\ b \in blocks /\ b \in Epochs /\ sem \in ItemsOf(b)
  BY <1>1, <1>4, WithinBlocks
<1>6. /\ q \in Seq(Items) /\ IsInjective(q)
      /\ Range(q) = Range(free_queue) \cup {sem}
  <2>1. sem \notin Range(free_queue)
    BY <1>2 DEF Linked
  <2>2. free_queue \in Seq(Items) /\ IsInjective(free_queue)
    BY <1>2 DEF Typed
  <2>3. CASE b < MidEpoch
    BY <1>1, <1>5, <2>1, <2>2, <2>3, QueueJoined
  <2>4. CASE ~(b < MidEpoch)
    BY <1>1, <1>5, <2>1, <2>2, <2>4, QueueJumped
  <2>. QED
    BY <2>3, <2>4
<1>7. Range(q) = Within(blocks) \ live'
  BY <1>2, <1>3, <1>4, <1>6 DEF Linked
<1>8. ASSUME NEW c \in blocks
      PROVE  block_used'[c] = Cardinality(live' \cap ItemsOf(c))
  <2>1. block_used[c] = Cardinality(live \cap ItemsOf(c)) /\ c \in Epochs
    BY <1>2, <1>4 DEF Counted
  <2>2. CASE c = b
    BY <1>2, <1>3, <1>5, <2>1, <2>2, HeldCard DEF Typed
  <2>3. CASE c # b
    <3>1. sem \notin ItemsOf(c)
      BY <1>1, <2>3, ItemOfBlock
    <3>. QED
      BY <1>2, <1>3, <2>1, <2>3, <3>1, HeldCard DEF Typed
  <2>. QED
    BY <2>2, <2>3
<1>9. block_used' \in [Epochs -> 0..NumPerBlock]
  <2>1. block_used'[b] \in 0..NumPerBlock
    <3>1. \A L : Cardinality(L \cap ItemsOf(b)) \in 0..NumPerBlock
      BY HeldCard
    <3>. QED
      BY <1>5, <1>8, <3>1
  <2>2. block_used' = [block_used EXCEPT ![b] = block_used'[b]]
    BY <1>2, <1>3, <1>5 DEF Typed
  <2>. QED
    BY <1>2, <2>1, <2>2 DEF Typed
<1>10. used' = Cardinality(live') /\ used' \in Nat
  <2>1. /\ IsFiniteSet(live') /\ Cardinality(live') = Cardinality(live) - 1
    BY <1>2, <1>3, LiveFinite, FS_RemoveElement
  <2>. QED
    BY <1>2, <1>3, <2>1, FS_CardinalityType DEF Counted
<1>11. total = NumPerBlock * Cardinality(blocks)
       /\ (cur_epoch > 0 => cur_epoch \in blocks)
  BY <1>2 DEF Counted, Deciding
<1>12. CASE free_queue' = q /\ UNCHANGED <<total, blocks>>
  <2>1. Typed'
    BY <1>2, <1>3, <1>6, <1>9, <1>10, <1>12 DEF Typed
  <2>2. Linked'
    <3>1. live' \subseteq Within(blocks) /\ posted_events' \subseteq live'
      BY <1>2, <1>3 DEF Linked
    <3>. QED
      BY <1>7, <1>12, <3>1 DEF Linked, Within, ItemsOf
  <2>3. Counted'
    BY <1>3, <1>8, <1>10, <1>11, <1>12 DEF Counted, ItemsOf
  <2>. QED
    BY <1>3, <2>1, <2>2, <2>3 DEF PoolInv
<1>13. CASE /\ GivesBack(b)
            /\ free_queue' = WithoutBlock(q, b)
            /\ total' = total - NumPerBlock /\ blocks' = blocks \ {b}
  <2>1. live' \cap ItemsOf(b) = {}
    <3>1. Cardinality(live' \cap ItemsOf(b)) = 0
      BY <1>5, <1>8, <1>13 DEF GivesBack
    <3>2. IsFiniteSet(live' \cap ItemsOf(b))
      <4>1. live' \cap ItemsOf(b) \in SUBSET ItemsOf(b)
        OBVIOUS
      <4>. QED
        BY <4>1, ItemsFinite, FS_Subset
    <3>. QED
      BY <3>1, <3>2, FS_EmptySet
  <2>2. Within(blocks') = Within(blocks) \ ItemsOf(b)
    BY <1>4, <1>5, <1>13, WithinBlocks
  <2>3. /\ free_queue' \in Seq(Items) /\ IsInjective(free_queue')
        /\ Range(free_queue') = {x \in Range(q) : BlockOf(x) # b}
    BY <1>6, <1>13, WithoutBlockKeeps
  <2>4. Range(free_queue') = Within(blocks') \ live'
    <3>1. \A x \in Range(q) : BlockOf(x) # b <=> x \notin ItemsOf(b)
      <4>1. \A x \in Within(blocks) : x \in Items
        BY <1>4, WithinBlocks
      <4>. QED
        BY <1>4, <1>7, <4>1, WithinBlocks, ItemOfBlock
    <3>. QED
      BY <1>7, <2>2, <2>3, <3>1
  <2>5. Linked'
    <3>1. live' \subseteq Within(blocks') /\ posted_events' \subseteq live'
      BY <1>2, <1>3, <2>1, <2>2 DEF Linked
    <3>2. Within(blocks)' = Within(blocks')
      BY DEF Within, ItemsOf
    <3>. QED
      BY <2>4, <3>1, <3>2 DEF Linked
  <2>6. b # cur_epoch
    <3>1. MidEpoch \in 0..cur_epoch /\ cur_epoch \in Nat
      BY <1>2, <1>11, MidEpochBounds DEF Typed
    <3>2. b < MidEpoch /\ b \in Nat
      BY <1>5, <1>13 DEF GivesBack, Epochs
    <3>. QED
      BY <3>1, <3>2
  <2>7. total' = NumPerBlock * Cardinality(blocks') /\ total' \in Nat
    <3>1. /\ Cardinality(blocks') = Cardinality(blocks) - 1
          /\ IsFiniteSet(blocks')
      BY <1>4, <1>5, <1>13, FS_RemoveElement
    <3>2. PICK c : c = Cardinality(blocks')
      OBVIOUS
    <3>3. c \in Nat /\ Cardinality(blocks) = c + 1 /\ NumPerBlock \in Nat
      BY <1>4, <3>1, <3>2, FS_CardinalityType, PoolAssumption
    <3>4. NumPerBlock * (c + 1) = NumPerBlock * c + NumPerBlock /\ NumPerBlock * c \in Nat
      BY <3>3, OneMore
    <3>5. total = NumPerBlock * c + NumPerBlock
      BY <1>11, <3>3, <3>4
    <3>6. PICK m : m = NumPerBlock * c
      OBVIOUS
    <3>7. total' = m /\ m \in Nat
      BY <1>13, <3>3, <3>4, <3>5, <3>6
    <3>. QED
      BY <3>2, <3>6, <3>7
  <2>8. Typed'
    <3>1. blocks' \subseteq 1..cur_epoch' /\ cur_epoch' \in 0..MaxEpoch
      BY <1>2, <1>3, <1>13 DEF Typed
    <3>. QED
      BY <1>2, <1>3, <1>9, <1>10, <2>3, <2>7, <3>1 DEF Typed
  <2>9. Counted'
    <3>1. cur_epoch' > 0 => cur_epoch' \in blocks'
      BY <1>3, <1>11, <1>13, <2>6
    <3>2. \A c \in blocks' : block_used'[c] = Cardinality(live' \cap ItemsOf(c))
      BY <1>8, <1>13
    <3>. QED
      BY <1>10, <2>7, <3>1, <3>2 DEF Counted, ItemsOf
  <2>. QED
    BY <1>3, <2>5, <2>8, <2>9 DEF PoolInv
<1>. QED
  BY <1>3, <1>12, <1>13

LEMMA MmCleanupFreesBlockInv == ASSUME PoolInv, MmCleanupFreesBlock PROVE PoolInv'
<1>1. PICK b : b = BlockOf(Head(free_queue))
  OBVIOUS
<1>2. /\ free_queue' = WithoutBlock(free_queue, b) /\ blocks' = blocks \ {b}
      /\ phase = "closing" /\ live = {} /\ free_queue # <<>>
      /\ UNCHANGED <<cur_epoch, total, used, block_used, live, posted_events, phase>>
  BY <1>1 DEF MmCleanupFreesBlock
<1>3. Typed /\ Linked /\ Counted
  BY DEF PoolInv
<1>4. /\ free_queue \in Seq(Items) /\ IsInjective(free_queue)
      /\ blocks \subseteq Epochs /\ Range(free_queue) = Within(blocks)
  BY <1>2, <1>3, BlocksFinite DEF Typed, Linked
<1>5. b \in blocks
  BY <1>1, <1>2, <1>4, WithinBlocks, QueueServed
<1>6. /\ free_queue' \in Seq(Items) /\ IsInjective(free_queue')
      /\ Range(free_queue') = {x \in Within(blocks) : BlockOf(x) # b}
  BY <1>2, <1>4, WithoutBlockKeeps
<1>7. Range(free_queue') = Within(blocks')
  <2>1. Within(blocks') = Within(blocks) \ ItemsOf(b) /\ Within(blocks) \subseteq Items
    BY <1>2, <1>4, <1>5, WithinBlocks
  <2>2. \A x \in Within(blocks) : BlockOf(x) # b <=> x \notin ItemsOf(b)
    BY <1>4, <2>1, WithinBlocks, ItemOfBlock
  <2>. QED
    BY <1>6, <2>1, <2>2
<1>8. Linked'
  <2>1. Within(blocks)' = Within(blocks')
    BY DEF Within, ItemsOf
  <2>2. live' = {} /\ posted_events' = {}
    BY <1>2, <1>3 DEF Linked
  <2>. QED
    BY <1>7, <2>1, <2>2 DEF Linked
<1>9. Typed'
  BY <1>2, <1>3, <1>6 DEF Typed
<1>10. Counted'
  BY <1>2, <1>3 DEF Counted, Deciding, ItemsOf
<1>. QED
  BY <1>2, <1>8, <1>9, <1>10 DEF PoolInv

\* With nothing held no block is in use, so the cleanup ends on an empty queue.
LEMMA MmCleanupReturnsInv == ASSUME PoolInv, MmCleanupReturns PROVE PoolInv'
<1>1. Typed /\ Linked /\ Counted
  BY DEF PoolInv
<1>2. /\ live = {} /\ phase' = "cleaned"
      /\ free_queue # <<>> => block_used[BlockOf(Head(free_queue))] > 0
      /\ UNCHANGED <<free_queue, cur_epoch, total, used, blocks, block_used,
                     live, posted_events>>
  BY DEF MmCleanupReturns
<1>3. /\ free_queue \in Seq(Items) /\ IsInjective(free_queue)
      /\ blocks \subseteq Epochs /\ Range(free_queue) = Within(blocks)
  BY <1>1, <1>2, BlocksFinite DEF Typed, Linked
<1>4. free_queue = <<>>
  <2>. SUFFICES ASSUME free_queue # <<>> PROVE FALSE
    OBVIOUS
  <2>1. PICK b : b = BlockOf(Head(free_queue))
    OBVIOUS
  <2>2. b \in blocks
    BY <1>3, <2>1, WithinBlocks, QueueServed
  <2>3. block_used[b] = Cardinality(live \cap ItemsOf(b))
    BY <1>1, <2>2 DEF Counted
  <2>4. live \cap ItemsOf(b) = {}
    BY <1>2
  <2>5. block_used[b] = 0
    BY <2>3, <2>4, FS_EmptySet
  <2>. QED
    BY <1>2, <2>1, <2>5
<1>5. blocks = {}
  <2>1. Within(blocks) = {}
    BY <1>3, <1>4 DEF Range
  <2>2. \A b \in blocks : <<b, 1>> \in Within(blocks)
    BY PoolAssumption DEF Within, ItemsOf
  <2>. QED
    BY <2>1, <2>2
<1>6. Typed'
  BY <1>1, <1>2 DEF Typed
<1>7. Linked'
  BY <1>1, <1>2 DEF Linked, Within, ItemsOf
<1>8. Counted'
  BY <1>1, <1>2 DEF Counted, Deciding, ItemsOf
<1>. QED
  BY <1>2, <1>5, <1>6, <1>7, <1>8 DEF PoolInv

LEMMA NextPoolInv == ASSUME PoolInv, [PoolNext]_poolVars PROVE PoolInv'
<1>0. Typed /\ Linked /\ Counted
  BY DEF PoolInv
<1>1. CASE AllocFromQueue
  BY <1>1, AllocFromQueueInv
<1>2. CASE AllocNewBlock
  BY <1>2, AllocNewBlockInv
<1>3. ASSUME NEW sem \in live, SemaGc(sem) PROVE PoolInv'
  BY <1>3, SemaGcInv
<1>4. CASE \/ UNCHANGED poolVars
           \/ LuaClose
           \/ \E sem \in live : PostEvent(sem)
           \/ \E sem \in posted_events : RunPostedEvent(sem)
  <2>1. /\ UNCHANGED <<free_queue, cur_epoch, total, used, blocks, block_used, live>>
        /\ posted_events' \subseteq live
        /\ \/ UNCHANGED phase
           \/ phase = "serving" /\ phase' = "closing"
    BY <1>0, <1>4 DEF poolVars, LuaClose, PostEvent, RunPostedEvent, Linked
  <2>2. Typed'
    BY <1>0, <2>1 DEF Typed
  <2>3. Linked'
    BY <1>0, <2>1 DEF Linked, Within, ItemsOf
  <2>4. Counted'
    BY <1>0, <2>1 DEF Counted, Deciding, ItemsOf
  <2>. QED
    BY <2>1, <2>2, <2>3, <2>4 DEF PoolInv
<1>5. CASE MmCleanupFreesBlock
  BY <1>5, MmCleanupFreesBlockInv
<1>6. CASE MmCleanupReturns
  BY <1>6, MmCleanupReturnsInv
<1>. QED
  BY <1>1, <1>2, <1>3, <1>4, <1>5, <1>6 DEF PoolNext

LEMMA PoolInvariant == PoolSpec => []PoolInv
BY InitPoolInv, NextPoolInv, PTL DEF PoolSpec

----------------------------------------------------------------------------
\* The queue holds items of blocks, each block has between none and all of its
\* items out, and what Lua holds or the event loop still has to run are items.
THEOREM PoolTypeSafe == PoolSpec => []PoolTypeOK
<1>1. PoolInv => PoolTypeOK
  <2>. SUFFICES ASSUME PoolInv PROVE PoolTypeOK
    OBVIOUS
  <2>1. Typed /\ Linked /\ blocks \subseteq Epochs
    BY BlocksFinite DEF PoolInv
  <2>2. Within(blocks) \subseteq Items
    BY <2>1, WithinBlocks
  <2>. QED
    BY <2>1, <2>2 DEF Typed, Linked, PoolTypeOK
<1>. QED
  BY <1>1, PoolInvariant, PTL

\* The counts by which blocks are given back (ngx_http_lua_free_sema) agree with
\* what is really out, whatever the order in which semaphores are collected:
\* every item of a block kept is held by Lua or once in the free queue, and the
\* midpoint epoch does not wrap below zero.
THEOREM CountsSafe == PoolSpec => []CountsAgree
<1>1. PoolInv => CountsAgree
  <2>. SUFFICES ASSUME PoolInv, phase # "cleaned" PROVE CountsAgree
    BY DEF CountsAgree
  <2>1. Typed /\ Linked /\ Counted
    BY DEF PoolInv
  <2>2. Cardinality(Range(free_queue)) = Len(free_queue)
    <3>1. free_queue \in Seq(Items) /\ IsInjective(free_queue)
      BY <2>1 DEF Typed
    <3>. QED
      BY <3>1, QueueCardinality
  <2>3. Range(free_queue) = (UNION {ItemsOf(b) : b \in blocks}) \ live
    BY <2>1 DEF Linked, Within
  <2>4. ASSUME phase = "serving"
        PROVE  /\ total = NumPerBlock * Cardinality(blocks)
               /\ cur_epoch > 0 => cur_epoch \in blocks
               /\ MidEpoch >= 0
    <3>1. /\ total = NumPerBlock * Cardinality(blocks)
          /\ cur_epoch > 0 => cur_epoch \in blocks
      BY <2>1, <2>4 DEF Counted, Deciding
    <3>2. MidEpoch \in 0..cur_epoch /\ cur_epoch \in Nat
      BY <2>1, <3>1, MidEpochBounds DEF Typed
    <3>. QED
      BY <3>1, <3>2
  <2>. QED
    BY <2>1, <2>2, <2>3, <2>4 DEF CountsAgree, Counted
<1>. QED
  BY <1>1, PoolInvariant, PTL

\* No block goes back while Lua, the free queue or the posted events still refer
\* to an item of it, and ngx_http_lua_sema_mm_cleanup leaves none at exit.
THEOREM BlocksSafe == PoolSpec => []BlocksFollowUse
<1>1. PoolInv => BlocksFollowUse
  <2>. SUFFICES ASSUME PoolInv PROVE BlocksFollowUse
    OBVIOUS
  <2>1. Typed /\ Linked /\ blocks \subseteq Epochs
    BY BlocksFinite DEF PoolInv
  <2>2. \A sem \in Within(blocks) : BlockOf(sem) \in blocks
    BY <2>1, WithinBlocks
  <2>3. NothingDangles
    BY <2>1, <2>2 DEF NothingDangles, Linked
  <2>4. ASSUME phase = "cleaned" PROVE blocks = {} /\ free_queue = <<>>
    <3>1. blocks = {} /\ free_queue \in Seq(Items)
      BY <2>1, <2>4 DEF PoolInv, Typed
    <3>2. Range(free_queue) = {}
      BY <2>1, <3>1 DEF Linked, Within
    <3>3. free_queue = <<>>
      <4>1. free_queue # <<>> => Head(free_queue) \in Range(free_queue)
        BY <2>1, QueueServed DEF Typed
      <4>. QED
        BY <3>2, <4>1
    <3>. QED
      BY <3>1, <3>3
  <2>. QED
    BY <2>3, <2>4 DEF BlocksFollowUse, ExitLeavesNothing
<1>. QED
  BY <1>1, PoolInvariant, PTL
=============================================================================
