------------------------- MODULE AbstractSemaphore -------------------------
(***************************************************************************)
(* What ngx.semaphore promises its users: a counting semaphore whose       *)
(* waiters are served first come, first served, that never lets a thread   *)
(* queue up while a resource is free and nobody is ahead of it, and that   *)
(* never leaves a free resource and a waiter together for ever.            *)
(***************************************************************************)
EXTENDS Integers, Sequences, SequencesExt

CONSTANTS Threads,    \* the light threads that may wait
          InitCount   \* the argument of ngx.semaphore.new

VARIABLES avail,      \* resources nobody holds
          waiters     \* the threads waiting, oldest first

vars == <<avail, waiters>>

Init == avail = InitCount /\ waiters = <<>>

\* Any positive number of resources is released at once.
Post == avail' > avail /\ UNCHANGED waiters

Acquire == /\ waiters = <<>> /\ avail > 0
           /\ avail' = avail - 1
           /\ UNCHANGED waiters

Join(t) == /\ ~(waiters = <<>> /\ avail > 0)
           /\ t \notin Range(waiters)
           /\ waiters' = Append(waiters, t)
           /\ UNCHANGED avail

Grant == /\ waiters # <<>> /\ avail > 0
         /\ waiters' = Tail(waiters)
         /\ avail' = avail - 1

\* A waiter gives up: its timeout fired, or its thread was killed.
Leave == /\ \E i \in DOMAIN waiters : waiters' = RemoveAt(waiters, i)
         /\ UNCHANGED avail

Next == \/ Post
        \/ Acquire
        \/ \E t \in Threads : Join(t)
        \/ Grant
        \/ Leave

SafeSpec == Init /\ [][Next]_vars
Spec == SafeSpec /\ WF_vars(Grant)
=============================================================================
