----------------------------- MODULE Semaphore -----------------------------
(***************************************************************************)
(* One ngx.semaphore of one nginx worker: ngx_http_lua_semaphore.c behind  *)
(* the Lua API of lua-resty-core's ngx/semaphore.lua.                      *)
(*                                                                         *)
(* A worker is one OS thread that runs an event loop.  Lua code runs in    *)
(* light threads and only inside a handler the loop called, so at any time *)
(* at most one light thread is "running"; everybody else is suspended.     *)
(* What makes the semaphore hard is that its event handler resumes Lua     *)
(* code from inside its own loop: the resumed thread may post, wait, kill  *)
(* or end before the handler looks at its queue again.                     *)
(***************************************************************************)
EXTENDS Integers, Sequences, SequencesExt

CONSTANTS Threads,    \* light threads that use the semaphore
          NoThread,   \* nobody runs Lua code: the event loop has the CPU
          InitCount,  \* ngx.semaphore.new(InitCount)
          MaxPosts    \* bound: resources posted in one behaviour

ASSUME SemaphoreAssumption == /\ NoThread \notin Threads
                              /\ InitCount \in Nat
                              /\ MaxPosts \in Nat

VARIABLES
    resource_count,   \* sem->resource_count
    wait_count,       \* sem->wait_count
    wait_queue,       \* sem->wait_queue: the co_ctx'es waiting, oldest first
    posted,           \* sem->sem_event is in ngx_posted_events
    in_handler,       \* ngx_http_lua_sema_handler is on the C stack
    timer_set,        \* timer_set[t]: t's co_ctx->sleep is in the timer tree
    cleanup,          \* cleanup[t]: co_ctx->cleanup = ngx_http_lua_sema_cleanup
    co_status,        \* what each light thread is doing
    running,          \* the light thread the CPU executes, or NoThread
    posts, grants     \* history: resources posted, resources handed out

vars == <<resource_count, wait_count, wait_queue, posted, in_handler,
          timer_set, cleanup, co_status, running, posts, grants>>

threadVars == <<timer_set, cleanup, co_status>>

----------------------------------------------------------------------------
Init == /\ resource_count = InitCount
        /\ wait_count = 0
        /\ wait_queue = <<>>
        /\ posted = FALSE
        /\ in_handler = FALSE
        /\ timer_set = [t \in Threads |-> FALSE]
        /\ cleanup = [t \in Threads |-> FALSE]
        /\ co_status = [t \in Threads |-> "ready"]
        /\ running = NoThread
        /\ posts = 0
        /\ grants = 0

\* The event loop has returned from every handler.
LoopIdle == running = NoThread /\ ~in_handler

----------------------------------------------------------------------------
(* Lua code: sem:post, sem:wait, and the ways a slice of Lua code ends.    *)

\* Fault: the resources are added but nobody wakes the waiters.
PostWithoutEvent(n) ==
    /\ running # NoThread
    /\ posts + n <= MaxPosts
    /\ resource_count' = resource_count + n
    /\ posts' = posts + n
    /\ UNCHANGED <<wait_count, wait_queue, posted, in_handler, threadVars,
                   running, grants>>

\* The event is posted only when somebody waits; posting an event that is
\* already in the queue of posted events changes nothing.
Post(n) ==
    /\ running # NoThread
    /\ posts + n <= MaxPosts
    /\ resource_count' = resource_count + n
    /\ posted' = (posted \/ wait_queue # <<>>)
    /\ posts' = posts + n
    /\ UNCHANGED <<wait_count, wait_queue, in_handler, threadVars, running,
                   grants>>

\* Fault: the queue is not looked at.
TakeAtOnceUnfairly == resource_count > 0

\* A resource may be taken at once only if that overtakes nobody.
MayTakeAtOnce == wait_queue = <<>> /\ resource_count > 0

\* Fault: the resource taken is not counted.
WaitAcquiresUncounted(t) ==
    /\ running = t
    /\ MayTakeAtOnce
    /\ grants' = grants + 1
    /\ UNCHANGED <<resource_count, wait_count, wait_queue, posted, in_handler,
                   threadVars, running, posts>>

WaitAcquires(t) ==
    /\ running = t
    /\ MayTakeAtOnce
    /\ resource_count' = resource_count - 1
    /\ grants' = grants + 1
    /\ UNCHANGED <<wait_count, wait_queue, posted, in_handler, threadVars,
                   running, posts>>

\* Who runs when t gives up the CPU: the C code that resumed it goes on, or
\* another thread is resumed first (its parent, or one with a request posted:
\* ngx_http_lua_run_posted_threads).
MayFollow(t) == {NoThread} \cup {u \in Threads \ {t} : co_status[u] = "ready"}

\* Fault: the timer is not armed.
WaitYieldsWithoutTimer(t) ==
    /\ running = t
    /\ ~MayTakeAtOnce
    /\ wait_count' = wait_count + 1
    /\ wait_queue' = Append(wait_queue, t)
    /\ cleanup' = [cleanup EXCEPT ![t] = TRUE]
    /\ co_status' = [co_status EXCEPT ![t] = "waiting"]
    /\ running' \in MayFollow(t)
    /\ UNCHANGED <<resource_count, posted, in_handler, timer_set, posts, grants>>

\* wait(0) with nothing to take returns "timeout" and changes no state, and
\* so does a wait where yielding is not allowed: both are stuttering steps.
\* With a positive timeout the thread queues up and yields to its caller.
WaitYields(t) ==
    /\ running = t
    /\ ~MayTakeAtOnce
    /\ wait_count' = wait_count + 1
    /\ timer_set' = [timer_set EXCEPT ![t] = TRUE]
    /\ wait_queue' = Append(wait_queue, t)
    /\ cleanup' = [cleanup EXCEPT ![t] = TRUE]
    /\ co_status' = [co_status EXCEPT ![t] = "waiting"]
    /\ running' \in MayFollow(t)
    /\ UNCHANGED <<resource_count, posted, in_handler, posts, grants>>

\* The running thread yields for something else, or ends.
SliceEnds(t, status) ==
    /\ running = t
    /\ status \in {"ready", "dead"}
    /\ co_status' = [co_status EXCEPT ![t] = status]
    /\ running' \in MayFollow(t)
    /\ UNCHANGED <<resource_count, wait_count, wait_queue, posted, in_handler,
                   timer_set, cleanup, posts, grants>>

\* The loop runs a thread for a reason of its own: a dead thread's slot is
\* reused by a new one.
SliceStarts(t) ==
    /\ LoopIdle
    /\ co_status[t] # "waiting"
    /\ co_status' = [co_status EXCEPT ![t] = "ready"]
    /\ running' = t
    /\ UNCHANGED <<resource_count, wait_count, wait_queue, posted, in_handler,
                   timer_set, cleanup, posts, grants>>

----------------------------------------------------------------------------
(* What happens to a waiting thread.                                       *)

PositionOf(t) == CHOOSE i \in DOMAIN wait_queue : wait_queue[i] = t

\* Fault: a waiter that leaves is still counted.
DequeueUncounted(t) == /\ wait_queue' = RemoveAt(wait_queue, PositionOf(t))
                       /\ cleanup' = [cleanup EXCEPT ![t] = FALSE]
                       /\ UNCHANGED wait_count

Dequeue(t) == /\ wait_queue' = RemoveAt(wait_queue, PositionOf(t))
              /\ wait_count' = wait_count - 1
              /\ cleanup' = [cleanup EXCEPT ![t] = FALSE]

\* ngx_http_lua_sema_resume runs the thread's Lua code inside the caller.
Resume(t) == /\ co_status' = [co_status EXCEPT ![t] = "ready"]
             /\ running' = t

\* The waiting thread is killed or its request is torn down, by Lua code or
\* by the loop: co_ctx->cleanup undoes the wait.
SemaCleanup(t) ==
    /\ cleanup[t]
    /\ timer_set' = [timer_set EXCEPT ![t] = FALSE]
    /\ Dequeue(t)
    /\ co_status' = [co_status EXCEPT ![t] = "dead"]
    /\ UNCHANGED <<resource_count, posted, in_handler, running, posts, grants>>

\* The timer fired: nginx clears timer_set before it calls the handler.
SemaTimeoutHandler(t) ==
    /\ LoopIdle
    /\ timer_set[t]
    /\ timer_set' = [timer_set EXCEPT ![t] = FALSE]
    /\ Dequeue(t)
    /\ Resume(t)
    /\ UNCHANGED <<resource_count, posted, in_handler, posts, grants>>

\* The loop takes the event off ngx_posted_events and calls its handler ...
SemaHandler ==
    /\ LoopIdle
    /\ posted
    /\ posted' = FALSE
    /\ in_handler' = TRUE
    /\ UNCHANGED <<resource_count, wait_count, wait_queue, threadVars, running,
                   posts, grants>>

\* Fault: the loop looks at the queue only.
MayGrantUnchecked == wait_queue # <<>>

MayGrant == wait_queue # <<>> /\ resource_count > 0

\* ... whose loop gives a resource to the oldest waiter and runs it ...
SemaHandlerGrants ==
    /\ in_handler /\ running = NoThread
    /\ MayGrant
    /\ LET t == Head(wait_queue) IN
         /\ wait_queue' = Tail(wait_queue)
         /\ wait_count' = wait_count - 1
         /\ cleanup' = [cleanup EXCEPT ![t] = FALSE]
         /\ timer_set' = [timer_set EXCEPT ![t] = FALSE]
         /\ Resume(t)
    /\ resource_count' = resource_count - 1
    /\ grants' = grants + 1
    /\ UNCHANGED <<posted, in_handler, posts>>

\* Fault: "if" in place of "while".
SemaHandlerReturnsEarly ==
    /\ in_handler /\ running = NoThread
    /\ in_handler' = FALSE
    /\ UNCHANGED <<resource_count, wait_count, wait_queue, posted, threadVars,
                   running, posts, grants>>

\* ... until there is nobody to serve or nothing to give.
SemaHandlerReturns ==
    /\ in_handler /\ running = NoThread
    /\ ~MayGrant
    /\ in_handler' = FALSE
    /\ UNCHANGED <<resource_count, wait_count, wait_queue, posted, threadVars,
                   running, posts, grants>>

----------------------------------------------------------------------------
Next == \/ \E n \in 1..MaxPosts : Post(n)
        \/ \E t \in Threads : \/ WaitAcquires(t)
                              \/ WaitYields(t)
                              \/ \E s \in {"ready", "dead"} : SliceEnds(t, s)
                              \/ SliceStarts(t)
                              \/ SemaCleanup(t)
                              \/ SemaTimeoutHandler(t)
        \/ SemaHandler
        \/ SemaHandlerGrants
        \/ SemaHandlerReturns

(***************************************************************************)
(* Lua code that runs gives the CPU back some time (nginx has no other     *)
(* thread to take it away); a C loop goes on once its callee returned; and *)
(* one turn of the event loop runs every posted event and every timer that *)
(* expired, however busy the loop is: strong fairness for those two.       *)
(***************************************************************************)
Fairness == /\ WF_vars(\E t \in Threads : SliceEnds(t, "ready") /\ running' = NoThread)
            /\ WF_vars(SemaHandlerGrants)
            /\ WF_vars(SemaHandlerReturns)
            /\ SF_vars(SemaHandler)
            /\ \A t \in Threads : SF_vars(SemaTimeoutHandler(t))

Spec == Init /\ [][Next]_vars
FairSpec == Spec /\ Fairness

----------------------------------------------------------------------------
TypeOK == /\ resource_count \in Nat
          /\ wait_count \in Nat
          /\ wait_queue \in Seq(Threads)
          /\ posted \in BOOLEAN
          /\ in_handler \in BOOLEAN
          /\ timer_set \in [Threads -> BOOLEAN]
          /\ cleanup \in [Threads -> BOOLEAN]
          /\ co_status \in [Threads -> {"ready", "waiting", "dead"}]
          /\ running \in Threads \cup {NoThread}
          /\ posts \in Nat
          /\ grants \in Nat

\* No lost wakeup: whenever a waiter and a free resource exist together, the
\* handler is running its loop or the loop is going to call it.  post relies
\* on the queue it sees being the queue the handler will find.
NoLostWakeup ==
    wait_queue # <<>> /\ resource_count > 0 => posted \/ in_handler

\* The three ways out of a wait (granted, timed out, killed) leave nothing
\* behind: a thread is queued exactly once iff it waits iff its timer and its
\* cleanup are armed, and wait_count, which sem:count() subtracts, agrees.
WaitersConsistent ==
    /\ wait_count = Len(wait_queue)
    /\ IsInjective(wait_queue)
    /\ \A t \in Threads : /\ co_status[t] = "waiting" <=> t \in Range(wait_queue)
                          /\ timer_set[t] <=> co_status[t] = "waiting"
                          /\ cleanup[t] <=> co_status[t] = "waiting"

\* No resource is lost or made up by a grant that races with a timeout, a kill
\* or a post from inside the handler's loop.
ResourcesConserved == grants + resource_count = InitCount + posts

\* Whoever is in both queues has the same people ahead in both.
KeepsOrder(q, r) ==
    \A i, j \in DOMAIN q : i < j =>
        \A k, m \in DOMAIN r : (r[k] = q[i] /\ r[m] = q[j]) => k < m

\* First come, first served across every path: nobody gets a resource while
\* somebody who came earlier is still waiting, and those who keep waiting
\* keep their order.
FirstComeFirstServed ==
    [][/\ grants' > grants =>
            wait_queue = <<>> \/ wait_queue' = Tail(wait_queue)
       /\ KeepsOrder(wait_queue, wait_queue')]_vars

\* Every wait ends: the timer the wait armed is never lost.
EveryWaitEnds ==
    \A t \in Threads : co_status[t] = "waiting" ~> co_status[t] # "waiting"

\* The C code, with its posted event and its re-entrant loop, implements the
\* first-come-first-served semaphore of AbstractSemaphore, fairness included.
Abstract == INSTANCE AbstractSemaphore
                WITH avail <- resource_count, waiters <- wait_queue
ImplementsAbstract == Abstract!Spec
=============================================================================
