# A verification project for openresty-wg

openresty-wg is the OpenResty 1.25.3.1 bundle: nginx with an embedded LuaJIT,
the `ngx_lua` / `ngx_stream_lua` modules, the `lua-resty-*` libraries and a
collection of C modules, all under `src/bundle/`.  nginx, LuaJIT, OpenSSL and
PCRE are not part of the repository (submodules or downloads); here they are
*external* and appear only through what the code in `src/` asks of them.

This directory holds TLA+ modules translated from that code, TLC
configurations that check them on small instances, and TLAPS proofs.

    tlc -workers 2 -config MCSemaphore.cfg MCSemaphore.tla
    tlapm SemaphoreProofs.tla

## 1. Inventory

How the system runs.  A master process forks worker processes.  Each worker is
one OS thread with an event loop: it takes expired timers and socket events,
then the queue of *posted* events, and calls their C handlers.  A handler may
resume a Lua *light thread*, which runs until it yields or ends; only then the
handler goes on.  So inside a worker nothing is preempted, and what is hard is
re-entrancy: code that a handler resumes may change the very structure the
handler is working on.  Workers share nothing but shared memory zones, whose
calls hold a mutex; across workers the hazards are real interleavings,
disagreeing clocks and crashes.

| Component | State | Operations | Hard part | Correct when |
|---|---|---|---|---|
| `ngx.semaphore` (`ngx_http_lua_semaphore.c`, `ngx/semaphore.lua`) | `resource_count`, `wait_count`, `wait_queue`, a posted event, per waiter a timer and a cleanup | new, post, wait, count, handler, timeout, cleanup | handler loop resumes Lua; timeout or kill races with post | no lost wakeup, conservation, FCFS, every wait ends |
| its block allocator (same file) | blocks with epochs, free queue, three counters | alloc, free, gc, mm_cleanup | collector frees in any order; blocks go back while serving | nothing dangles, counts agree, exit frees all |
| `lua_shared_dict` (`ngx_http_lua_shdict.c`, `resty/core/shdict.lua`) | rbtree + LRU queue + slab memory in a shared zone | get/set/add/replace/incr/delete, lists, flush, expire, ttl, keys | full zone, lazy expiry, workers' clocks, partial failures | tree, queue and memory agree; who may evict whom |
| `resty.lock` (`lock.lua`) | one dict entry per lock; per worker a table of references | new, lock, unlock, expire, gc | lease lapses, owner crashes, zone evicts, polling | mutual exclusion of valid leases, orphan released, lock returns |
| captured error log (`ngx_http_lua_log_ringbuf.c`) | ring of variable-size records | write, read, filter level | wrap-around, head = tail, filling at the end | records whole, in order, only oldest lost |
| timers (`ngx_http_lua_timer.c`) | pending and running counters, timer tree, posted delayed events | at, every, handler, abort at exit | limits, overlap, premature runs | counters and limits right, memory and VMs given back, every timer handled, premature told truly |
| light threads (`ngx_http_lua_uthread.c`, `_coroutine.c`, `_control.c`, `_util.c`) | coroutine contexts, parents, posted threads, zombies, pending subrequests | spawn, wait, kill, on_abort, create, resume, yield, exit, abort | kill of a thread that waits; parent dies first; wait for several | counter right, nobody forgotten, each call answered by what it waits for, handler ends |
| TCP cosockets (`ngx_http_lua_socket_tcp.c`) | pool: cache, free, connect queue; per socket flags | connect, setkeepalive, close, queue resume | backlog, timeouts racing with a freed connection | counters and queue agree, no connection has two owners, every queued connect answered |
| worker threads, pipe, sleep (`_worker_thread.c`, `_pipe.c`, `_sleep.c`) | thread pool VMs, child processes | run, spawn, wait, kill | thread posts back to a request that is gone | result goes to the right thread once |
| `lua-resty-lrucache` | hash table + LRU queue (pureffi: buckets) | get, set, delete, flush | eviction, stale entries, bucket reuse | table and queue agree |
| `lua-resty-limit-traffic` | dict entries | incoming, leaving, uncommit | read-then-write between workers | rate and concurrency bounded |
| `lua-resty-upstream-healthcheck` | dict counters, per-worker peer tables, versions | timer-driven checks | a lock that is never released, results spread over workers, propagation, dying workers | one checker, results counted in a row, workers agree in the end |
| `ngx_stream_lua` | as `ngx_lua` | as `ngx_lua` | as `ngx_lua` | as `ngx_lua` |
| protocol clients, C filter modules, parsers, tools | per request | encode, parse, filter | I/O | format |

How they interact: `resty.lock` and the limiters are built from
`lua_shared_dict` calls (`RestyLock` uses the operators of `ShdictCore`, so a
lock can be evicted exactly as the zone's code does it); semaphores, sleeps and
cosockets arm the same per-coroutine timer and cleanup; the allocator's items
are finalized by LuaJIT's collector, and at exit by `lua_close`, before
`mm_cleanup`.

The hazards are listed line by line in `PROJECT.json`, each with the properties
that would catch it.

## 2. Modules

| Module | Models | Notes |
|---|---|---|
| `AbstractSemaphore` | what a semaphore promises | abstract |
| `Semaphore` | `ngx_http_lua_semaphore.c:256-549` | refines `AbstractSemaphore` |
| `SemaphorePool` | `ngx_http_lua_semaphore.c:44-253, 552-577` | |
| `ShdictCore` | one call on a zone, as operators on `[tree, lru, used]` | the zone and the workers' clocks, which the next two share |
| `SharedDict` | a zone with workers, clocks, unfinished pushes | |
| `RestyLock` | `lock.lua` on a zone, with time, crashes, other users | composes `ShdictCore` |
| `AbstractLog` | what the captured log promises | abstract |
| `LogRingbuf` | `ngx_http_lua_log_ringbuf.c` | refines `AbstractLog` |
| `Timer` | `ngx_http_lua_timer.c`, the cleanups of `ngx_http_lua_util.c` it relies on | |
| `LightThread` | `ngx_http_lua_uthread.c`, `_coroutine.c`, and `run_thread`, `run_posted_threads`, `finalize_threads` of `ngx_http_lua_util.c`; what `_control.c` and `_subrequest.c` mean for threads | |
| `SocketPool` | the pools of `ngx_http_lua_socket_tcp.c` | |
| `HealthCheck` | the checking cycle of `healthcheck.lua` | |
| `CollectionLemmas` | lemmas about cardinalities, queues without repetitions, and loops | TLAPS |
| `SemaphoreProofs`, `TimerProofs`, `LightThreadProofs`, `SocketPoolProofs`, `HealthCheckProofs`, `SharedDictProofs`, `LogRingbufProofs` | theorems about the module of that name; `SemaphoreProofs` also about `SemaphorePool`, `SharedDictProofs` also about `RestyLock` | TLAPS |
| `MC*` | instances for TLC | |

Definitions named *Fault* in the comments (`PostWithoutEvent`, `TrySet`, ...) are
plausible bugs of the definition that follows them.  No specification uses
them; each is there to show that a property fails when the code has that bug.

### Semaphore

`co_status`, `running`, `in_handler` stand for the light threads, for who has
the CPU, and for the handler being on the C stack.  `Post`, `WaitAcquires` and
`WaitYields` are the FFI calls; `SemaHandler`, `SemaHandlerGrants` and
`SemaHandlerReturns` are the handler, split at every resumption of Lua code;
between two of these steps any Lua code may run (`SliceEnds`, further posts and
waits, `SemaCleanup` of other threads).  `SliceStarts`, `SliceEnds` and
`MayFollow` are the event loop and `run_posted_threads`.  `wait(0)` and waits in
a phase that cannot yield change nothing.  `posts` and `grants` are history.

### SemaphorePool

A block is named by its epoch, an item by block and index.  The free queue is a
sequence (head = newer side).  `SemaGc` may take any live item at any time.
`LuaClose` comes before the cleanup because the cleanups of the configuration
pool run in reverse order of registration.

### ShdictCore and SharedDict

A dictionary is the record `[tree, lru, used]`.  Every C function that runs under the
mutex is an operator that returns the new dictionary and the answer; the calls
share `ExpireSome` (at most two expired entries, from the tail) and
`AllocByForce` (up to 30 evictions).  A value is its type and its length class:
the code never looks inside a string.  The slab allocator is a number of units;
fragmentation is not modelled, so "no memory" happens only when the units are
used up.  Each worker has its own clock.  A push is two steps, because the length it
returns is read after the unlock.

### RestyLock

The lock's entry lives in a `ShdictCore` dictionary that other locks share.
Time is relative: the true time is always `Base`, `Tick` moves every stored
time one unit back, so behaviours of any length are checked with finitely many
states.  `LockNow`, `LockWaits`, `LockRetries` are `lock()` split at its
`sleep`.  `memo` is the table of references with its free list.  `owner`, `lease`
and `disturbed` are history: who made the entry, until when, and whether an
object deleted or renewed a lease that was not its own or a valid entry was
evicted.  `MutualExclusion` is claimed only while `disturbed` is false: the
steps that set it are the documented and undocumented ways to lose a lock (see
section 6).  `HandlesSound` says that the slots of `memo` in use and its free
list never overlap; `NobodyStuck` joins the two liveness properties,
`OrphanReleased` (a dead owner's lock can be taken again) and `LockReturns`.

### LogRingbuf

Pointers are offsets; a byte of memory knows which byte of which record it is,
so overwriting a record in part is visible.  `MakeRoom` is the body of `write` with
its two loops, `Advance` is what `read` and `throw_away` share.  The refinement
mapping `Contents` walks the ring as the reader will.

### Timer

A timer context is "none" (free memory), "tree" (nginx's timer tree), "posted"
(delayed posted events) or "running" (its callback is a fake request).
`TimerAt` is `ngx.timer.at` and `every`, `Handler` the timer handler up to the
start of the Lua callback: the copy of a recurring timer, the limit, and the
failures on the way (`Outcomes`) with what each gives back.  It is one step because no
Lua code runs in it; the callback that follows has the `cpu` until it yields or
ends, and creates timers meanwhile.  `Quit` is the watcher being closed:
`to_abort` holds the events the C code has collected in its array, and
`AbortNext` is one turn of the loop that calls them, with the callback's Lua code in
between.  Delays are zero or not.  `Failures` says which allocations may fail;
"connection" (no free nginx connection) is left to the run
`timer_pools`, where it leaks the timer's pool, and "cleanup" to later work: there the
VM is released twice.  With `lua_code_cache` on there is one VM that outlives
every timer, and `vm_count` has no counterpart.  `NothingLeaks` joins `VmLivesAsLongAsUsed` and `PoolsHaveOwners`;
`TimersHandled` joins `PrematureIffNotExpired` and `EveryTimerIsHandled`.

### LightThread

A `co_ctx` is the entry thread, a user thread or a coroutine.  One of them has
the CPU (`cur_co_ctx`) or the event loop has it.  Each action is one stretch of
C between two pieces of Lua: the call by which the Lua code gives up the CPU,
and all that `ngx_http_lua_run_thread` makes of it.  `at[c]` is where the Lua
code of `c` stands: on the CPU or ready for it ("lua"), or inside the call that
blocks it.  `pending` are those whose sleep or I/O has an event armed,
`posted_threads` the queue that `run_posted_threads` empties before the event
loop goes on, `zombie_child_threads` the ended children that nobody has waited
for.  The end of a thread has the code's three cases: `ParentWaits` resumes the
parent, `BecomesZombie` leaves it to the parent, `Orphaned` ends it alone, and
perhaps the handler with it (`LastThread`).  `Fails` and `Propagates` are the
error path, in which a wrapped coroutine makes its resumer fail too.
`FinalizeThreads` is what an exit, an abort and an error of the entry thread
share.  `OnAbort` and `ClientGone` are the thread of `ngx.on_abort`, which is
referenced but not counted before it runs; `Captures` and `SubrequestsDone` are
subrequests, during which `no_abort` refuses an ordinary `ngx.exit`.
`NoneStranded` names, for everyone blocked, the thing that will resume it
(`Driven`); `ResumedByRight` says that nothing else does.

### SocketPool

`pool[k]` is the `ngx_http_lua_socket_pool_t` of a key: its counter, its cache
of idle connections (head = most recently used), its queue of connects, and
which of these have their timer armed (`timed`) or their event posted
(`posted`).  `sock[s]` is a socket object with the pool that counts it (`spool`)
and the key it will be saved under (`key`), which the code keeps apart.  Each
API call and each event handler is one step.  `ConnectHelper` is the function
of that name; it is run for a new connect and again for a resumed one.
`ClosedOne`, `GaveUp` and `ResumeConnOp` are the three pieces of counter code
that are repeated on the failure paths.  Kills are split by what the thread
waits in (`KilledInQueue`, `KilledResolving`, `KilledConnecting`), since each
has a cleanup of its own.

### HealthCheck

`worker[w]` is the `ctx` of a worker and where its cycle stands; one call on the
dictionary is one step, so two workers interleave between any two of them.
`LockExpires` is the end of the lock's time to live, which may come at any time: the
worker that got the lock never gives it back, and nothing in the code relates the
interval to the time that checks take.  `Respawn` is the death of a worker, at any point
of its cycle, and the start of the one that replaces it.  Neither has a condition on
what the workers have read or owe.

What the properties except is recorded by variables of their own, which are history:

* `streak` is each peer's last result and how often it was seen in a row, which is
  what the counters are supposed to know.
* `mishaps` says whether the lock has ever expired while a worker was checking
  ("overrun"), and whether a worker has died between a check's result and its counting
  ("death").  `OneChecker` is stated until the first has happened, `TurnedInARow` until
  either has; after that both fail (section 6).
* `author[p]` is the worker that recorded the state of `p` since a version was last
  published (`Dead` if it has died meanwhile), and `skipped[w]` says that `w` has
  published over a version or a state it had not read: `do_check` makes the incremented
  version the worker's own (`healthcheck.lua:479`), so that it does not read what the
  versions in between announced.  These are what `CurrentWorkersAgree` and
  `WorkersLearn` except; section 6 says what becomes of such workers.

## 3. Runs

| Run | Configuration | Shows |
|---|---|---|
| `semaphore` | 3 threads, initial count 1, 2 posts | invariants, FCFS, every wait ends, refinement of `AbstractSemaphore` with fairness |
| `semaphore_pool` | blocks of 2, 4 epochs | blocks follow use (`NothingDangles`, `ExitLeavesNothing`), counts agree |
| `shared_dict` | 3 keys, 3 units of memory, 2 workers, 3 ms, TTL 0 or 1 | consistency, who may evict, LRU order |
| `shared_dict_push` (violation) | 1 key, 2 workers | `lpush` returns a length the list did not have |
| `resty_lock` | 2 workers with a locker each, a zone of 1 entry, lease 2, timeout 4, lag 2 | exclusion, orphan released, lock returns, slots never shared |
| `log_ringbuf` | 7 bytes, header 2, lengths 0..6, 2 levels | records whole, order, reads succeed, loops end |
| `timer` | 4 contexts, 1 request, 2 pending, 1 running, failures of "timer", "copy", "request" | counters and limits, VM and pools, exit, premature, every timer handled |
| `timer_pools` (violation) | the same, and "connection" | a pool without an owner |
| `light_thread` | entry thread, 2 threads, 2 coroutines, one wrapped, waits for one thread | counter, nobody stranded, handler ends, calls answered by right |
| `light_wait` (violation) | entry thread, 2 threads, waits for up to two | a thread not waited for any more resumes its parent |
| `socket_pool` | 3 sockets, 1 key, 4 connections, size 1, backlog 1, every option, bad ports | one owner, counter, queue, pool kept, every queued connect answered |
| `health_check` | 2 workers, 1 peer, fall 2, rise 1, 2 versions, 1 worker dies anywhere, the lock expires at any time | one checker, turned in a row, workers agree and learn, each up to the event that undoes it |

Why the bounds are enough.  *Semaphore*: three threads give a waiter, one that
overtakes or kills it and one that posts; the proofs remove the bound.
*Pool*: with four blocks the midpoint separates old from new on both sides.
*Dict*: three keys in a zone for three short values make every store evict or
fail for some state, lists included; two clock values apart give
alive / at the limit / expired.  *Lock*: the lag exceeds neither the lease nor
the base, two lockers suffice for exclusion and a zone of one entry makes the
other lock evict ours; that two lockers of one worker share its `memo` is left to the
theorem `HandlesSafe`.  *Ring*: seven bytes hold up to three records, leave a
gap smaller than a header, a filling larger than one, and a record that fills
everything.  *Timer*: four contexts are one more than can be pending and
running together, so the limits bite and memory never does; two pending timers
let one premature callback create a timer while another event waits.
*Light threads*: two threads and two coroutines give siblings and a chain of
four (thread, coroutine, coroutine, thread), so that parents of every kind
end, fail or are killed before their children.  *Socket pool*: one place, one
waiting place and three sockets make a connect use, wait and be refused at the
same time; four connections are what three
sockets and a cache of one can hold, so that the model never runs out, and a
failure to connect is a choice of `ConnectPeer` in every state.  *Health*: with
two failures in a row a streak can be interrupted at its last step and continued by
the other worker; with two versions one is published over another, and with one
death every step of a cycle is once the last.  One peer is enough for counting, which is
done for each peer alone, and for a worker that reads a state while another one
changes and publishes it; with two the state space is too large for liveness.  The
theorems hold for any number.

Named bounds and switches:

* `MaxPosts`, `MaxEpoch`, `MaxTime`, `MaxPending`, `MaxLag`, `MaxLen` limit
  histories, clocks and sizes.
* `MaxArgs` is the number of arguments of `ngx.thread.wait`: 1 in the passing
  run, because with more the code does what `light_wait` shows.
* `KillsResumer`: threads inside `coroutine.resume` may be killed.  FALSE; with
  TRUE the coroutine, which goes on, later resumes the dead thread.
* `Options`, `Rekeys`: which options the program gives to `connect`, and
  whether it calls `connect` on an open socket with a bad port, which changes
  the key under which the connection is saved.  With one key that is harmless;
  with two it breaks the counter (section 6).
* `MaxVersion`, `MaxRespawns`: versions published while peers still change,
  worker deaths.

`CHECK_DEADLOCK FALSE` is set where the system stops: the worker has exited
(allocator, socket pool), the bounded clock has run out with a full zone (dict),
the requests and timers of a worker that exits have ended (timer), or the
handler has (light threads).  Symmetry is used only in runs without liveness.

Larger instances checked by hand, with the same properties and no violation:
`LightThread` without `on_abort` and subrequests with three threads and two
coroutines (10.8 million states); `SocketPool` with two keys and
`Rekeys = FALSE` (101,367 states), and with four sockets and size 2, liveness
included (290,000); the safety properties of `HealthCheck` with two peers and no death
(6.5 million).

## 4. Fairness

*Semaphore*: Lua code gives the CPU back some time (weak fairness of the end
of a slice); a C loop goes on when its callee returns (weak fairness of the
handler's two steps); each turn of nginx's event loop runs all expired timers
and all posted events (strong fairness, because between two turns other code may
disable the step for a while).  Nothing is assumed of `post`, of new waits or of
kills.  *RestyLock*: time passes, each worker updates its clock, a
sleep that is due is over some time.  Nothing is assumed of `unlock`.
*Timer*: Lua code yields or ends; the loop reaches every expired timer (strong
fairness, because callbacks and requests run in between, and because nginx takes
the earliest first).  Nothing is assumed of a callback's end: it may yield for ever.
*SocketPool*: the event loop fires the timer of a queued connect and runs the
event posted for it (weak fairness: one of the two stays enabled until the
operation leaves the queue).  Nothing is assumed of sockets being closed or
saved.  *HealthCheck*: every worker's timer goes on firing and its cycle goes on
(weak fairness of `Cycle(w)`), since every wait inside a cycle has a timeout.
Nothing is assumed of the lock's expiry.
*LightThread* has no liveness property: its programs need not end.
`NoneStranded` and `OnlyZombiesKeepHandler` say in terms of states what could
otherwise be lost.

## 5. What is proved

Each `<M>Proofs` module extends `<M>` and proves its theorems for every value of
the constants that satisfies the named assumptions in `<M>`; these say that names
differ, sets of actors are finite and bounds are natural numbers.  A theorem
that needs more has it as a hypothesis, listed here.  Every safety theorem
comes from an inductive invariant that was checked by TLC before it was proved.
`CollectionLemmas` has what several proofs need: how cardinalities change, and
what appending to, removing from and taking the head of a queue without
repetitions does to its range, length and order.  A loop of the code is a
function defined by recursion on the number of the round; `Iterated` says that
there is such a function and `KeptByTurns` that what each round keeps holds at the
end, both by the smallest counterexample.

### SemaphoreProofs

* `Invariance`: the inductive invariant
  `IInv == TypeOK /\ WaitersConsistent /\ RunnerAwake /\ NoLostWakeup /\ ResourcesConserved`.
  `TypeOK` alone is not inductive: a timeout or a kill takes its thread out of
  the queue, so it must be in it, once (`WaitersConsistent`), and `wait_count`
  stays natural because it counts the queue.  `WaitersConsistent` needs that a thread
  that runs is not waiting (`RunnerAwake`), or `wait` could queue it twice.
* `TypeCorrect`, `WakeupSafe`, `WaitersSafe`, `ConservationSafe`: its parts.
* `OrderSafe`: the action property `FirstComeFirstServed`.
* `Refinement`: `Spec => Abstract!SafeSpec`, through the lemma `StepKinds`, which
  says which of the abstract steps each concrete step is.

### SemaphoreProofs: the block allocator

`PoolTypeSafe` (`PoolTypeOK`), `CountsSafe` (`CountsAgree`), `BlocksSafe` (`BlocksFollowUse`), for any
block size and any number of epochs.  The invariant says what the code never
writes down: the free queue holds, without repetition, exactly the items of
the blocks kept that Lua does not hold (`Linked`).  From that a block whose
count is zero has all its items in the queue, so the walk that unlinks them
(`WithoutBlock`) leaves nothing dangling; the newest block is never given back,
which keeps the midpoint from wrapping; and `used` is zero at exit.  The capacity
`total` is right only while the allocator decides by it (`Deciding`): the exit
does not maintain it.  `WithoutBlock` is written by the ranks of the items that stay,
so that it can be reasoned about without recursion.

### TimerProofs

`TypeSafe`, `CountsSafe` (`CountsWithinLimits`), for any limits and with every failure
of `Failures` allowed.  `LeaksSafe` (`NothingLeaks`) has the hypothesis that
"connection" and "cleanup" are not among the failures: with the first the code
does lose the pool (`timer_pools`), with the second it releases the VM twice.
`VmsSafe`, the part about VMs, needs only the second.  `PrematureSafe` proves
`PrematureIffNotExpired` with `ExitInv`: once the worker exits, the timers in the
tree that the abort loop has not collected are those that are due, because a timer
created by a callback while the worker exits is due at once.  Each way through
the handler is one choice of a copy and an outcome (`Handled`), so the lemmas about
the handler are proved once and not per path.

### LightThreadProofs

`TypeSafe` and `UthreadsSafe` (`UthreadsCounted`), for any threads, coroutines and
number of arguments of `wait`, and also when a thread inside `coroutine.resume` is
killed.  `uthreads` is decremented in four places and incremented in two; the
invariant `Registered` says who has a reference and has begun: only a thread of
`ngx.on_abort` has one before it runs.  `Typed` keeps whoever is posted, pending, a
parent or on the CPU among those who have begun, which the step that ends a thread
needs, and is stronger than `TypeOK`.

`StrandedSafe` (`NoneStranded`), `ResumedSafe` (`ResumedByRight`) and `HandlerKept`
(`OnlyZombiesKeepHandler`), for any threads and coroutines, under `OneAtATime`: `wait`
names one thread at a time and no thread inside `coroutine.resume` is killed.  If
either condition is dropped, `ResumedByRight` is false (run `light_wait`; section 6).
None of the three is inductive.  `Settled`, which TLC confirms on the instance of the
run `light_thread`, says for each place at which Lua code can stand who resumes it, and
for each who could be resumed where it stands: statuses and places agree (`Placed`), the registry holds exactly the
light threads that live or are zombies (`Anchored`), events and queue agree with the
places in both directions (`Expecting`), a living parent in `wait` has told exactly one
child, which lives (`Waiting`), and whoever is in `resume` without the CPU has
exactly one coroutine inside (`Resuming`).  `Living` excludes circles: going up
from child to parent one leaves the threads, and one leaves the active coroutines
(`Grounded`); so whoever has the CPU was resumed, however deep, by a light thread that
lives (`SomeoneLives`), and when the event loop has it a thread is left.  `LightStops`,
`ParentGoesOn` and `ResumerGoesOn` are the three outcomes to which every end of a
thread or coroutine leads.  `HandlerKept` adds a count: in an idle request everyone
alive who is not a coroutine left alone waits for a child that waits too
(`StuckHasChild`), and as there are no more children than parents (`ChildrenOfAll`)
every one of them is the child of another.  If no coroutine among them waits, these are
all coroutines in `resume` or all threads in `wait`, and going up from child to parent
would never leave them, against `Grounded`.

### SocketPoolProofs

`TypeSafe`, `OwnersSafe` (`ConnectionsHaveOneOwner`), `CountsSafe` (`CountsAgree`),
`KeptSafe` (`PoolKeptWhileUsed`), `QueueSafe` (`QueueWatched`), for any sockets, keys,
connections, pool size and backlog (`TypeOK` bounds a cache by the pool's size, and a queue
by that size and the backlog together, since a queue may be longer than the backlog
after a close has posted the resume of its head), under `KeysFit`: the program does not call
`connect` with a bad port on an open socket when there are several pools.
Without it `CountsAgree` is false (section 6); the run `socket_pool`, with one key,
satisfies it and does make such calls.  One API call is a chain of small changes, after some of which
the counter is one too high, so the invariant is an operator of pools,
sockets and connections, with the pool that is ahead of its count as a parameter
(`PoolsFit(ps, ss, ref)`, `Exceeds`); every small change has a lemma that
leads from one such state to the next, and the proof of a call is the chain of
these lemmas.  After the exit the counters are left as they are (`Down`), which is why
the invariant is a disjunction.  None of the four safety properties is inductive
without the others: that the head of the queue is the operation whose event runs
(`QueueFits`) is needed for the counter, the counter for keeping the pool, the pool
for the owners.

### HealthCheckProofs

For any workers, peers, `fall` and `rise`, a lock that expires at any time and workers that
die at any point:

* `TypeSafe`: `TypeOK`.
* `OneCheckerSafe`: `OneChecker` (`LockInv`: until an overrun, the worker that
  checks has the lock).
* `AgreementSafe`: `CurrentWorkersAgree`, whatever mishaps there are.  `AgreeInv` says
  it of every worker for the version that it has, and of a worker in the middle of an
  upgrade for the version it has read and the peers it has read since:
  whoever turns a peer is its author from then on, and whoever publishes makes every
  version that has been read an old one.
* `TurnsSafe`: the action property `TurnedInARow`.  Until a mishap, `StreakInv`
  relates the counters of a peer to the last results: each is at most as long as
  the run of that result or about to be, with the other one at zero or about to be reset,
  by the one worker that counts.

No theorem has a hypothesis on the lock or on deaths; what is excepted stands in the
properties themselves.

### SharedDictProofs

`TypeSafe`, `ZoneSafe` (`ZoneConsistent`), `GentleSafe` (`GentleCallsSpareOthers`),
`EvictionSafe` (`EvictionIsLRU`), for any number of keys, workers and units of
memory and any finite set of `exptime` arguments.  The
run has 3 units, so eviction ends after at most three rounds; the theorems
cover all 30, and zones in which 30 are not enough.

* `Consistent` is the invariant of a zone: the queue has no node twice and
  holds those of the tree, `used` is the sum of their sizes, no list is empty.
  Each helper of `ShdictCore` (unlink, link, move to the head, expire, evict, change
  in place) has a lemma that it keeps it, and a call is a chain of them.
  Between two helpers a push has an empty list (`FilledBut`).
* A sum over a set is a recursion on it, about which this prover cannot use the
  library's induction; the lemmas `SumExists`, `SumChanged`, `SumZero` argue by the
  smallest counterexample instead.  The rounds of eviction and the walk of
  `flush_expired` use the lemmas about loops.
* Who may drop what is a relation between the zone before and after, closed under
  composition: `Trims` (only entries go; an unexpired one only with all that have
  been used less recently) and `Spares` (no unexpired one goes); `Gentle` is both.
  Expiring is gentle, one round by force only trims, and the key
  of the call is left aside.  The two properties follow from what is left
  of the zone at the end of the chain.

### SharedDictProofs: the lock

`HandlesSafe` (`HandlesSound`) and `ExclusionSafe` (`MutualExclusion`) are about
`LockSpec`, for any lockers, workers, options, clock lag and size of the zone.
The lemmas about `ShdictCore` are the same; where `SharedDict` bounds times of
expiry by its last clock, here they are bounded by `Base + Exptime`.

* `LockStored` says what `add` and `replace` promise the caller: an entry that is
  not expired is found whatever was expired on the way, so `add` answers "exists"
  and leaves it alone and `replace` answers "ok"; another key is at most dropped.
* `ValidFound` is the heart of the exclusion: a clock never shows more than the true
  time, so an entry whose lease has not ended is found alive by every worker, and
  nobody's `add` succeeds.  The lease ends when the entry expires, and `Tick` moves both.
* `MemoSound` counts the slots: those of live handles and the free ones are different
  and together as many as there are.  `Referred` and `Unreferred` are about one
  reference taken and given back, with the other kind of handle as a parameter,
  so that each serves keys and zones.  `ObjectInv` (an object that is not idle
  has no key, one that is none has no zone) makes `lock` overwrite no live handle.

### LogRingbufProofs

`TypeSafe`, `RecordsSafe` (`RecordsReadable`) and the refinement `Refinement`
(`ImplementsLog`), for any size of buffer and header, any levels and lengths.
`RecordsReadable` is about what the reader finds by walking the ring, and says nothing of the
bytes between; the invariant `RingInv` says that there are records `r` and a number `k` with

* `Layout(rb, r, k)`: the first `k` records lie behind the head and end at the
  sentinel, the others begin at the front and end at the tail; in each part they
  follow one another, and the tail never passes the head while `k > 0`;
* `Holds(data, r)`: every byte of each of them is there.

So `FreeSpaces`, which only compares tail and head, is right (`Room`): the tail is behind the head
exactly when the reader still has to turn round.  `Advanced` is one record read or
thrown away, `TurnedLayout` the writer turning round, `AppendedLayout` and
`AppendedHolds` a record written where there is room.  The two loops of `write` are
shown to end, in a buffer that holds the newest of the records (`Rests`), by the number of
records left (`LoopEnds`): an empty buffer has room for every message that is not
refused for its length.  That the walk of the reader finds
exactly `r` (`Walked`) gives the properties and the refinement.

### Only model-checked

* Liveness, which TLAPS cannot do: `EveryWaitEnds`, the fairness part of
  `ImplementsAbstract`, `NobodyStuck`, `EveryTimerIsHandled` (so `TimersHandled` as a
  whole), `QueuedIsAnswered`, `WorkersLearn`.
* `PushReturnsLength` of `SharedDict`, which the code violates (section 6).

## 6. Where the code departs from its promises

Each of the first three is a run with the expected violation and an entry under
`findings` in `PROJECT.json`:

* `light_wait`: `ngx.thread.wait(t1, t2)` marks both threads as waited for; when
  one has ended, the other stays marked and its end resumes the parent out of
  whatever call blocks it by then (`ngx_http_lua_uthread.c:195`).
* `timer_pools`: a timer that finds no free connection loses its pool.
* `shared_dict_push`: a push reads the list's length after the unlock.

The others were found by changing a configuration or naming another formula of
the module as an invariant, and are no runs:

* `SubrequestsNotAborted` (`LightThread`): the ngx_lua README (8507) says that
  `ngx.exit` does not abort pending subrequests; `no_abort` is one flag of
  the request, cleared when any one thread's subrequests are done
  (`ngx_http_lua_subrequest.c:982`).
* `FinishedHandlerEnds`: a zombie whose parent has failed, was killed or is a
  coroutine nobody resumes keeps the handler although all threads have ended
  (README 8499-8503).  `OnlyZombiesKeepHandler` shows that this is the only way,
  besides threads that wait for each other.
* `KillsResumer = TRUE` violates `ResumedByRight`.
* `OpenWithinLimit`, `QueuedIsResumed` (`SocketPool`): the README on `backlog`
  promises more than the code keeps when a connect comes between `setkeepalive`
  and the posted event, or two connections are closed before it runs.
* `CountsAgree` with two keys and `Rekeys = TRUE`: the name of the pool is stored
  before the port is checked (`ngx_http_lua_socket_tcp.c:998`), so a connection
  may be saved in a pool that does not count it.
* `OneChecker` without the condition on `mishaps`: the lock of the health checker lasts
  for the interval, minus 1 ms, and is not renewed; checks may take longer (connect,
  handshake, send and receive have the timeout each, for every peer of a light
  thread), and then another worker checks at the same time, which the comment at
  `healthcheck.lua:440` excludes.
* `TurnedInARow` without it: two workers that check at the same time confuse the
  counters, and one that dies between a check and the counter leaves the other counter
  as it was, so that the next result seems to continue an older run.
* `CurrentWorkersAgree` without `skipped`: a worker that read the version before
  another one published (`healthcheck.lua:417`) and got the lock after it may publish in its turn
  (479); it then has the current version with the states of an old one, until
  somebody publishes again.  With two peers, no overrun and no death is needed.
* `WorkersLearn` without `author[p] = Dead`: a state that a worker recorded
  (`healthcheck.lua:90`) before it died without publishing is unknown to the others until
  somebody publishes.  With these exceptions the two properties hold: there is no other
  way in which a worker stays behind.
* `set` reports `forcible` when it removed only an expired entry
  (`ngx_http_lua_shdict.c:1521`; README 7069).
* `unlock` deletes the lock of another owner once its own lease has lapsed
  (`lock.lua:191`; README of lua-resty-lock, 163).

## 7. Not modelled, and why

See `components` in `PROJECT.json`.  The repository has some 170,000 lines of C,
Lua and Perl, and the modules stand for a small share of them: most of the rest
is generated lexers and headers, parsers and encoders (cjson, dtoa, rds, redis,
DNS, MySQL), directives and argument checking, I/O over buffers, and
`ngx_stream_lua`, the twin of `ngx_lua` generated from the same templates.
These have little state that outlives a call.  The event loop, slab allocator,
collector and timers of nginx and LuaJIT are external.  What is left with
control worth modelling: `lua-resty-limit-traffic`, `lua-resty-lrucache`,
`ngx.pipe`, worker threads, sends and receives of cosockets, UDP cosockets.

Within the modelled components, left out: memory failures (except where
`Timer` has them), fragmentation of slabs, failures to register an event, the
armed event of a coroutine whose request is aborted, eviction of the health
checker's keys and failing calls on its dictionary.

## 8. Plan

1. Done: semaphore with proofs, allocator, shared dict, lock, log ring, timers;
   light threads, connection pool, health checker.
2. Proofs done: `Semaphore`, `SemaphorePool`, `Timer`, `LightThread`,
   `SocketPool`, `HealthCheck`, `SharedDict`, `RestyLock`, `LogRingbuf` with its
   refinement.
3. `lua-resty-limit-traffic` on `ShdictCore`; `lua-resty-lrucache` with an abstract
   LRU map; worker threads.
