------------------------------- MODULE Timer -------------------------------
(***************************************************************************)
(* ngx.timer of one worker (ngx_http_lua_timer.c): timers pending in       *)
(* nginx's timer tree or in its queue of delayed posted events, callbacks  *)
(* running as fake requests, the two limits, recurring timers, and the     *)
(* watcher connection by which a worker that exits calls back the pending  *)
(* timers prematurely.  lua_code_cache is off: a request brings a Lua VM   *)
(* of its own, which lives until the last timer referring to it has ended. *)
(*                                                                         *)
(* The worker is one thread: cpu says whose Lua code runs, and the event   *)
(* loop goes on when nobody's does.                                        *)
(***************************************************************************)
EXTENDS Integers, FiniteSets

CONSTANTS Timers,       \* ngx_http_lua_timer_ctx_t's, in use or free memory
          Requests,     \* requests served, each with its VM
          NoOne,
          MaxPending,   \* lmcf->max_pending_timers
          MaxRunning,   \* lmcf->max_running_timers
          Failures      \* allocations that may fail

ASSUME TimerAssumption ==
    /\ NoOne \notin Timers \cup Requests /\ Timers \cap Requests = {}
    /\ IsFiniteSet(Timers) /\ Requests # {}
    /\ MaxPending \in Nat /\ MaxRunning \in Nat
    /\ Failures \subseteq {"timer", "copy", "connection", "request", "cleanup"}

VARIABLES where,           \* where[t]: "none", "tree", "posted" or "running"
          tctx,            \* tctx[t]: [vm, delay, every, premature]
          pools,           \* timers whose tctx->pool exists
          pending_timers,  \* lmcf->pending_timers
          running_timers,  \* lmcf->running_timers
          watcher,         \* "none", "open", "freed": lmcf->watcher
          ngx_exiting,
          to_abort,        \* events the abort loop has yet to call
          requests,        \* requests not ended
          vm_count,        \* vm_count[r]: vm_state->count, closed at 0
          cpu              \* whose Lua code runs, or NoOne

counts == <<pending_timers, running_timers, vm_count>>
vars == <<where, tctx, pools, counts, watcher, ngx_exiting, to_abort, requests, cpu>>

Delays == {0, 1}   \* zero and any other
Unset(r) == [vm |-> r, delay |-> 0, every |-> FALSE, premature |-> FALSE]
AnyRequest == CHOOSE r \in Requests : TRUE
Pending == {t \in Timers : where[t] \in {"tree", "posted"}}
Running == {t \in Timers : where[t] = "running"}
Unused == {t \in Timers : where[t] = "none" /\ t \notin pools}

Init == /\ where = [t \in Timers |-> "none"]
        /\ tctx = [t \in Timers |-> Unset(AnyRequest)]
        /\ pools = {} /\ to_abort = {}
        /\ pending_timers = 0 /\ running_timers = 0
        /\ watcher = "none" /\ ngx_exiting = FALSE
        /\ requests = Requests
        /\ vm_count = [r \in Requests |-> 1]
        /\ cpu = NoOne

----------------------------------------------------------------------------
(* ngx.timer.at and ngx.timer.every, called by the Lua code on the cpu.    *)

vm_of(x) == IF x \in Requests THEN x ELSE tctx[x].vm

\* Fault: one more than the limit.
MayCreateOneMore(delay) == /\ ~(ngx_exiting /\ delay > 0)
                           /\ pending_timers <= MaxPending

\* Else "process exiting", "too many pending timers".
MayCreate(delay) == /\ ~(ngx_exiting /\ delay > 0)
                    /\ pending_timers < MaxPending

\* The watcher is created with the first timer and never again.
Watch == watcher' = IF watcher = "none" THEN "open" ELSE watcher

TimerAt(delay, every) ==
    /\ cpu # NoOne
    /\ every => delay > 0
    /\ MayCreate(delay)
    /\ Watch
    /\ \E t \in Unused :
         /\ where' = [where EXCEPT ![t] =
                         IF delay = 0 /\ ~ngx_exiting THEN "posted" ELSE "tree"]
         /\ tctx' = [tctx EXCEPT ![t] = [Unset(vm_of(cpu)) EXCEPT !.delay = delay,
                                                                  !.every = every]]
         /\ pools' = pools \cup {t}
    /\ vm_count' = [vm_count EXCEPT ![vm_of(cpu)] = @ + 1]
    /\ pending_timers' = pending_timers + 1
    /\ UNCHANGED <<running_timers, ngx_exiting, to_abort, requests, cpu>>

\* "no memory" takes everything back but the watcher.
TimerAtNoMemory(delay) ==
    /\ "timer" \in Failures
    /\ cpu # NoOne
    /\ MayCreate(delay)
    /\ Watch
    /\ UNCHANGED <<where, tctx, pools, counts, ngx_exiting, to_abort, requests, cpu>>

----------------------------------------------------------------------------
(* ngx_http_lua_timer_handler, from its first line to the start of the Lua *)
(* callback.                                                               *)

Recurs(t) == ~ngx_exiting /\ tctx[t].every

\* What the handler of t makes of the next round of a recurring timer: the
\* timers put in the tree.  A failure ends the series with an alert.
Copies(t) == IF Recurs(t)
             THEN {{u} : u \in Unused} \cup
                  (IF "copy" \in Failures THEN {{}} ELSE {})
             ELSE {{}}

Outcomes == IF running_timers >= MaxRunning THEN {"too many"}
            ELSE {"runs"} \cup (Failures \cap {"connection", "request", "cleanup"})

\* Fault: a callback that does not run keeps the VM.
ReleasesNoVm(outcome) == 0

\* A callback that runs keeps its reference, and a failed one drops it: twice
\* where the pool has a cleanup for the VM but gets none for the request.
ReleasesVm(outcome) == CASE outcome = "runs" -> 0
                         [] outcome = "cleanup" -> 2
                         [] OTHER -> 1

\* The pool of a callback that will not run.  Where there is no free connection
\* the handler takes it for freed by ngx_http_lua_create_fake_connection, which
\* has returned before it took it over.
DropsPool(outcome) == outcome \in {"too many", "request", "cleanup"}

Handler(t, premature) ==
    \E copy \in Copies(t), outcome \in Outcomes :
       LET runs == outcome = "runs" IN
       /\ where' = [u \in Timers |-> IF u = t THEN IF runs THEN "running" ELSE "none"
                                     ELSE IF u \in copy THEN "tree" ELSE where[u]]
       /\ tctx' = [u \in Timers |->
                     IF u = t THEN IF runs THEN [tctx[t] EXCEPT !.premature = premature]
                                           ELSE Unset(AnyRequest)
                     ELSE IF u \in copy THEN tctx[t] ELSE tctx[u]]
       /\ pools' = (pools \cup copy) \ (IF DropsPool(outcome) THEN {t} ELSE {})
       /\ pending_timers' = pending_timers - 1 + Cardinality(copy)
       /\ running_timers' = running_timers + (IF runs THEN 1 ELSE 0)
       /\ vm_count' = [vm_count EXCEPT ![tctx[t].vm] =
                          @ + Cardinality(copy) - ReleasesVm(outcome)]
       /\ cpu' = IF runs THEN t ELSE NoOne

\* The event loop has the worker, and no abort loop is under way.
LoopTurns == cpu = NoOne /\ to_abort = {}

\* Fault: over the limit, a timer is put off and not dropped.
ExpiresIfRoom(t) == /\ LoopTurns
                    /\ t \in Pending
                    /\ running_timers < MaxRunning
                    /\ Handler(t, FALSE)
                    /\ UNCHANGED <<watcher, ngx_exiting, to_abort, requests>>

\* A timer expires, or its posted event is run.
Expires(t) == /\ LoopTurns
              /\ t \in Pending
              /\ Handler(t, FALSE)
              /\ UNCHANGED <<watcher, ngx_exiting, to_abort, requests>>

----------------------------------------------------------------------------
(* A running callback, or a request.                                       *)

\* It waits for something, a sleep or a socket, and is resumed by the loop.
Yields == /\ cpu # NoOne
          /\ cpu' = NoOne
          /\ UNCHANGED <<where, tctx, pools, counts, watcher, ngx_exiting,
                         to_abort, requests>>

Resumes(x) == /\ LoopTurns
              /\ x \in requests \cup Running
              /\ cpu' = x
              /\ UNCHANGED <<where, tctx, pools, counts, watcher, ngx_exiting,
                             to_abort, requests>>

RequestEnds == /\ cpu \in requests
               /\ requests' = requests \ {cpu}
               /\ vm_count' = [vm_count EXCEPT ![cpu] = @ - 1]
               /\ cpu' = NoOne
               /\ UNCHANGED <<where, tctx, pools, pending_timers, running_timers,
                              watcher, ngx_exiting, to_abort>>

\* The callback and its light threads have ended, with or without an error:
\* the cleanups of the fake request's pool run, and the pool goes.
CallbackEnds == /\ cpu \in Running
                /\ where' = [where EXCEPT ![cpu] = "none"]
                /\ tctx' = [tctx EXCEPT ![cpu] = Unset(AnyRequest)]
                /\ pools' = pools \ {cpu}
                /\ running_timers' = running_timers - 1
                /\ vm_count' = [vm_count EXCEPT ![tctx[cpu].vm] = @ - 1]
                /\ cpu' = NoOne
                /\ UNCHANGED <<pending_timers, watcher, ngx_exiting, to_abort, requests>>

----------------------------------------------------------------------------
(* The worker exits.                                                       *)

InTree == {t \in Timers : where[t] = "tree"}

\* The traversal of the timer tree stops when it has found as many of our
\* events as are said to be pending, or at the end of the tree.
Collected == {S \in SUBSET InTree :
                 \/ Cardinality(S) = pending_timers
                 \/ S = InTree /\ Cardinality(S) < pending_timers}

\* nginx closes its idle connections, of which the watcher is one; no Lua code
\* runs in between.
Quit == /\ LoopTurns
        /\ ~ngx_exiting
        /\ ngx_exiting' = TRUE
        /\ watcher' = IF watcher = "open" THEN "freed" ELSE watcher
        /\ to_abort' \in IF watcher = "open" THEN Collected ELSE {{}}
        /\ UNCHANGED <<where, tctx, pools, counts, requests, cpu>>

\* Fault: an event already called is not passed.
AbortSame(t) == /\ cpu = NoOne
                /\ t \in to_abort
                /\ to_abort' = to_abort
                /\ Handler(t, TRUE)
                /\ UNCHANGED <<watcher, ngx_exiting, requests>>

\* The next turn of the loop that calls the collected events back.
AbortNext(t) == /\ cpu = NoOne
                /\ t \in to_abort
                /\ to_abort' = to_abort \ {t}
                /\ Handler(t, TRUE)
                /\ UNCHANGED <<watcher, ngx_exiting, requests>>

Next == \/ \E delay \in Delays, every \in BOOLEAN : TimerAt(delay, every)
        \/ \E delay \in Delays : TimerAtNoMemory(delay)
        \/ \E t \in Timers : Expires(t)
        \/ \E t \in Timers : AbortNext(t)
        \/ Yields
        \/ \E x \in Requests \cup Timers : Resumes(x)
        \/ RequestEnds
        \/ CallbackEnds
        \/ Quit

Spec == Init /\ [][Next]_vars

\* Lua code gives the worker back; the loop goes through what has expired, the
\* earliest first, so that no timer is passed over for ever.
Fairness == /\ WF_vars(Yields)
            /\ \A t \in Timers : SF_vars(Expires(t)) /\ SF_vars(AbortNext(t))

FairSpec == Spec /\ Fairness

----------------------------------------------------------------------------
TypeOK == /\ where \in [Timers -> {"none", "tree", "posted", "running"}]
          /\ tctx \in [Timers -> [vm : Requests, delay : Delays,
                                  every : BOOLEAN, premature : BOOLEAN]]
          /\ pools \subseteq Timers /\ to_abort \subseteq InTree
          /\ pending_timers \in Int /\ running_timers \in Int
          /\ watcher \in {"none", "open", "freed"} /\ ngx_exiting \in BOOLEAN
          /\ requests \subseteq Requests
          /\ vm_count \in [Requests -> Int]
          /\ cpu \in {NoOne} \cup requests \cup Running

\* ngx.timer.pending_count and running_count tell the truth on every path
\* through the handler, and no mix of calls, recurring timers, drops and
\* premature calls exceeds lua_max_pending_timers or lua_max_running_timers.
CountsWithinLimits ==
    /\ pending_timers = Cardinality(Pending) /\ pending_timers <= MaxPending
    /\ running_timers = Cardinality(Running) /\ running_timers <= MaxRunning

\* The Lua VM of a request lives until the request, its timers and theirs have
\* all ended, and is closed when they have.
VmLivesAsLongAsUsed ==
    \A r \in Requests :
       vm_count[r] = Cardinality(requests \cap {r}) +
                     Cardinality({t \in Pending \cup Running : tctx[t].vm = r})

\* The pool made with a timer is destroyed when the timer has ended, also when
\* its callback could not be run.
PoolsHaveOwners == pools = Pending \cup Running

\* What a timer holds is given back once, on every path.
NothingLeaks == VmLivesAsLongAsUsed /\ PoolsHaveOwners

\* A callback is told that it runs prematurely exactly when the worker exits
\* and the timer's delay had not passed; one created by a premature callback
\* is not.
PrematureIffNotExpired ==
    [][\A t \in Timers :
          where[t] = "tree" /\ where'[t] = "running" =>
             (tctx'[t].premature <=> ngx_exiting /\ tctx[t].delay > 0)]_vars

\* A pending timer ends its wait even if the running callbacks never end: over
\* the limit it is dropped, not put off.
EveryTimerIsHandled == \A t \in Timers : t \in Pending ~> t \notin Pending

TimersHandled == PrematureIffNotExpired /\ EveryTimerIsHandled
=============================================================================
