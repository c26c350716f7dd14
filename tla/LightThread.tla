---------------------------- MODULE LightThread ----------------------------
(***************************************************************************)
(* The light threads of one Lua handler: the entry thread, the user        *)
(* threads of ngx.thread.spawn, and the coroutines they create.  Exactly   *)
(* one of them has the CPU (ctx->cur_co_ctx) or the event loop does; a     *)
(* thread that could go on at once waits in ctx->posted_threads.           *)
(*                                                                         *)
(* Each action is one stretch of C code between two pieces of Lua: the     *)
(* call by which the Lua code on the CPU gives it up, and what             *)
(* ngx_http_lua_run_thread makes of it.                                    *)
(***************************************************************************)
EXTENDS Integers, Sequences, FiniteSets

CONSTANTS Entry,     \* ctx->entry_co_ctx
          Threads,   \* co_ctx's of user threads
          Coros,     \* co_ctx's of coroutines
          Wrapped,   \* those made by coroutine.wrap (is_wrap)
          NoCo,      \* NULL
          MaxArgs,   \* arguments of ngx.thread.wait
          KillsResumer \* threads inside coroutine.resume may be killed

Light == {Entry} \cup Threads
Co == Light \cup Coros

ASSUME LightThreadAssumption ==
    /\ Entry \notin Threads \cup Coros /\ Threads \cap Coros = {}
    /\ NoCo \notin Co /\ IsFiniteSet(Co)
    /\ Wrapped \subseteq Coros /\ MaxArgs \in Nat \ {0} /\ KillsResumer \in BOOLEAN

VARIABLES co_status,            \* as in the code, and "none": not created
          parent_co_ctx,
          co_ref,               \* those anchored in the registry
          waited_by_parent,     \* those with this flag
          propagate_error,      \* those with this flag
          zombie_child_threads, \* for each, the children queued as zombies
          pending,              \* those whose sleep or I/O has its event armed
          at,                   \* where the Lua code of each stands
          posted_threads,
          uthreads,
          cur_co_ctx,           \* who has the CPU
          on_abort_co_ctx,      \* the thread ngx.on_abort has registered
          subreqs,              \* those with pending_subreqs > 0
          no_abort,             \* ngx.exit is refused for pending subrequests
          phase                 \* "running", or how the handler ended

flags == <<waited_by_parent, propagate_error>>
request == <<on_abort_co_ctx, subreqs, no_abort>>
vars == <<co_status, parent_co_ctx, co_ref, flags, zombie_child_threads,
          pending, at, posted_threads, uthreads, cur_co_ctx, request, phase>>

Alive(c) == co_status[c] \notin {"none", "zombie", "dead"}

Init == /\ co_status = [c \in Co |-> IF c = Entry THEN "running" ELSE "none"]
        /\ parent_co_ctx = [c \in Co |-> NoCo]
        /\ co_ref = {Entry}
        /\ waited_by_parent = {} /\ propagate_error = {}
        /\ zombie_child_threads = [c \in Co |-> {}]
        /\ pending = {}
        /\ at = [c \in Co |-> IF c = Entry THEN "lua" ELSE "fresh"]
        /\ posted_threads = <<>>
        /\ uthreads = 0
        /\ cur_co_ctx = Entry
        /\ on_abort_co_ctx = NoCo
        /\ subreqs = {} /\ no_abort = FALSE
        /\ phase = "running"

\* c is on the CPU and its Lua code makes a call.
Calls(c) == phase = "running" /\ cur_co_ctx = c /\ c \notin propagate_error

----------------------------------------------------------------------------
(* The event loop and the queue.                                           *)

\* A sleep or an I/O operation that cannot be completed at once.
ApiYields(c) ==
    /\ Calls(c)
    /\ pending' = pending \cup {c}
    /\ at' = [at EXCEPT ![c] = "api"]
    /\ cur_co_ctx' = NoCo
    /\ UNCHANGED <<co_status, parent_co_ctx, co_ref, flags, zombie_child_threads,
                   posted_threads, uthreads, request, phase>>

\* Its event; run_posted_threads has emptied the queue before.
EventFires(c) ==
    /\ phase = "running" /\ cur_co_ctx = NoCo /\ posted_threads = <<>>
    /\ c \in pending
    /\ pending' = pending \ {c}
    /\ at' = [at EXCEPT ![c] = "lua"]
    /\ cur_co_ctx' = c
    /\ UNCHANGED <<co_status, parent_co_ctx, co_ref, flags, zombie_child_threads,
                   posted_threads, uthreads, request, phase>>

\* ngx.location.capture and its like: c waits for its subrequests.
Captures(c) ==
    /\ Calls(c)
    /\ subreqs' = subreqs \cup {c}
    /\ no_abort' = TRUE
    /\ at' = [at EXCEPT ![c] = "subreq"]
    /\ cur_co_ctx' = NoCo
    /\ UNCHANGED <<co_status, parent_co_ctx, co_ref, flags, zombie_child_threads,
                   pending, posted_threads, uthreads, on_abort_co_ctx, phase>>

\* The last of them is finished.  no_abort belongs to the request, not to c.
SubrequestsDone(c) ==
    /\ phase = "running" /\ cur_co_ctx = NoCo /\ posted_threads = <<>>
    /\ c \in subreqs
    /\ subreqs' = subreqs \ {c}
    /\ no_abort' = FALSE
    /\ at' = [at EXCEPT ![c] = "lua"]
    /\ cur_co_ctx' = c
    /\ UNCHANGED <<co_status, parent_co_ctx, co_ref, flags, zombie_child_threads,
                   pending, posted_threads, uthreads, on_abort_co_ctx, phase>>

\* Fault: whoever was posted is resumed.
MayRunPostedAnyway(c) == TRUE

MayRunPosted(c) == co_status[c] = "running"

\* One turn of run_posted_threads.
RunPosted ==
    /\ phase = "running" /\ cur_co_ctx = NoCo /\ posted_threads # <<>>
    /\ posted_threads' = Tail(posted_threads)
    /\ LET c == Head(posted_threads) IN
       IF MayRunPosted(c)
       THEN cur_co_ctx' = c /\ at' = [at EXCEPT ![c] = "lua"]
       ELSE UNCHANGED <<cur_co_ctx, at>>
    /\ UNCHANGED <<co_status, parent_co_ctx, co_ref, flags, zombie_child_threads,
                   pending, uthreads, request, phase>>

\* coroutine.yield of a light thread; with nothing posted it goes on at once.
ThreadYields(c) ==
    /\ Calls(c) /\ c \in Light
    /\ posted_threads # <<>>
    /\ posted_threads' = Append(posted_threads, c)
    /\ at' = [at EXCEPT ![c] = "yield"]
    /\ cur_co_ctx' = NoCo
    /\ UNCHANGED <<co_status, parent_co_ctx, co_ref, flags, zombie_child_threads,
                   pending, uthreads, request, phase>>

----------------------------------------------------------------------------
(* Coroutines.                                                             *)

CoCreate(c, k) ==
    /\ Calls(c)
    /\ co_status[k] = "none"
    /\ co_status' = [co_status EXCEPT ![k] = "suspended"]
    /\ UNCHANGED <<parent_co_ctx, co_ref, flags, zombie_child_threads, pending,
                   at, posted_threads, uthreads, cur_co_ctx, request, phase>>

\* coroutine.resume; of any other status it returns false.
CoResume(c, k) ==
    /\ Calls(c)
    /\ co_status[k] = "suspended"
    /\ co_status' = [co_status EXCEPT ![c] = "normal", ![k] = "running"]
    /\ parent_co_ctx' = [parent_co_ctx EXCEPT ![k] = c]
    /\ at' = [at EXCEPT ![c] = "resume", ![k] = "lua"]
    /\ cur_co_ctx' = k
    /\ UNCHANGED <<co_ref, flags, zombie_child_threads, pending, posted_threads,
                   uthreads, request, phase>>

CoYield(k) ==
    /\ Calls(k) /\ k \in Coros
    /\ LET p == parent_co_ctx[k] IN
       /\ co_status' = [co_status EXCEPT ![k] = "suspended", ![p] = "running"]
       /\ at' = [at EXCEPT ![k] = "coyield", ![p] = "lua"]
       /\ cur_co_ctx' = p
    /\ UNCHANGED <<parent_co_ctx, co_ref, flags, zombie_child_threads, pending,
                   posted_threads, uthreads, request, phase>>

----------------------------------------------------------------------------
(* ngx.thread.                                                             *)

Spawn(c, t) ==
    /\ Calls(c)
    /\ co_status[t] = "none"
    /\ co_status' = [co_status EXCEPT ![t] = "running"]
    /\ parent_co_ctx' = [parent_co_ctx EXCEPT ![t] = c]
    /\ co_ref' = co_ref \cup {t}
    /\ uthreads' = uthreads + 1
    /\ posted_threads' = Append(posted_threads, c)
    /\ at' = [at EXCEPT ![c] = "spawn", ![t] = "lua"]
    /\ cur_co_ctx' = t
    /\ UNCHANGED <<flags, zombie_child_threads, pending, request, phase>>

\* ngx_http_lua_del_thread, of each thread in T that has a reference, with
\* the decrement of uthreads that every caller adds for user threads.
Deleted(T, status) == [c \in Co |-> IF c \in T \cap co_ref THEN "dead" ELSE status[c]]

\* Fault: a child that was waited for is counted again with its parent's zombies.
CountedTwice(T) == uthreads - Cardinality(T \cap Threads)

Counted(T) == uthreads - Cardinality(T \cap co_ref \cap Threads)

\* The threads that c may name; that of ngx.on_abort is in nobody's hands before
\* its callback runs.
Children(c) == {t \in Threads : parent_co_ctx[t] = c /\ co_status[t] # "suspended"}

\* ngx.thread.wait(args): where its loop returns without yielding.
Returns(args) == {i \in DOMAIN args : \/ co_status[args[i]] = "zombie"
                                      \/ co_status[args[i]] = "dead" /\ i = Len(args)}

\* Fault: the child is not told that it is waited for.
StillAliveNone(args, n) == {}

StillAlive(args, n) == {args[i] : i \in {j \in 1..n : Alive(args[j])}}

\* Fault: an ended child is returned but its reference forgotten.
WaitReapsLeaky(T) == co_ref' = co_ref \ T /\ UNCHANGED uthreads

WaitReaps(T) == co_ref' = co_ref \ T /\ uthreads' = Counted(T)

WaitReturns(c, args) ==
    /\ Calls(c)
    /\ \A i \in DOMAIN args : args[i] \in Children(c)
    /\ Returns(args) # {}
    /\ LET first == CHOOSE i \in Returns(args) : \A j \in Returns(args) : i <= j
       IN /\ waited_by_parent' = waited_by_parent \cup StillAlive(args, first - 1)
          /\ co_status' = Deleted({args[first]}, co_status)
          /\ WaitReaps({args[first]})
    /\ UNCHANGED <<parent_co_ctx, propagate_error, zombie_child_threads, pending,
                   at, posted_threads, cur_co_ctx, request, phase>>

WaitYields(c, args) ==
    /\ Calls(c)
    /\ \A i \in DOMAIN args : args[i] \in Children(c)
    /\ Returns(args) = {}
    /\ waited_by_parent' = waited_by_parent \cup StillAlive(args, Len(args))
    /\ at' = [at EXCEPT ![c] = "wait"]
    /\ cur_co_ctx' = NoCo
    /\ UNCHANGED <<co_status, parent_co_ctx, co_ref, propagate_error,
                   zombie_child_threads, pending, posted_threads, uthreads, request, phase>>

\* The cleanup of a thread that lives takes the operation it is blocked in with it.
KilledPending(t) == IF Alive(t) THEN pending \ {t} ELSE pending

\* ngx.thread.kill(t); of a dead thread it only returns an error.
Kill(c, t) ==
    /\ Calls(c)
    /\ t \in (co_ref \cap Children(c)) \ subreqs
    /\ co_status[t] = "normal" => KillsResumer
    /\ pending' = KilledPending(t)
    /\ co_status' = Deleted({t}, co_status)
    /\ co_ref' = co_ref \ {t}
    /\ uthreads' = Counted({t})
    /\ UNCHANGED <<parent_co_ctx, flags, zombie_child_threads, at, posted_threads,
                   cur_co_ctx, request, phase>>

\* ngx.on_abort: a thread that waits for the client to go away.
OnAbort(c, t) ==
    /\ Calls(c)
    /\ on_abort_co_ctx = NoCo
    /\ co_status[t] = "none"
    /\ on_abort_co_ctx' = t
    /\ co_status' = [co_status EXCEPT ![t] = "suspended"]
    /\ parent_co_ctx' = [parent_co_ctx EXCEPT ![t] = c]
    /\ co_ref' = co_ref \cup {t}
    /\ UNCHANGED <<flags, zombie_child_threads, pending, at, posted_threads,
                   uthreads, cur_co_ctx, subreqs, no_abort, phase>>

NotStarted(t) == t = on_abort_co_ctx /\ co_status[t] = "suspended"

\* rd_check_broken_connection runs it; only now it is counted.
ClientGone ==
    LET t == on_abort_co_ctx IN
    /\ phase = "running" /\ cur_co_ctx = NoCo /\ posted_threads = <<>>
    /\ t # NoCo /\ NotStarted(t)
    /\ co_status' = [co_status EXCEPT ![t] = "running"]
    /\ uthreads' = uthreads + 1
    /\ at' = [at EXCEPT ![t] = "lua"]
    /\ cur_co_ctx' = t
    /\ UNCHANGED <<parent_co_ctx, co_ref, flags, zombie_child_threads, pending,
                   posted_threads, request, phase>>

----------------------------------------------------------------------------
(* The end of the code of the co_ctx on the CPU.  T are its zombie         *)
(* children if it looks after them, st the statuses so far.                *)

Goes(c, next) == /\ cur_co_ctx' = next
                 /\ at' = IF next = NoCo THEN [at EXCEPT ![c] = "ended"]
                          ELSE [at EXCEPT ![c] = "ended", ![next] = "lua"]

Looked(c, T) == [zombie_child_threads EXCEPT ![c] = @ \ T]

\* user_co_done of a user thread its parent waits for.
ParentWaits(c, T, st) ==
    LET p == parent_co_ctx[c] IN
    /\ Alive(p) /\ c \in waited_by_parent
    /\ waited_by_parent' = waited_by_parent \ {c}
    /\ co_status' = [Deleted(T \cup {c}, st) EXCEPT ![p] = "running"]
    /\ co_ref' = co_ref \ (T \cup {c})
    /\ uthreads' = Counted(T \cup {c})
    /\ zombie_child_threads' = Looked(c, T)
    /\ Goes(c, p)
    /\ UNCHANGED phase

BecomesZombie(c, T, st) ==
    LET p == parent_co_ctx[c] IN
    /\ Alive(p) /\ c \notin waited_by_parent
    /\ co_status' = [Deleted(T, st) EXCEPT ![c] = "zombie"]
    /\ co_ref' = co_ref \ T
    /\ uthreads' = Counted(T)
    /\ zombie_child_threads' = [Looked(c, T) EXCEPT ![p] = @ \cup {c}]
    /\ Goes(c, NoCo)
    /\ UNCHANGED <<waited_by_parent, phase>>

\* Fault: the handler is not ended by a user thread.
LastThreadNever == FALSE

\* No thread is left: uthreads is 0 and the entry thread has been deleted.
LastThread == uthreads' = 0 /\ Entry \notin co_ref'

Orphaned(c, T, st) ==
    /\ ~Alive(parent_co_ctx[c])
    /\ co_status' = Deleted(T \cup {c}, st)
    /\ co_ref' = co_ref \ (T \cup {c})
    /\ uthreads' = Counted(T \cup {c})
    /\ zombie_child_threads' = Looked(c, T)
    /\ phase' = IF LastThread THEN "done" ELSE phase
    /\ Goes(c, NoCo)
    /\ UNCHANGED waited_by_parent

UserThreadEnds(c, T, st) ==
    /\ c \in Threads
    /\ \/ ParentWaits(c, T, st)
       \/ BecomesZombie(c, T, st)
       \/ Orphaned(c, T, st)
    /\ UNCHANGED <<parent_co_ctx, posted_threads>>

EntryEnds(T, st) ==
    /\ co_status' = Deleted(T \cup {Entry}, st)
    /\ co_ref' = co_ref \ (T \cup {Entry})
    /\ uthreads' = Counted(T)
    /\ zombie_child_threads' = Looked(Entry, T)
    /\ phase' = IF LastThread THEN "done" ELSE phase
    /\ Goes(Entry, NoCo)
    /\ UNCHANGED <<parent_co_ctx, waited_by_parent, posted_threads>>

CoroutineEnds(k, T, st) ==
    LET p == parent_co_ctx[k] IN
    /\ k \in Coros
    /\ co_status' = [Deleted(T, st) EXCEPT ![p] = "running"]
    /\ co_ref' = co_ref \ T
    /\ uthreads' = Counted(T)
    /\ zombie_child_threads' = Looked(k, T)
    /\ UNCHANGED <<parent_co_ctx, waited_by_parent, posted_threads, phase>>

\* lua_resume returns 0.
Ends(c) ==
    LET st == [co_status EXCEPT ![c] = "dead"]
        T == zombie_child_threads[c]
    IN /\ Calls(c)
       /\ pending' = pending \ {c}
       /\ \/ c = Entry /\ EntryEnds(T, st)
          \/ UserThreadEnds(c, T, st)
          \/ CoroutineEnds(c, T, st) /\ Goes(c, parent_co_ctx[c])
       /\ UNCHANGED <<propagate_error, request>>

\* The thread of ngx.on_abort contributes to uthreads once it has started.
Started(T) == {t \in T : ~NotStarted(t)}

\* ngx_http_lua_finalize_threads, called with the pending operations left;
\* a coroutine has no reference, so its operation is not cleaned up.
FinalizeThreads(left, st, end) ==
    /\ pending' = left \ co_ref
    /\ co_status' = Deleted(co_ref, st)
    /\ co_ref' = {}
    /\ uthreads' = Counted(Started(co_ref))
    /\ on_abort_co_ctx' = IF on_abort_co_ctx \in co_ref THEN NoCo ELSE on_abort_co_ctx
    /\ cur_co_ctx' = NoCo
    /\ phase' = end
    /\ UNCHANGED <<parent_co_ctx, waited_by_parent, zombie_child_threads, at,
                   posted_threads, subreqs>>

\* What run_thread does after an error of c, from propagate_error on.
AfterError(c, st, left) ==
    \/ /\ UserThreadEnds(c, {}, st)
       /\ pending' = left /\ propagate_error' = propagate_error \ {c}
       /\ UNCHANGED request
    \/ /\ c = Entry
       /\ FinalizeThreads(left, st, "aborted")
       /\ propagate_error' = propagate_error \ {c}
       /\ no_abort' = FALSE
    \/ /\ CoroutineEnds(c, {}, st)
       /\ pending' = left
       /\ UNCHANGED request
       /\ IF c \in Wrapped
          THEN /\ propagate_error' = (propagate_error \ {c}) \cup {parent_co_ctx[c]}
               /\ cur_co_ctx' = parent_co_ctx[c]
               /\ at' = [at EXCEPT ![c] = "ended"]
          ELSE /\ propagate_error' = propagate_error \ {c}
               /\ Goes(c, parent_co_ctx[c])

\* lua_resume returns an error: zombie children are left as they are.
Fails(c) == /\ Calls(c)
            /\ AfterError(c, [co_status EXCEPT ![c] = "dead"], pending \ {c})

\* A wrapped coroutine has failed in c, which fails without being resumed.
Propagates(c) == /\ phase = "running" /\ cur_co_ctx = c /\ c \in propagate_error
                 /\ AfterError(c, co_status, pending)

\* ngx.exit and its like; "aborted" stands for the status codes ngx.ERROR, 408,
\* 444 and 499.
Exits(c) == /\ Calls(c)
            /\ \E end \in {"exited", "aborted"} :
                  /\ end = "exited" => ~no_abort
                  /\ FinalizeThreads(pending \ {c}, [co_status EXCEPT ![c] = "dead"],
                                     end)
            /\ UNCHANGED <<propagate_error, no_abort>>

\* The client goes away, or the request fails otherwise.
RequestAborted == /\ phase = "running" /\ cur_co_ctx = NoCo /\ posted_threads = <<>>
                  /\ FinalizeThreads(pending, co_status, "aborted")
                  /\ UNCHANGED <<propagate_error, no_abort>>

Args == UNION {[1..n -> Threads] : n \in 1..MaxArgs}

Next == \/ \E c \in Co : \/ ApiYields(c) \/ EventFires(c) \/ ThreadYields(c)
                         \/ CoYield(c) \/ Ends(c) \/ Fails(c) \/ Propagates(c)
                         \/ Exits(c) \/ Captures(c) \/ SubrequestsDone(c)
                         \/ \E k \in Coros : CoCreate(c, k) \/ CoResume(c, k)
                         \/ \E t \in Threads : Spawn(c, t) \/ Kill(c, t) \/ OnAbort(c, t)
                         \/ \E args \in Args : WaitReturns(c, args) \/ WaitYields(c, args)
        \/ RunPosted
        \/ ClientGone
        \/ RequestAborted

Spec == Init /\ [][Next]_vars

----------------------------------------------------------------------------
(* Properties.                                                             *)

\* Types; the fields of a co_ctx keep to their values.
TypeOK ==
    /\ co_status \in [Co -> {"none", "suspended", "running", "normal", "zombie", "dead"}]
    /\ parent_co_ctx \in [Co -> Co \cup {NoCo}]
    /\ co_ref \subseteq Light /\ waited_by_parent \subseteq Threads
    /\ propagate_error \subseteq Co
    /\ zombie_child_threads \in [Co -> SUBSET Threads]
    /\ pending \subseteq Co
    /\ at \in [Co -> {"fresh", "lua", "api", "wait", "spawn", "yield", "resume",
                      "coyield", "subreq", "ended"}]
    /\ posted_threads \in Seq(Co)
    /\ uthreads \in Nat
    /\ cur_co_ctx \in Co \cup {NoCo}
    /\ on_abort_co_ctx \in Threads \cup {NoCo}
    /\ subreqs \subseteq Co
    /\ no_abort \in BOOLEAN
    /\ phase \in {"running", "done", "exited", "aborted"}

\* ctx->uthreads counts the user threads that still have a reference, whichever
\* way the others went (waited for, killed, orphaned, reaped with their parent),
\* so that the assertion uthreads == 0 of finalize_threads holds however the
\* request ends (ngx_http_lua_util.c:3342).
UthreadsCounted == uthreads = Cardinality(Started(co_ref \cap Threads))

Posted(c) == \E i \in DOMAIN posted_threads : posted_threads[i] = c

\* What is going to resume c.
Driven(c) ==
    \/ at[c] = "api" /\ c \in pending
    \/ at[c] = "subreq" /\ c \in subreqs
    \/ NotStarted(c)
    \/ at[c] = "wait" /\ \E t \in waited_by_parent : parent_co_ctx[t] = c /\ Alive(t)
    \/ at[c] = "resume" /\ \E k \in Coros : parent_co_ctx[k] = c /\ Alive(k)
                                            /\ at[k] \notin {"coyield", "ended"}
    \/ at[c] \in {"spawn", "yield"} /\ Posted(c) /\ co_status[c] = "running"

\* Whoever has neither ended nor the CPU has the thing outstanding that will
\* resume it (an event, a child, a coroutine, its place among the posted
\* threads), whoever kills, ends or fails meanwhile.  Only a coroutine may be
\* left alone: suspended, or given up when one wrapped inside it has failed.
NoneStranded ==
    phase = "running" =>
        \A c \in Co : Alive(c) /\ cur_co_ctx # c =>
            \/ Driven(c)
            \/ c \in Coros /\ (co_status[c] = "suspended" \/ at[c] = "ended")

\* Why a step may give the CPU to c.
MayResume(c) ==
    CASE at[c] = "api" -> c \in pending /\ cur_co_ctx = NoCo
      [] at[c] = "subreq" -> c \in subreqs /\ cur_co_ctx = NoCo
      [] at[c] = "wait" -> cur_co_ctx \in waited_by_parent /\ parent_co_ctx[cur_co_ctx] = c
      [] at[c] = "resume" -> cur_co_ctx \in Coros /\ parent_co_ctx[cur_co_ctx] = c
      [] at[c] \in {"spawn", "yield"} -> cur_co_ctx = NoCo /\ Head(posted_threads) = c
      [] at[c] \in {"fresh", "coyield"} -> cur_co_ctx # NoCo \/ NotStarted(c)
      [] OTHER -> FALSE

\* A thread blocked in a call is resumed by what the call waits for and by
\* nothing else (a sleeper is not woken by a child, a killed thread not at all),
\* because what it is resumed with becomes the result of the call.
ResumedByRight ==
    [][\A c \in Co : cur_co_ctx' = c /\ cur_co_ctx # c
                     => MayResume(c) /\ co_status[c] # "dead"]_vars

\* Nothing can happen in this request any more, short of an abort.
Idle == /\ phase = "running" /\ cur_co_ctx = NoCo
        /\ posted_threads = <<>> /\ pending = {} /\ subreqs = {}

\* A zombie whose parent will not wait for it nor end: it ended with an error,
\* was killed, or is a coroutine that nobody resumes.
Unreaped(t) == /\ t \in co_ref \cap Threads /\ co_status[t] = "zombie"
               /\ LET p == parent_co_ctx[t] IN
                  co_status[p] = "dead" \/ at[p] \in {"ended", "coyield"}

\* Some wait for each other: a coroutine waits for a thread that, directly or
\* not, has resumed this coroutine.
Circle == \E S \in SUBSET {c \in Co : Alive(c) /\ at[c] \in {"wait", "resume"}} :
              /\ \E k \in S \cap Coros : at[k] = "wait"
              /\ \A c \in S : \E d \in S : parent_co_ctx[d] = c

\* The handler ends when the entry thread and all user threads have.  All that
\* can keep it are a zombie no one reaps (see FinishedHandlerEnds) and threads
\* that wait for each other; there is no lost end, and no lost wait.
OnlyZombiesKeepHandler == Idle => Circle \/ \E t \in Threads : Unreaped(t)

\* README.markdown:8499-8503: the handler terminates when the entry thread and all
\* the user threads have.  A zombie has terminated.
FinishedHandlerEnds == ~(Idle /\ \A c \in Light : ~Alive(c))

\* README.markdown:8507: a thread that is pending on subrequests is not aborted by
\* an ngx.exit with an ordinary status.  Not an invariant: no_abort is one flag,
\* and is cleared when the subrequests of any one thread are done.
SubrequestsNotAborted == phase = "exited" => subreqs = {}
=============================================================================
