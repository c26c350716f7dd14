------------------------- MODULE LightThreadProofs -------------------------
(***************************************************************************)
(* Proofs about LightThread, for any number of threads and coroutines.     *)
(***************************************************************************)
EXTENDS LightThread, CollectionLemmas

----------------------------------------------------------------------------
(* The inductive invariant.  Whoever has begun to run stays so; only these *)
(* have the CPU, are posted, wait for an event or have children.  A thread *)
(* of ngx.on_abort that has not begun has its reference and nothing else.  *)

Unbegun == {"none", "suspended"}

Begun == {c \in Co : c = Entry \/ /\ parent_co_ctx[c] # NoCo
                                  /\ c \in Threads => co_status[c] \notin Unbegun}

Statuses == {"none", "suspended", "running", "normal", "zombie", "dead"}
Places == {"fresh", "lua", "api", "wait", "spawn", "yield", "resume", "coyield",
           "subreq", "ended"}

Typed ==
    /\ co_status \in [Co -> Statuses]
    /\ parent_co_ctx \in [Co -> Begun \cup {NoCo}]
    /\ co_ref \subseteq Light /\ waited_by_parent \subseteq Threads
    /\ propagate_error \subseteq Begun
    /\ zombie_child_threads \in [Co -> SUBSET (Threads \cap Begun)]
    /\ pending \subseteq Begun
    /\ at \in [Co -> Places]
    /\ posted_threads \in Seq(Begun)
    /\ cur_co_ctx \in Begun \cup {NoCo}
    /\ on_abort_co_ctx \in Threads \cup {NoCo}
    /\ subreqs \subseteq Begun
    /\ no_abort \in BOOLEAN
    /\ phase \in {"running", "done", "exited", "aborted"}

Registered ==
    \A t \in Threads :
        /\ co_status[t] = "none" => t \notin co_ref
        /\ co_status[t] # "none" => parent_co_ctx[t] # NoCo
        /\ co_status[t] = "suspended" => t = on_abort_co_ctx /\ t \in co_ref

Running == co_ref \cap Threads \cap Begun

IInv == Typed /\ Registered /\ uthreads = Cardinality(Running)

\* A step that takes no thread back to before its beginning.
KeepsBegun(st) ==
    \A t \in Threads : \/ st[t] = co_status[t]
                       \/ t \in Begun /\ st[t] \notin Unbegun

----------------------------------------------------------------------------
(* Lemmas.                                                                 *)

LEMMA Begins ==
    ASSUME Typed, Registered
    PROVE  /\ Entry \in Begun /\ NoCo \notin Co /\ NoCo \notin Begun
           /\ Begun \subseteq Co /\ Entry \in Co
           /\ \A t \in Threads : t \in Begun <=> co_status[t] \notin Unbegun
           /\ \A t \in Threads : t \in Co /\ t # Entry /\ t \notin Coros
           /\ \A k \in Coros : k \in Co /\ k # Entry /\ (k \in Begun <=> parent_co_ctx[k] # NoCo)
BY LightThreadAssumption DEF Registered, Begun, Unbegun, Co, Light

LEMMA RunningFinite ==
    IsFiniteSet(Running) /\ Cardinality(Running) \in Nat
<1>1. IsFiniteSet(Co) /\ Running \in SUBSET Co
  BY LightThreadAssumption DEF Running, Begun
<1>. QED
  BY <1>1, FS_Subset, FS_CardinalityType

\* The threads of R lose their references, the others keep what they have.
LEMMA Removal ==
    ASSUME IInv, NEW R, R \cap co_ref \cap Threads \subseteq Begun,
           KeepsBegun(co_status'), parent_co_ctx' = parent_co_ctx,
           on_abort_co_ctx' = on_abort_co_ctx,
           co_ref' = co_ref \ R, uthreads' = Counted(R)
    PROVE  Begun' = Begun /\ Registered' /\ uthreads' = Cardinality(Running')
<1>1. Typed /\ Registered /\ uthreads = Cardinality(Running)
  BY DEF IInv
<1>2. Begun' = Begun
  BY <1>1, Begins DEF Begun, KeepsBegun, Unbegun
<1>3. Registered'
  <2>. SUFFICES ASSUME NEW t \in Threads
       PROVE /\ co_status'[t] = "none" => t \notin co_ref'
             /\ co_status'[t] # "none" => parent_co_ctx'[t] # NoCo
             /\ co_status'[t] = "suspended" => t = on_abort_co_ctx' /\ t \in co_ref'
    BY DEF Registered
  <2>1. CASE t \in Begun /\ co_status'[t] \notin Unbegun
    BY <2>1, <1>1, Begins DEF Registered, Unbegun
  <2>2. CASE co_status'[t] = co_status[t]
    <3>1. t \in R /\ t \in co_ref => co_status[t] \notin Unbegun
      BY <1>1, Begins
    <3>. QED
      BY <2>2, <3>1, <1>1 DEF Registered, Unbegun
  <2>. QED
    BY <2>1, <2>2 DEF KeepsBegun
<1>4. Running' = Running \ R /\ Running \cap R = R \cap co_ref \cap Threads
  BY <1>2 DEF Running
<1>5. Cardinality(Running \ R) = Cardinality(Running) - Cardinality(Running \cap R)
  BY RunningFinite, FS_Difference
<1>. QED
  BY <1>1, <1>2, <1>3, <1>4, <1>5 DEF Counted

LEMMA NothingRemoved ==
    ASSUME IInv, KeepsBegun(co_status'),
           UNCHANGED <<parent_co_ctx, on_abort_co_ctx, co_ref, uthreads>>
    PROVE  Begun' = Begun /\ Registered' /\ uthreads' = Cardinality(Running')
<1>1. {} \cap co_ref \cap Threads = {} /\ co_ref' = co_ref \ {}
  OBVIOUS
<1>2. Counted({}) = uthreads
  BY <1>1, FS_EmptySet, RunningFinite DEF Counted, IInv
<1>. QED
  BY <1>1, <1>2, Removal

LEMMA InitInv == Init => IInv
<1>. SUFFICES ASSUME Init PROVE IInv
  OBVIOUS
<1>1. Begun = {Entry} /\ Entry \in Co /\ Entry \in Light
  BY LightThreadAssumption DEF Init, Begun, Co, Light
<1>2. Registered
  BY LightThreadAssumption DEF Init, Registered, Co, Light
<1>3. Running = {}
  BY <1>1, LightThreadAssumption DEF Running
<1>4. Typed
  <2>1. co_status \in [Co -> Statuses] /\ at \in [Co -> Places]
    BY DEF Init, Statuses, Places
  <2>2. parent_co_ctx \in [Co -> Begun \cup {NoCo}]
    BY DEF Init
  <2>3. zombie_child_threads \in [Co -> SUBSET (Threads \cap Begun)]
    BY DEF Init
  <2>4. posted_threads \in Seq(Begun)
    BY DEF Init
  <2>. QED
    BY <1>1, <2>1, <2>2, <2>3, <2>4 DEF Init, Typed
<1>. QED
  BY <1>2, <1>3, <1>4, FS_EmptySet DEF IInv, Init

----------------------------------------------------------------------------
(* The steps.                                                              *)

LEMMA CallerBegun ==
    ASSUME Typed, Registered, NEW c \in Co, Calls(c)
    PROVE  c \in Begun /\ cur_co_ctx = c /\ phase = "running"
BY Begins DEF Calls, Typed

LEMMA LoopInv ==
    ASSUME IInv, NEW c \in Co,
           \/ ApiYields(c) \/ EventFires(c) \/ Captures(c) \/ SubrequestsDone(c)
           \/ ThreadYields(c) \/ RunPosted
           \/ \E args \in Args : WaitYields(c, args)
    PROVE  IInv'
<1>1. Typed /\ Registered
  BY DEF IInv
<1>2. KeepsBegun(co_status')
      /\ UNCHANGED <<co_status, parent_co_ctx, on_abort_co_ctx, co_ref, uthreads, phase,
                     propagate_error, zombie_child_threads>>
  BY DEF KeepsBegun, ApiYields, EventFires, Captures, SubrequestsDone, ThreadYields,
         RunPosted, WaitYields, request, flags
<1>3. Begun' = Begun /\ Registered' /\ uthreads' = Cardinality(Running')
  BY <1>2, NothingRemoved
<1>4. CASE ApiYields(c)
  BY <1>1, <1>2, <1>3, <1>4, CallerBegun DEF Typed, ApiYields, request, flags, IInv, Places
<1>5. CASE EventFires(c)
  BY <1>1, <1>2, <1>3, <1>5 DEF Typed, EventFires, request, flags, IInv, Places
<1>6. CASE Captures(c)
  BY <1>1, <1>2, <1>3, <1>6, CallerBegun DEF Typed, Captures, request, flags, IInv, Places
<1>7. CASE SubrequestsDone(c)
  BY <1>1, <1>2, <1>3, <1>7 DEF Typed, SubrequestsDone, request, flags, IInv, Places
<1>8. CASE ThreadYields(c)
  <2>1. c \in Begun
    BY <1>1, <1>8, CallerBegun DEF ThreadYields
  <2>2. posted_threads' \in Seq(Begun)
    BY <1>1, <1>8, <2>1, AppendProperties DEF Typed, ThreadYields
  <2>. QED
    BY <1>1, <1>2, <1>3, <1>8, <2>1, <2>2 DEF Typed, ThreadYields, request, flags, IInv, Places
<1>9. CASE RunPosted
  <2>1. /\ posted_threads' \in Seq(Begun)
        /\ Head(posted_threads) \in Begun
    BY <1>1, <1>9, HeadTailProperties DEF Typed, RunPosted
  <2>2. cur_co_ctx' \in Begun \cup {NoCo} /\ at' \in [Co -> Places]
    BY <1>1, <1>9, <2>1 DEF Typed, RunPosted, Places
  <2>. QED
    BY <1>1, <1>2, <1>3, <1>9, <2>1, <2>2 DEF Typed, RunPosted, request, flags, IInv
<1>10. ASSUME NEW args \in Args, WaitYields(c, args) PROVE IInv'
  <2>1. StillAlive(args, Len(args)) \subseteq Threads
    BY <1>10 DEF StillAlive, WaitYields, Children, Args
  <2>2. waited_by_parent' \subseteq Threads /\ at' \in [Co -> Places]
    BY <1>1, <1>10, <2>1 DEF Typed, WaitYields, Places
  <2>. QED
    BY <1>1, <1>2, <1>3, <1>10, <2>2 DEF Typed, WaitYields, request, flags, IInv
<1>. QED
  BY <1>4, <1>5, <1>6, <1>7, <1>8, <1>9, <1>10

LEMMA CoroutineInv ==
    ASSUME IInv, NEW c \in Co, NEW k \in Coros,
           CoCreate(c, k) \/ CoResume(c, k) \/ CoYield(k)
    PROVE  IInv'
<1>1. Typed /\ Registered
  BY DEF IInv
<1>2. /\ Entry \in Begun /\ NoCo \notin Begun /\ k \in Co
      /\ \A t \in Threads : t \in Co /\ t # k
  BY <1>1, Begins
<1>3. CASE CoCreate(c, k)
  <2>1. KeepsBegun(co_status')
    BY <1>1, <1>2, <1>3 DEF CoCreate, KeepsBegun, Typed
  <2>2. Begun' = Begun /\ Registered' /\ uthreads' = Cardinality(Running')
    BY <1>3, <2>1, NothingRemoved DEF CoCreate, request
  <2>. QED
    BY <1>1, <1>2, <1>3, <2>2 DEF Typed, CoCreate, request, flags, IInv, Statuses
<1>4. CASE CoYield(k)
  <2>1. PICK p : p = parent_co_ctx[k]
    OBVIOUS
  <2>2. p \in Begun \cup {NoCo}
    BY <1>1, <1>2, <2>1 DEF Typed
  <2>3. co_status' = [co_status EXCEPT ![k] = "suspended", ![p] = "running"]
        /\ at' = [at EXCEPT ![k] = "coyield", ![p] = "lua"] /\ cur_co_ctx' = p
    BY <1>4, <2>1 DEF CoYield
  <2>4. KeepsBegun(co_status')
    <3>. SUFFICES ASSUME NEW t \in Threads
                  PROVE  \/ co_status'[t] = co_status[t]
                         \/ t \in Begun /\ co_status'[t] \notin Unbegun
      BY DEF KeepsBegun
    <3>1. co_status'[t] = IF t = p THEN "running" ELSE co_status[t]
      BY <1>1, <1>2, <2>3 DEF Typed
    <3>2. t = p => t \in Begun
      BY <1>1, <1>2, <2>2, Begins
    <3>. QED
      BY <3>1, <3>2 DEF Unbegun
  <2>5. Begun' = Begun /\ Registered' /\ uthreads' = Cardinality(Running')
    BY <1>4, <2>4, NothingRemoved DEF CoYield, request
  <2>6. co_status' \in [Co -> Statuses] /\ at' \in [Co -> Places]
    BY <1>1, <2>3 DEF Typed, Statuses, Places
  <2>. QED
    BY <1>1, <1>4, <2>2, <2>3, <2>5, <2>6 DEF Typed, CoYield, request, flags, IInv
<1>5. CASE CoResume(c, k)
  <2>1. c \in Begun /\ c \in Co
    BY <1>1, <1>5, CallerBegun DEF CoResume
  <2>2. /\ co_status' = [co_status EXCEPT ![c] = "normal", ![k] = "running"]
        /\ parent_co_ctx' = [parent_co_ctx EXCEPT ![k] = c]
        /\ at' = [at EXCEPT ![c] = "resume", ![k] = "lua"]
        /\ cur_co_ctx' = k
        /\ UNCHANGED <<co_ref, flags, zombie_child_threads, pending, posted_threads,
                       uthreads, request, phase>>
    BY <1>5 DEF CoResume
  <2>3. \A t \in Threads : /\ parent_co_ctx'[t] = parent_co_ctx[t]
                           /\ co_status'[t] = IF t = c THEN "normal" ELSE co_status[t]
    BY <1>1, <1>2, <2>2 DEF Typed
  <2>4. Begun' = Begun \cup {k}
    <3>1. ASSUME NEW d \in Co PROVE d \in Begun' <=> d \in Begun \cup {k}
      <4>1. CASE d = k
        <5>1. d \notin Threads /\ parent_co_ctx'[d] = c /\ c # NoCo
          BY <1>1, <1>2, <2>1, <2>2, <4>1 DEF Typed
        <5>. QED
          BY <4>1, <5>1 DEF Begun
      <4>2. CASE d # k
        <5>1. parent_co_ctx'[d] = parent_co_ctx[d]
          BY <1>1, <2>2, <4>2 DEF Typed
        <5>2. CASE d = c /\ d \in Threads
          BY <2>1, <2>3, <5>1, <5>2, <4>2 DEF Begun, Unbegun
        <5>3. CASE d # c \/ d \notin Threads
          BY <2>3, <5>1, <5>3, <4>2 DEF Begun, Unbegun
        <5>. QED
          BY <5>2, <5>3
      <4>. QED
        BY <4>1, <4>2
    <3>2. Begun' \subseteq Co /\ Begun \subseteq Co
      BY DEF Begun
    <3>. QED
      BY <1>2, <3>1, <3>2
  <2>5. Registered'
    <3>. SUFFICES ASSUME NEW t \in Threads
         PROVE /\ co_status'[t] = "none" => t \notin co_ref'
               /\ co_status'[t] # "none" => parent_co_ctx'[t] # NoCo
               /\ co_status'[t] = "suspended" => t = on_abort_co_ctx' /\ t \in co_ref'
      BY DEF Registered
    <3>1. t = c => co_status[t] \notin Unbegun
      BY <1>1, <2>1, Begins
    <3>2. co_ref' = co_ref /\ on_abort_co_ctx' = on_abort_co_ctx
      BY <2>2 DEF request
    <3>. QED
      BY <1>1, <2>3, <3>1, <3>2 DEF Registered, Unbegun
  <2>6. Running' = Running
    BY <1>2, <2>2, <2>4 DEF Running
  <2>7. parent_co_ctx' \in [Co -> Begun' \cup {NoCo}]
    BY <1>1, <2>1, <2>2, <2>4 DEF Typed
  <2>8. co_status' \in [Co -> Statuses] /\ at' \in [Co -> Places]
    BY <1>1, <2>2 DEF Typed, Statuses, Places
  <2>9. posted_threads \in Seq(Begun \cup {k})
    <3>1. posted_threads \in Seq(Begun)
      BY <1>1 DEF Typed
    <3>. QED
      BY <3>1
  <2>10. Typed'
    BY <1>1, <2>2, <2>4, <2>7, <2>8, <2>9 DEF Typed, request, flags
  <2>. QED
    BY <2>2, <2>5, <2>6, <2>10 DEF IInv
<1>. QED
  BY <1>3, <1>4, <1>5

\* The statuses after the threads of T have been deleted.
LEMMA DeletedStatuses ==
    ASSUME Typed, Registered, NEW st \in [Co -> Statuses], KeepsBegun(st),
           NEW T, T \cap Threads \subseteq Begun
    PROVE  /\ Deleted(T, st) \in [Co -> Statuses]
           /\ KeepsBegun(Deleted(T, st))
           /\ \A p \in Begun \cup {NoCo}, s \in Statuses \ Unbegun :
                 /\ [Deleted(T, st) EXCEPT ![p] = s] \in [Co -> Statuses]
                 /\ KeepsBegun([Deleted(T, st) EXCEPT ![p] = s])
<1>1. Deleted(T, st) \in [Co -> Statuses]
  BY DEF Deleted, Statuses
<1>2. \A t \in Threads : t \in Co /\ t # NoCo
  BY Begins
<1>3. KeepsBegun(Deleted(T, st))
  <2>. SUFFICES ASSUME NEW t \in Threads
                PROVE  \/ Deleted(T, st)[t] = co_status[t]
                       \/ t \in Begun /\ Deleted(T, st)[t] \notin Unbegun
    BY DEF KeepsBegun
  <2>1. Deleted(T, st)[t] = IF t \in T \cap co_ref THEN "dead" ELSE st[t]
    BY <1>2 DEF Deleted
  <2>. QED
    BY <2>1 DEF KeepsBegun, Unbegun
<1>4. ASSUME NEW p \in Begun \cup {NoCo}, NEW s \in Statuses \ Unbegun
      PROVE  /\ [Deleted(T, st) EXCEPT ![p] = s] \in [Co -> Statuses]
             /\ KeepsBegun([Deleted(T, st) EXCEPT ![p] = s])
  <2>. DEFINE d == Deleted(T, st)
  <2>1. d \in [Co -> Statuses] /\ KeepsBegun(d)
    BY <1>1, <1>3
  <2>. HIDE DEF d
  <2>2. [d EXCEPT ![p] = s] \in [Co -> Statuses]
    BY <2>1
  <2>3. ASSUME NEW t \in Threads
        PROVE  \/ [d EXCEPT ![p] = s][t] = co_status[t]
               \/ t \in Begun /\ [d EXCEPT ![p] = s][t] \notin Unbegun
    <3>1. [d EXCEPT ![p] = s][t] = IF t = p THEN s ELSE d[t]
      BY <1>2, <2>1
    <3>2. t = p => t \in Begun
      BY <1>2
    <3>. QED
      BY <2>1, <3>1, <3>2 DEF KeepsBegun
  <2>4. KeepsBegun([d EXCEPT ![p] = s])
    BY <2>3 DEF KeepsBegun
  <2>. QED
    BY <2>2, <2>4 DEF d
<1>. QED
  BY <1>1, <1>3, <1>4

LEMMA StatusesKept ==
    ASSUME Typed
    PROVE  co_status \in [Co -> Statuses] /\ KeepsBegun(co_status)
BY DEF Typed, KeepsBegun

\* wait and kill delete a thread that has begun.
LEMMA ReapInv ==
    ASSUME IInv, NEW c \in Co,
           \/ \E t \in Threads : Kill(c, t)
           \/ \E args \in Args : WaitReturns(c, args)
    PROVE  IInv'
<1>1. Typed /\ Registered
  BY DEF IInv
<1>2. ASSUME NEW t \in Begun \cap Threads,
             co_status' = Deleted({t}, co_status), co_ref' = co_ref \ {t},
             uthreads' = Counted({t}),
             UNCHANGED <<parent_co_ctx, propagate_error, zombie_child_threads, at,
                         posted_threads, cur_co_ctx, request, phase>>,
             pending' \subseteq pending, waited_by_parent' \subseteq Threads
      PROVE  IInv'
  <2>1. co_status' \in [Co -> Statuses] /\ KeepsBegun(co_status')
    BY <1>1, <1>2, StatusesKept, DeletedStatuses
  <2>2. Begun' = Begun /\ Registered' /\ uthreads' = Cardinality(Running')
    BY <1>2, <2>1, Removal DEF request
  <2>. QED
    BY <1>1, <1>2, <2>1, <2>2 DEF Typed, request, IInv
<1>3. ASSUME NEW t \in Threads, Kill(c, t) PROVE IInv'
  <2>1. t \in co_ref /\ co_status[t] # "suspended"
    BY <1>3 DEF Kill, Children
  <2>2. t \in Begun
    BY <1>1, <2>1, Begins DEF Registered, Unbegun
  <2>3. pending' \subseteq pending /\ waited_by_parent' \subseteq Threads
    BY <1>1, <1>3 DEF Kill, KilledPending, flags, Typed
  <2>. QED
    BY <1>2, <1>3, <2>2, <2>3 DEF Kill, flags
<1>4. ASSUME NEW args \in Args, WaitReturns(c, args) PROVE IInv'
  <2>1. PICK first : first = CHOOSE i \in Returns(args) : \A j \in Returns(args) : i <= j
    OBVIOUS
  <2>2. first \in Returns(args)
    <3>1. PICK n \in 1..MaxArgs : args \in [1..n -> Threads]
      BY DEF Args
    <3>2. n \in Nat /\ Len(args) \in Nat
      BY <3>1, LightThreadAssumption
    <3>3. Returns(args) \subseteq 1..n /\ Returns(args) # {}
      BY <1>4, <3>1 DEF Returns, WaitReturns
    <3>4. \E i \in Returns(args) : \A j \in Returns(args) : i <= j
      <4>1. Returns(args) \in SUBSET Nat
        BY <3>2, <3>3
      <4>. QED
        BY <3>3, <4>1, LeastMember
    <3>. QED
      BY <2>1, <3>4
  <2>3. PICK t : t = args[first]
    OBVIOUS
  <2>4. t \in Threads /\ co_status[t] \in {"zombie", "dead"}
    BY <1>4, <2>2, <2>3 DEF WaitReturns, Returns, Children
  <2>5. t \in Begun
    BY <1>1, <2>4, Begins DEF Unbegun
  <2>6. /\ co_status' = Deleted({t}, co_status)
        /\ co_ref' = co_ref \ {t} /\ uthreads' = Counted({t})
        /\ waited_by_parent' = waited_by_parent \cup StillAlive(args, first - 1)
    BY <1>4, <2>1, <2>3 DEF WaitReturns, WaitReaps
  <2>7. waited_by_parent' \subseteq Threads
    <3>1. \A i \in DOMAIN args : args[i] \in Threads
      BY <1>4 DEF WaitReturns, Children
    <3>2. \A j : Alive(args[j]) /\ j \in 1..(first - 1) => j \in DOMAIN args
      <4>1. PICK n \in 1..MaxArgs : args \in [1..n -> Threads]
        BY DEF Args
      <4>2. first \in 1..n
        BY <2>2, <4>1 DEF Returns
      <4>3. n \in Int
        BY <4>1, LightThreadAssumption
      <4>. QED
        BY <4>1, <4>2, <4>3
    <3>3. StillAlive(args, first - 1) \subseteq Threads
      BY <3>1, <3>2 DEF StillAlive
    <3>. QED
      BY <1>1, <2>6, <3>3 DEF Typed
  <2>. QED
    BY <1>2, <1>4, <2>4, <2>5, <2>6, <2>7 DEF WaitReturns
<1>. QED
  BY <1>3, <1>4

LEMMA SpawnInv == ASSUME IInv, NEW c \in Co, NEW t \in Threads, Spawn(c, t) PROVE IInv'
<1>1. Typed /\ Registered
  BY DEF IInv
<1>2. /\ c \in Begun /\ t \in Co /\ t # Entry /\ t \notin co_ref /\ t \notin Begun /\ c # NoCo
      /\ \A u \in Threads : u \in Co
  <2>1. c \in Begun /\ NoCo \notin Begun
    BY <1>1, CallerBegun, Begins DEF Spawn
  <2>2. co_status[t] = "none"
    BY DEF Spawn
  <2>. QED
    BY <1>1, <2>1, <2>2, Begins DEF Registered, Unbegun
<1>3. /\ co_status' = [co_status EXCEPT ![t] = "running"]
      /\ parent_co_ctx' = [parent_co_ctx EXCEPT ![t] = c]
      /\ co_ref' = co_ref \cup {t} /\ uthreads' = uthreads + 1
      /\ posted_threads' = Append(posted_threads, c)
      /\ at' = [at EXCEPT ![c] = "spawn", ![t] = "lua"]
      /\ cur_co_ctx' = t
      /\ UNCHANGED <<flags, zombie_child_threads, pending, request, phase>>
  BY DEF Spawn
<1>4. \A d \in Co : /\ parent_co_ctx'[d] = IF d = t THEN c ELSE parent_co_ctx[d]
                    /\ co_status'[d] = IF d = t THEN "running" ELSE co_status[d]
  BY <1>1, <1>3 DEF Typed
<1>5. Begun' = Begun \cup {t}
  <2>1. \A d \in Co : d \in Begun' <=> d \in Begun \cup {t}
    BY <1>2, <1>4 DEF Begun, Unbegun
  <2>2. Begun' \subseteq Co /\ Begun \subseteq Co
    BY DEF Begun
  <2>. QED
    BY <1>2, <2>1, <2>2
<1>6. Registered'
  BY <1>1, <1>2, <1>3, <1>4 DEF Registered, request
<1>7. Running' = Running \cup {t} /\ t \notin Running
  BY <1>2, <1>3, <1>5 DEF Running
<1>8. uthreads' = Cardinality(Running')
  BY <1>3, <1>7, RunningFinite, FS_AddElement DEF IInv
<1>9. posted_threads' \in Seq(Begun \cup {t})
  <2>1. posted_threads \in Seq(Begun \cup {t})
    <3>1. posted_threads \in Seq(Begun)
      BY <1>1 DEF Typed
    <3>. QED
      BY <3>1
  <2>. QED
    BY <1>2, <1>3, <2>1, AppendProperties
<1>10. parent_co_ctx' \in [Co -> Begun' \cup {NoCo}]
  BY <1>1, <1>2, <1>3, <1>5 DEF Typed
<1>11. co_status' \in [Co -> Statuses] /\ at' \in [Co -> Places]
  BY <1>1, <1>3 DEF Typed, Statuses, Places
<1>12. co_ref' \subseteq Light
  BY <1>1, <1>3 DEF Typed, Light
<1>13. Typed'
  BY <1>1, <1>3, <1>5, <1>9, <1>10, <1>11, <1>12 DEF Typed, flags, request
<1>. QED
  BY <1>6, <1>8, <1>13 DEF IInv

LEMMA OnAbortInv == ASSUME IInv, NEW c \in Co, NEW t \in Threads, OnAbort(c, t) PROVE IInv'
<1>1. Typed /\ Registered
  BY DEF IInv
<1>2. /\ c \in Begun /\ c # NoCo /\ t \in Co /\ t # Entry
      /\ \A u \in Threads : u \in Co /\ u # NoCo
  BY <1>1, CallerBegun, Begins DEF OnAbort
<1>3. /\ on_abort_co_ctx = NoCo /\ co_status[t] = "none"
      /\ on_abort_co_ctx' = t
      /\ co_status' = [co_status EXCEPT ![t] = "suspended"]
      /\ parent_co_ctx' = [parent_co_ctx EXCEPT ![t] = c]
      /\ co_ref' = co_ref \cup {t}
      /\ UNCHANGED <<flags, zombie_child_threads, pending, at, posted_threads,
                     uthreads, cur_co_ctx, subreqs, no_abort, phase>>
  BY DEF OnAbort
<1>4. \A d \in Co : /\ parent_co_ctx'[d] = IF d = t THEN c ELSE parent_co_ctx[d]
                    /\ co_status'[d] = IF d = t THEN "suspended" ELSE co_status[d]
  BY <1>1, <1>3 DEF Typed
<1>5. Begun' = Begun /\ t \notin Begun
  <2>1. \A d \in Co : d \in Begun' <=> d \in Begun
    BY <1>2, <1>3, <1>4 DEF Begun, Unbegun
  <2>2. Begun' \subseteq Co /\ Begun \subseteq Co
    BY DEF Begun
  <2>. QED
    BY <1>2, <1>3, <2>1, <2>2 DEF Begun, Unbegun
<1>6. Registered'
  BY <1>1, <1>2, <1>3, <1>4 DEF Registered
<1>7. Running' = Running
  BY <1>3, <1>5 DEF Running
<1>8. parent_co_ctx' \in [Co -> Begun' \cup {NoCo}]
  BY <1>1, <1>2, <1>3, <1>5 DEF Typed
<1>9. co_status' \in [Co -> Statuses] /\ co_ref' \subseteq Light
  BY <1>1, <1>3 DEF Typed, Statuses, Light
<1>10. Typed'
  BY <1>1, <1>3, <1>5, <1>8, <1>9 DEF Typed, flags
<1>. QED
  BY <1>3, <1>6, <1>7, <1>10 DEF IInv

LEMMA ClientGoneInv == ASSUME IInv, ClientGone PROVE IInv'
<1>1. Typed /\ Registered
  BY DEF IInv
<1>2. PICK t : t = on_abort_co_ctx
  OBVIOUS
<1>3. /\ t # NoCo /\ co_status[t] = "suspended"
      /\ co_status' = [co_status EXCEPT ![t] = "running"]
      /\ uthreads' = uthreads + 1
      /\ at' = [at EXCEPT ![t] = "lua"]
      /\ cur_co_ctx' = t
      /\ UNCHANGED <<parent_co_ctx, co_ref, flags, zombie_child_threads, pending,
                     posted_threads, request, phase>>
  BY <1>2 DEF ClientGone, NotStarted
<1>4. /\ t \in Threads /\ t \in Co /\ t # Entry /\ t \in co_ref /\ t \notin Begun
      /\ parent_co_ctx[t] # NoCo
      /\ \A u \in Threads : u \in Co
  <2>1. t \in Threads
    BY <1>1, <1>2, <1>3 DEF Typed
  <2>. QED
    BY <1>1, <1>3, <2>1, Begins DEF Registered, Unbegun
<1>5. \A d \in Co : co_status'[d] = IF d = t THEN "running" ELSE co_status[d]
  BY <1>1, <1>3 DEF Typed
<1>6. Begun' = Begun \cup {t}
  <2>1. \A d \in Co : d \in Begun' <=> d \in Begun \cup {t}
    BY <1>3, <1>4, <1>5 DEF Begun, Unbegun
  <2>2. Begun' \subseteq Co /\ Begun \subseteq Co
    BY DEF Begun
  <2>. QED
    BY <1>4, <2>1, <2>2
<1>7. Registered'
  BY <1>1, <1>3, <1>4, <1>5 DEF Registered, request
<1>8. Running' = Running \cup {t} /\ t \notin Running
  BY <1>3, <1>4, <1>6 DEF Running
<1>9. uthreads' = Cardinality(Running')
  BY <1>3, <1>8, RunningFinite, FS_AddElement DEF IInv
<1>10. posted_threads \in Seq(Begun \cup {t})
  <2>1. posted_threads \in Seq(Begun)
    BY <1>1 DEF Typed
  <2>. QED
    BY <2>1
<1>11. co_status' \in [Co -> Statuses] /\ at' \in [Co -> Places]
  BY <1>1, <1>3 DEF Typed, Statuses, Places
<1>12. parent_co_ctx' \in [Co -> Begun' \cup {NoCo}]
  BY <1>1, <1>3, <1>6 DEF Typed
<1>13. Typed'
  BY <1>1, <1>3, <1>6, <1>10, <1>11, <1>12 DEF Typed, flags, request
<1>. QED
  BY <1>7, <1>9, <1>13 DEF IInv

----------------------------------------------------------------------------
(* The end of a co_ctx, with st the statuses so far and T the zombies it   *)
(* looks after.                                                            *)

\* The places of c and of the one who has the CPU next.
LEMMA GoesTyped ==
    ASSUME Typed, NEW c \in Co, NEW next \in Begun \cup {NoCo}, Goes(c, next)
    PROVE  cur_co_ctx' \in Begun \cup {NoCo} /\ at' \in [Co -> Places]
<1>1. [at EXCEPT ![c] = "ended"] \in [Co -> Places]
  BY DEF Typed, Places
<1>2. [at EXCEPT ![c] = "ended", ![next] = "lua"] \in [Co -> Places]
  BY DEF Typed, Places
<1>. QED
  BY <1>1, <1>2 DEF Goes

\* What every end has in common.
LEMMA EndKeeps ==
    ASSUME IInv, NEW R, R \cap Threads \subseteq Begun,
           co_status' \in [Co -> Statuses], KeepsBegun(co_status'),
           co_ref' = co_ref \ R, uthreads' = Counted(R),
           UNCHANGED <<parent_co_ctx, posted_threads, request>>,
           pending' \subseteq Begun, propagate_error' \subseteq Begun,
           waited_by_parent' \subseteq Threads,
           zombie_child_threads' \in [Co -> SUBSET (Threads \cap Begun)],
           cur_co_ctx' \in Begun \cup {NoCo}, at' \in [Co -> Places],
           phase' \in {phase, "done"}
    PROVE  IInv'
<1>1. Typed
  BY DEF IInv
<1>2. Begun' = Begun /\ Registered' /\ uthreads' = Cardinality(Running')
  BY Removal DEF request
<1>3. co_ref' \subseteq Light
  BY <1>1 DEF Typed
<1>. QED
  BY <1>1, <1>2, <1>3 DEF Typed, IInv, request

LEMMA LookedTyped ==
    ASSUME Typed, NEW c, NEW T
    PROVE  Looked(c, T) \in [Co -> SUBSET (Threads \cap Begun)]
BY DEF Typed, Looked

LEMMA UserThreadEndsInv ==
    ASSUME IInv, NEW c \in Begun, NEW T \in SUBSET (Threads \cap Begun),
           NEW st \in [Co -> Statuses], KeepsBegun(st),
           UserThreadEnds(c, T, st), UNCHANGED request,
           pending' \subseteq Begun, propagate_error' \subseteq Begun
    PROVE  IInv'
<1>1. Typed /\ Registered
  BY DEF IInv
<1>2. PICK p : p = parent_co_ctx[c]
  OBVIOUS
<1>3. /\ c \in Threads /\ c \in Co /\ p \in Begun \cup {NoCo} /\ NoCo \in Begun \cup {NoCo}
      /\ UNCHANGED <<parent_co_ctx, posted_threads>>
      /\ waited_by_parent \subseteq Threads
      /\ Looked(c, T) \in [Co -> SUBSET (Threads \cap Begun)]
      /\ T \cap Threads \subseteq Begun /\ (T \cup {c}) \cap Threads \subseteq Begun
  <2>1. c \in Threads /\ c \in Co
    BY <1>1, Begins DEF UserThreadEnds
  <2>. QED
    BY <1>1, <1>2, <2>1, LookedTyped DEF UserThreadEnds, Typed
<1>4. CASE ParentWaits(c, T, st)
  <2>1. /\ waited_by_parent' = waited_by_parent \ {c}
        /\ co_status' = [Deleted(T \cup {c}, st) EXCEPT ![p] = "running"]
        /\ co_ref' = co_ref \ (T \cup {c})
        /\ uthreads' = Counted(T \cup {c})
        /\ zombie_child_threads' = Looked(c, T)
        /\ Goes(c, p) /\ phase' = phase
    BY <1>2, <1>4 DEF ParentWaits
  <2>2. "running" \in Statuses \ Unbegun
    BY DEF Statuses, Unbegun
  <2>3. co_status' \in [Co -> Statuses] /\ KeepsBegun(co_status')
    BY <1>1, <1>3, <2>1, <2>2, DeletedStatuses
  <2>4. cur_co_ctx' \in Begun \cup {NoCo} /\ at' \in [Co -> Places]
    BY <1>1, <1>3, <2>1, GoesTyped
  <2>5. waited_by_parent' \subseteq Threads
    BY <1>3, <2>1
  <2>. QED
    BY <1>3, <2>1, <2>3, <2>4, <2>5, EndKeeps
<1>5. CASE BecomesZombie(c, T, st)
  <2>1. /\ co_status' = [Deleted(T, st) EXCEPT ![c] = "zombie"]
        /\ co_ref' = co_ref \ T
        /\ uthreads' = Counted(T)
        /\ zombie_child_threads' = [Looked(c, T) EXCEPT ![p] = @ \cup {c}]
        /\ Goes(c, NoCo) /\ UNCHANGED <<waited_by_parent, phase>>
    BY <1>2, <1>5 DEF BecomesZombie
  <2>2. "zombie" \in Statuses \ Unbegun
    BY DEF Statuses, Unbegun
  <2>3. co_status' \in [Co -> Statuses] /\ KeepsBegun(co_status')
    BY <1>1, <1>3, <2>1, <2>2, DeletedStatuses
  <2>4. cur_co_ctx' \in Begun \cup {NoCo} /\ at' \in [Co -> Places]
    BY <1>1, <1>3, <2>1, GoesTyped
  <2>5. zombie_child_threads' \in [Co -> SUBSET (Threads \cap Begun)]
    <3>1. PICK L : L = Looked(c, T)
      OBVIOUS
    <3>2. L \in [Co -> SUBSET (Threads \cap Begun)] /\ c \in Threads \cap Begun
      BY <1>3, <3>1
    <3>3. [L EXCEPT ![p] = @ \cup {c}] \in [Co -> SUBSET (Threads \cap Begun)]
      BY <3>2
    <3>. QED
      BY <2>1, <3>1, <3>3
  <2>. QED
    BY <1>3, <2>1, <2>3, <2>4, <2>5, EndKeeps
<1>6. CASE Orphaned(c, T, st)
  <2>1. /\ co_status' = Deleted(T \cup {c}, st)
        /\ co_ref' = co_ref \ (T \cup {c})
        /\ uthreads' = Counted(T \cup {c})
        /\ zombie_child_threads' = Looked(c, T)
        /\ phase' \in {phase, "done"}
        /\ Goes(c, NoCo) /\ UNCHANGED waited_by_parent
    BY <1>6 DEF Orphaned
  <2>2. co_status' \in [Co -> Statuses] /\ KeepsBegun(co_status')
    BY <1>1, <1>3, <2>1, DeletedStatuses
  <2>3. cur_co_ctx' \in Begun \cup {NoCo} /\ at' \in [Co -> Places]
    BY <1>1, <1>3, <2>1, GoesTyped
  <2>. QED
    BY <1>3, <2>1, <2>2, <2>3, EndKeeps
<1>. QED
  BY <1>4, <1>5, <1>6 DEF UserThreadEnds

LEMMA EntryEndsInv ==
    ASSUME IInv, NEW T \in SUBSET (Threads \cap Begun),
           NEW st \in [Co -> Statuses], KeepsBegun(st),
           EntryEnds(T, st), UNCHANGED request,
           pending' \subseteq Begun, propagate_error' \subseteq Begun
    PROVE  IInv'
<1>1. Typed /\ Registered
  BY DEF IInv
<1>2. /\ co_status' = Deleted(T \cup {Entry}, st)
      /\ co_ref' = co_ref \ (T \cup {Entry})
      /\ uthreads' = Counted(T)
      /\ zombie_child_threads' = Looked(Entry, T)
      /\ phase' \in {phase, "done"}
      /\ Goes(Entry, NoCo)
      /\ UNCHANGED <<parent_co_ctx, waited_by_parent, posted_threads>>
  BY DEF EntryEnds
<1>3. Entry \in Co /\ Entry \in Begun /\ Entry \notin Threads
  BY <1>1, Begins
<1>4. (T \cup {Entry}) \cap Threads \subseteq Begun
  BY <1>3
<1>5. Counted(T) = Counted(T \cup {Entry})
  <2>1. (T \cup {Entry}) \cap co_ref \cap Threads = T \cap co_ref \cap Threads
    BY <1>3
  <2>. QED
    BY <2>1 DEF Counted
<1>6. co_status' \in [Co -> Statuses] /\ KeepsBegun(co_status')
  BY <1>1, <1>2, <1>4, DeletedStatuses
<1>7. cur_co_ctx' \in Begun \cup {NoCo} /\ at' \in [Co -> Places]
  BY <1>1, <1>2, <1>3, GoesTyped
<1>8. /\ zombie_child_threads' \in [Co -> SUBSET (Threads \cap Begun)]
      /\ waited_by_parent' \subseteq Threads
  BY <1>1, <1>2, LookedTyped DEF Typed
<1>. QED
  BY <1>2, <1>4, <1>5, <1>6, <1>7, <1>8, EndKeeps

LEMMA CoroutineEndsInv ==
    ASSUME IInv, NEW k \in Begun, NEW T \in SUBSET (Threads \cap Begun),
           NEW st \in [Co -> Statuses], KeepsBegun(st),
           CoroutineEnds(k, T, st), UNCHANGED request,
           cur_co_ctx' \in Begun \cup {NoCo}, at' \in [Co -> Places],
           pending' \subseteq Begun, propagate_error' \subseteq Begun
    PROVE  IInv'
<1>1. Typed /\ Registered
  BY DEF IInv
<1>2. PICK p : p = parent_co_ctx[k]
  OBVIOUS
<1>3. /\ co_status' = [Deleted(T, st) EXCEPT ![p] = "running"]
      /\ co_ref' = co_ref \ T /\ uthreads' = Counted(T)
      /\ zombie_child_threads' = Looked(k, T)
      /\ UNCHANGED <<parent_co_ctx, waited_by_parent, posted_threads, phase>>
      /\ k \in Coros
  BY <1>2 DEF CoroutineEnds
<1>4. p \in Begun \cup {NoCo} /\ T \cap Threads \subseteq Begun
  BY <1>1, <1>2, <1>3, Begins DEF Typed
<1>5. "running" \in Statuses \ Unbegun
  BY DEF Statuses, Unbegun
<1>6. co_status' \in [Co -> Statuses] /\ KeepsBegun(co_status')
  BY <1>1, <1>3, <1>4, <1>5, DeletedStatuses
<1>7. /\ zombie_child_threads' \in [Co -> SUBSET (Threads \cap Begun)]
      /\ waited_by_parent' \subseteq Threads
  BY <1>1, <1>3, LookedTyped DEF Typed
<1>. QED
  BY <1>3, <1>4, <1>6, <1>7, EndKeeps

\* finalize_threads ends each thread that has a reference, and the count is 0:
\* the threads counted are those that have begun.
LEMMA FinalizeInv ==
    ASSUME IInv, NEW left \in SUBSET Begun,
           NEW st \in [Co -> Statuses], KeepsBegun(st),
           NEW end \in {"exited", "aborted"}, FinalizeThreads(left, st, end),
           propagate_error' \subseteq Begun, no_abort' \in BOOLEAN
    PROVE  IInv'
<1>1. Typed /\ Registered
  BY DEF IInv
<1>2. /\ pending' = left \ co_ref
      /\ co_status' = Deleted(co_ref, st)
      /\ co_ref' = {}
      /\ uthreads' = Counted(Started(co_ref))
      /\ on_abort_co_ctx' = IF on_abort_co_ctx \in co_ref THEN NoCo ELSE on_abort_co_ctx
      /\ cur_co_ctx' = NoCo
      /\ phase' = end
      /\ UNCHANGED <<parent_co_ctx, waited_by_parent, zombie_child_threads, at,
                     posted_threads, subreqs>>
  BY DEF FinalizeThreads
<1>3. \A t \in Threads : co_status'[t] = IF t \in co_ref THEN "dead" ELSE st[t]
  BY <1>1, <1>2, Begins DEF Deleted
<1>4. Begun \subseteq Begun'
  <2>. SUFFICES ASSUME NEW c \in Begun PROVE c \in Begun'
    OBVIOUS
  <2>1. c \in Co /\ (c = Entry \/ parent_co_ctx'[c] # NoCo)
    BY <1>2 DEF Begun
  <2>2. ASSUME c \in Threads PROVE co_status'[c] \notin Unbegun
    <3>1. co_status[c] \notin Unbegun
      BY <1>1, <2>2, Begins
    <3>. QED
      BY <1>3, <2>2, <3>1 DEF KeepsBegun, Unbegun
  <2>. QED
    BY <2>1, <2>2 DEF Begun
<1>5. Registered'
  <2>. SUFFICES ASSUME NEW t \in Threads
       PROVE /\ co_status'[t] = "none" => t \notin co_ref'
             /\ co_status'[t] # "none" => parent_co_ctx'[t] # NoCo
             /\ co_status'[t] = "suspended" => t = on_abort_co_ctx' /\ t \in co_ref'
    BY DEF Registered
  <2>1. CASE t \in co_ref
    BY <1>1, <1>2, <1>3, <2>1 DEF Registered
  <2>2. CASE t \notin co_ref
    <3>1. CASE t \in Begun /\ st[t] \notin Unbegun
      BY <1>1, <1>2, <1>3, <2>2, <3>1, Begins DEF Registered, Unbegun
    <3>2. CASE st[t] = co_status[t]
      BY <1>1, <1>2, <1>3, <2>2, <3>2 DEF Registered
    <3>. QED
      BY <3>1, <3>2 DEF KeepsBegun
  <2>. QED
    BY <2>1, <2>2
<1>6. Started(co_ref) \cap co_ref \cap Threads = Running
  <2>1. ASSUME NEW t \in co_ref \cap Threads PROVE ~NotStarted(t) <=> t \in Begun
    BY <1>1, <2>1, Begins DEF Registered, NotStarted, Unbegun
  <2>. QED
    BY <2>1 DEF Running, Started
<1>7. uthreads' = 0
  BY <1>2, <1>6, RunningFinite DEF Counted, IInv
<1>8. Running' = {}
  BY <1>2 DEF Running
<1>9. Typed'
  <2>1. co_status' \in [Co -> Statuses]
    BY <1>2 DEF Deleted, Statuses
  <2>2. posted_threads' \in Seq(Begun')
    <3>1. posted_threads \in Seq(Begun)
      BY <1>1 DEF Typed
    <3>. HIDE DEF Begun
    <3>. QED
      BY <1>2, <1>4, <3>1
  <2>3. parent_co_ctx' \in [Co -> Begun' \cup {NoCo}]
    BY <1>1, <1>2, <1>4 DEF Typed
  <2>4. zombie_child_threads' \in [Co -> SUBSET (Threads \cap Begun')]
    BY <1>1, <1>2, <1>4 DEF Typed
  <2>. QED
    BY <1>1, <1>2, <1>4, <2>1, <2>2, <2>3, <2>4 DEF Typed
<1>. QED
  BY <1>5, <1>7, <1>8, <1>9, FS_EmptySet DEF IInv

LEMMA EndsInv ==
    ASSUME IInv, NEW c \in Co,
           Ends(c) \/ Fails(c) \/ Propagates(c) \/ Exits(c)
    PROVE  IInv'
<1>1. Typed /\ Registered
  BY DEF IInv
<1>2. c \in Begun
  BY <1>1, CallerBegun, Begins DEF Ends, Fails, Propagates, Exits, Typed
<1>3. PICK dead : dead = [co_status EXCEPT ![c] = "dead"]
  OBVIOUS
<1>4. dead \in [Co -> Statuses] /\ KeepsBegun(dead)
  <2>1. \A t \in Threads : dead[t] = IF t = c THEN "dead" ELSE co_status[t]
    BY <1>1, <1>3, Begins DEF Typed
  <2>. QED
    BY <1>1, <1>2, <1>3, <2>1 DEF Typed, Statuses, KeepsBegun, Unbegun
<1>5. /\ co_status \in [Co -> Statuses] /\ KeepsBegun(co_status)
      /\ pending \subseteq Begun /\ pending \ {c} \in SUBSET Begun
      /\ propagate_error \subseteq Begun /\ no_abort \in BOOLEAN
      /\ zombie_child_threads[c] \in SUBSET (Threads \cap Begun)
      /\ {} \in SUBSET (Threads \cap Begun)
  BY <1>1, StatusesKept DEF Typed
<1>6. CASE Ends(c)
  <2>1. PICK T : T = zombie_child_threads[c]
    OBVIOUS
  <2>2. /\ pending' = pending \ {c} /\ propagate_error' = propagate_error /\ UNCHANGED request
        /\ \/ c = Entry /\ EntryEnds(T, dead)
           \/ UserThreadEnds(c, T, dead)
           \/ CoroutineEnds(c, T, dead) /\ Goes(c, parent_co_ctx[c])
    BY <1>3, <1>6, <2>1 DEF Ends
  <2>3. T \in SUBSET (Threads \cap Begun) /\ pending' \subseteq Begun
        /\ propagate_error' \subseteq Begun
    BY <1>5, <2>1, <2>2
  <2>4. CASE EntryEnds(T, dead)
    BY <1>4, <2>2, <2>3, <2>4, EntryEndsInv
  <2>5. CASE UserThreadEnds(c, T, dead)
    BY <1>2, <1>4, <2>2, <2>3, <2>5, UserThreadEndsInv
  <2>6. CASE CoroutineEnds(c, T, dead) /\ Goes(c, parent_co_ctx[c])
    <3>1. cur_co_ctx' \in Begun \cup {NoCo} /\ at' \in [Co -> Places]
      <4>1. parent_co_ctx[c] \in Begun \cup {NoCo}
        BY <1>1 DEF Typed
      <4>. QED
        BY <1>1, <2>6, <4>1, GoesTyped
    <3>. QED
      BY <1>2, <1>4, <2>2, <2>3, <2>6, <3>1, CoroutineEndsInv
  <2>. QED
    BY <2>2, <2>4, <2>5, <2>6
<1>7. ASSUME NEW st \in [Co -> Statuses], KeepsBegun(st), NEW left \in SUBSET Begun,
             AfterError(c, st, left)
      PROVE  IInv'
  <2>1. CASE /\ UserThreadEnds(c, {}, st)
             /\ pending' = left /\ propagate_error' = propagate_error \ {c}
             /\ UNCHANGED request
    <3>1. pending' \subseteq Begun /\ propagate_error' \subseteq Begun
      BY <1>5, <2>1
    <3>. QED
      BY <1>2, <1>5, <1>7, <2>1, <3>1, UserThreadEndsInv
  <2>2. CASE /\ FinalizeThreads(left, st, "aborted")
             /\ propagate_error' = propagate_error \ {c}
             /\ no_abort' = FALSE
    <3>1. propagate_error' \subseteq Begun /\ no_abort' \in BOOLEAN
      BY <1>5, <2>2
    <3>. QED
      BY <1>7, <2>2, <3>1, FinalizeInv
  <2>3. CASE /\ CoroutineEnds(c, {}, st)
             /\ pending' = left
             /\ UNCHANGED request
             /\ IF c \in Wrapped
                THEN /\ propagate_error' = (propagate_error \ {c}) \cup {parent_co_ctx[c]}
                     /\ cur_co_ctx' = parent_co_ctx[c]
                     /\ at' = [at EXCEPT ![c] = "ended"]
                ELSE /\ propagate_error' = propagate_error \ {c}
                     /\ Goes(c, parent_co_ctx[c])
    <3>1. c \in Coros /\ parent_co_ctx[c] \in Begun
      <4>1. c \in Coros
        BY <2>3 DEF CoroutineEnds
      <4>2. parent_co_ctx[c] \in Begun \cup {NoCo} /\ parent_co_ctx[c] # NoCo
        BY <1>1, <1>2, <4>1, Begins DEF Typed
      <4>. QED
        BY <4>1, <4>2
    <3>2. /\ cur_co_ctx' \in Begun \cup {NoCo} /\ at' \in [Co -> Places]
          /\ propagate_error' \subseteq Begun
      <4>1. CASE c \in Wrapped
        BY <1>1, <1>5, <2>3, <3>1, <4>1 DEF Typed, Places
      <4>2. CASE c \notin Wrapped
        BY <1>1, <1>5, <2>3, <3>1, <4>2, GoesTyped
      <4>. QED
        BY <4>1, <4>2
    <3>3. pending' \subseteq Begun
      BY <2>3
    <3>. QED
      BY <1>2, <1>5, <1>7, <2>3, <3>2, <3>3, CoroutineEndsInv
  <2>. QED
    BY <1>7, <2>1, <2>2, <2>3 DEF AfterError
<1>8. CASE Fails(c)
  BY <1>3, <1>4, <1>5, <1>7, <1>8 DEF Fails
<1>9. CASE Propagates(c)
  BY <1>5, <1>7, <1>9 DEF Propagates
<1>10. CASE Exits(c)
  <2>1. PICK end \in {"exited", "aborted"} : FinalizeThreads(pending \ {c}, dead, end)
    BY <1>3, <1>10 DEF Exits
  <2>2. propagate_error' \subseteq Begun /\ no_abort' \in BOOLEAN
    BY <1>5, <1>10 DEF Exits
  <2>. QED
    BY <1>4, <1>5, <2>1, <2>2, FinalizeInv
<1>. QED
  BY <1>6, <1>8, <1>9, <1>10

LEMMA RequestAbortedInv == ASSUME IInv, RequestAborted PROVE IInv'
<1>1. Typed
  BY DEF IInv
<1>2. /\ co_status \in [Co -> Statuses] /\ KeepsBegun(co_status)
      /\ pending \in SUBSET Begun /\ propagate_error' \subseteq Begun
      /\ no_abort' \in BOOLEAN
  BY <1>1, StatusesKept DEF Typed, RequestAborted
<1>. QED
  BY <1>2, FinalizeInv DEF RequestAborted

LEMMA NextInv == ASSUME IInv, [Next]_vars PROVE IInv'
<1>1. CASE UNCHANGED vars
  <2>1. Typed /\ Registered
    BY DEF IInv
  <2>2. Begun' = Begun
    BY <1>1 DEF vars, Begun
  <2>3. Typed'
    BY <1>1, <2>1, <2>2 DEF vars, flags, request, Typed
  <2>4. Registered' /\ Running' = Running
    BY <1>1, <2>1, <2>2 DEF vars, flags, request, Registered, Running
  <2>. QED
    BY <1>1, <2>3, <2>4 DEF IInv, vars
<1>2. ASSUME NEW c \in Co,
             \/ ApiYields(c) \/ EventFires(c) \/ ThreadYields(c)
             \/ Captures(c) \/ SubrequestsDone(c)
             \/ \E args \in Args : WaitYields(c, args)
      PROVE  IInv'
  BY <1>2, LoopInv
<1>3. CASE RunPosted
  <2>1. Entry \in Co
    BY DEF Co, Light
  <2>. QED
    BY <1>3, <2>1, LoopInv
<1>4. ASSUME NEW c \in Co, CoYield(c) PROVE IInv'
  <2>1. c \in Coros
    BY <1>4 DEF CoYield
  <2>. QED
    BY <1>4, <2>1, CoroutineInv
<1>5. ASSUME NEW c \in Co, NEW k \in Coros, CoCreate(c, k) \/ CoResume(c, k)
      PROVE  IInv'
  BY <1>5, CoroutineInv
<1>6. ASSUME NEW c \in Co, Ends(c) \/ Fails(c) \/ Propagates(c) \/ Exits(c)
      PROVE  IInv'
  BY <1>6, EndsInv
<1>7. ASSUME NEW c \in Co, NEW t \in Threads, Spawn(c, t) PROVE IInv'
  BY <1>7, SpawnInv
<1>8. ASSUME NEW c \in Co, NEW t \in Threads, OnAbort(c, t) PROVE IInv'
  BY <1>8, OnAbortInv
<1>9. ASSUME NEW c \in Co,
             \/ \E t \in Threads : Kill(c, t)
             \/ \E args \in Args : WaitReturns(c, args)
      PROVE  IInv'
  BY <1>9, ReapInv
<1>10. CASE ClientGone
  BY <1>10, ClientGoneInv
<1>11. CASE RequestAborted
  BY <1>11, RequestAbortedInv
<1>. QED
  BY <1>1, <1>2, <1>3, <1>4, <1>5, <1>6, <1>7, <1>8, <1>9, <1>10, <1>11 DEF Next

LEMMA Invariant == Spec => []IInv
BY InitInv, NextInv, PTL DEF Spec

----------------------------------------------------------------------------
\* The fields of a co_ctx keep to their values, and no use of a parent or of the
\* head of the queue meets a NULL: whoever is there has begun to run.
THEOREM TypeSafe == Spec => []TypeOK
<1>1. IInv => TypeOK
  <2>. SUFFICES ASSUME IInv PROVE TypeOK
    OBVIOUS
  <2>1. Typed /\ Begun \subseteq Co
    BY DEF IInv, Begun
  <2>2. uthreads \in Nat
    BY RunningFinite DEF IInv
  <2>3. posted_threads \in Seq(Co)
    <3>1. posted_threads \in Seq(Begun)
      BY <2>1 DEF Typed
    <3>. QED
      BY <2>1, <3>1
  <2>. QED
    BY <2>1, <2>2, <2>3 DEF Typed, TypeOK, Statuses, Places
<1>. QED
  BY <1>1, Invariant, PTL

\* ctx->uthreads is the number of user threads that have begun and still have a
\* reference, whichever of wait, kill, the end of a parent or of the request lets
\* the others go; at the end of the request it is 0, as finalize_threads asserts.
THEOREM UthreadsSafe == Spec => []UthreadsCounted
<1>1. IInv => UthreadsCounted
  <2>. SUFFICES ASSUME IInv PROVE UthreadsCounted
    OBVIOUS
  <2>1. Typed /\ Registered
    BY DEF IInv
  <2>2. ASSUME NEW t \in co_ref \cap Threads PROVE ~NotStarted(t) <=> t \in Begun
    BY <2>1, <2>2, Begins DEF Registered, NotStarted, Unbegun
  <2>3. Started(co_ref \cap Threads) = Running
    BY <2>2 DEF Running, Started
  <2>. QED
    BY <2>3 DEF IInv, UthreadsCounted
<1>. QED
  BY <1>1, Invariant, PTL

----------------------------------------------------------------------------
(* Where each co_ctx stands, and what is going to resume it.  This is for  *)
(* a program that waits for one thread at a time and kills no thread that  *)
(* is inside coroutine.resume.                                             *)

OneAtATime == MaxArgs = 1 /\ ~KillsResumer

\* The coroutines inside which Lua code runs or is blocked.
Active == {k \in Coros : at[k] \notin {"fresh", "coyield", "ended"}}

Blocked == {"api", "subreq", "wait", "spawn", "yield"}

\* The status and the place of each agree.
Placed ==
    \A c \in Co :
        IF c = cur_co_ctx
        THEN /\ co_status[c] = "running"
             /\ at[c] = IF c \in propagate_error THEN "resume" ELSE "lua"
        ELSE /\ co_status[c] = "none" => at[c] = "fresh"
             /\ co_status[c] = "suspended" => at[c] \in {"fresh", "coyield"}
             /\ co_status[c] = "running" => \/ at[c] \in Blocked
                                            \/ c \in Coros /\ at[c] = "ended"
             /\ co_status[c] = "normal" => at[c] = "resume"
             /\ co_status[c] = "zombie" => c \in Threads /\ at[c] = "ended"
             /\ co_status[c] = "dead" /\ c \in Coros => at[c] = "ended"

\* A thread that lives or is a zombie has its reference.
Anchored ==
    /\ \A c \in Light : c \in co_ref <=> co_status[c] \notin {"none", "dead"}
    /\ \A c \in Co : \A t \in zombie_child_threads[c] : co_status[t] \in {"zombie", "dead"}
    /\ propagate_error \subseteq {cur_co_ctx}
    /\ co_status[Entry] \notin Unbegun
    /\ \A t \in Threads : /\ co_status[t] = "suspended" => at[t] = "fresh"
                          /\ co_status[t] = "none" => parent_co_ctx[t] = NoCo

\* Who expects an event has it armed, or its place in the queue, once.
Expecting ==
    /\ \A c \in Co : /\ c \in pending <=> Alive(c) /\ at[c] = "api"
                     /\ c \in subreqs <=> Alive(c) /\ at[c] = "subreq"
                     /\ Alive(c) => (c \in Range(posted_threads)
                                        <=> at[c] \in {"spawn", "yield"})
    /\ IsInjective(posted_threads)

\* Who waits for a child has told one child, and that one lives.
Waiting ==
    /\ \A t \in waited_by_parent : LET p == parent_co_ctx[t] IN
          /\ p \in Co
          /\ Alive(p) => at[p] = "wait" /\ Alive(t) /\ co_status[t] # "suspended"
    /\ \A p \in Co : Alive(p) /\ at[p] = "wait" =>
          \E t \in waited_by_parent : parent_co_ctx[t] = p
    /\ \A t, u \in waited_by_parent :
          Alive(parent_co_ctx[t]) /\ parent_co_ctx[t] = parent_co_ctx[u] => t = u

\* Who has resumed a coroutine is the parent of one that is active, and an
\* active coroutine has a parent that is in resume.
Resuming ==
    /\ \A k \in Active : LET p == parent_co_ctx[k] IN
          p \in Co /\ Alive(p) /\ at[p] = "resume" /\ p # cur_co_ctx
    /\ \A p \in Co : Alive(p) /\ at[p] = "resume" /\ p # cur_co_ctx =>
          \E k \in Active : parent_co_ctx[k] = p
    /\ \A k, l \in Active : parent_co_ctx[k] = parent_co_ctx[l] => k = l

\* Going up from child to parent one leaves A.
Grounded(A, parent) == \A S \in SUBSET A : S # {} => \E c \in S : parent[c] \notin S

\* While nobody has the CPU a thread is left; no circle of children.
Living ==
    /\ Grounded(Active, parent_co_ctx) /\ Grounded(Threads, parent_co_ctx)
    /\ cur_co_ctx = NoCo => Entry \in co_ref \/ Running # {}
    /\ \A k \in Coros : at[k] = "fresh" => parent_co_ctx[k] = NoCo

Settled == Placed /\ Anchored /\ Expecting /\ Waiting /\ Resuming /\ Living

SInv == phase = "running" => Settled

LEMMA InitSettled == Init => SInv
<1>. SUFFICES ASSUME Init PROVE Settled
  BY DEF SInv
<1>1. /\ Entry \in Co /\ Entry \notin Coros /\ Entry \notin Threads /\ Entry \in Light
      /\ Light \subseteq Co /\ Coros \subseteq Co /\ Threads \subseteq Co /\ NoCo \notin Co
  BY LightThreadAssumption DEF Co, Light
<1>2. /\ \A c \in Co : /\ co_status[c] = IF c = Entry THEN "running" ELSE "none"
                       /\ parent_co_ctx[c] = NoCo
                       /\ zombie_child_threads[c] = {}
                       /\ at[c] = IF c = Entry THEN "lua" ELSE "fresh"
      /\ cur_co_ctx = Entry /\ co_ref = {Entry} /\ propagate_error = {} /\ pending = {}
      /\ subreqs = {} /\ posted_threads = <<>> /\ waited_by_parent = {}
  BY DEF Init
<1>3. Placed
  BY <1>1, <1>2 DEF Placed
<1>4. Anchored
  BY <1>1, <1>2 DEF Anchored, Unbegun, Light
<1>5. Range(posted_threads) = {} /\ IsInjective(posted_threads)
  BY <1>2 DEF Range, IsInjective
<1>6. Expecting
  BY <1>1, <1>2, <1>5 DEF Expecting
<1>7. Waiting
  BY <1>1, <1>2 DEF Waiting
<1>8. Active = {}
  BY <1>1, <1>2 DEF Active
<1>9. Resuming
  BY <1>1, <1>2, <1>8 DEF Resuming
<1>10. Grounded(Active, parent_co_ctx)
  BY <1>8 DEF Grounded
<1>11. Grounded(Threads, parent_co_ctx)
  BY <1>1, <1>2 DEF Grounded
<1>12. Living
  BY <1>1, <1>2, <1>10, <1>11 DEF Living
<1>. QED
  BY <1>3, <1>4, <1>6, <1>7, <1>9, <1>12 DEF Settled

LEMMA Kinds ==
    /\ Entry \in Co /\ Entry \in Light /\ Entry \notin Coros /\ Entry \notin Threads
    /\ Light \subseteq Co /\ Coros \subseteq Co /\ Threads \subseteq Co
    /\ Threads \subseteq Light /\ NoCo \notin Co
    /\ \A c \in Light : c = Entry \/ c \in Threads
    /\ \A c \in Co : c \in Light <=> c \notin Coros
    /\ \A t \in Threads : t \notin Coros
BY LightThreadAssumption DEF Co, Light

LEMMA ActiveFacts ==
    ASSUME Placed, NEW k \in Active
    PROVE  /\ k \in Coros /\ k \in Co
           /\ co_status[k] \in Statuses => co_status[k] \in {"running", "normal"}
BY Kinds DEF Active, Placed, Statuses

LEMMA GroundedLess ==
    ASSUME NEW A, NEW B, NEW p, NEW q, Grounded(A, p), B \subseteq A,
           \A c \in B : q[c] = p[c]
    PROVE  Grounded(B, q)
<1>. SUFFICES ASSUME NEW S \in SUBSET B, S # {} PROVE \E c \in S : q[c] \notin S
  BY DEF Grounded
<1>1. PICK c \in S : p[c] \notin S
  BY DEF Grounded
<1>. QED
  BY <1>1

\* A new element that is nobody's parent.
LEMMA GroundedMore ==
    ASSUME NEW A, NEW B, NEW p, NEW q, Grounded(A, p), NEW k, B \subseteq A \cup {k},
           q[k] # k, \A c \in B \ {k} : q[c] = p[c] /\ p[c] # k
    PROVE  Grounded(B, q)
<1>. SUFFICES ASSUME NEW S \in SUBSET B, S # {}, \A c \in S : q[c] \in S PROVE FALSE
  BY DEF Grounded
<1>1. S \ {k} # {}
  BY Zenon
<1>2. S \ {k} \subseteq A
  OBVIOUS
<1>3. PICK c \in S \ {k} : p[c] \notin S \ {k}
  BY <1>1, <1>2 DEF Grounded
<1>. QED
  BY <1>3

\* Whoever has the CPU has been resumed, through however many coroutines, by a
\* light thread that lives.
LEMMA SomeoneLives ==
    ASSUME IInv, Settled, cur_co_ctx # NoCo
    PROVE  Entry \in co_ref \/ Running # {}
<1>1. Typed /\ Placed /\ Anchored /\ Resuming /\ Living
  BY DEF IInv, Settled
<1>2. cur_co_ctx \in Co
  BY <1>1, Kinds DEF Typed, Begun
<1>3. ASSUME NEW c \in Light, Alive(c), at[c] # "fresh"
      PROVE  Entry \in co_ref \/ Running # {}
  <2>1. c \in co_ref
    BY <1>1, <1>3 DEF Anchored, Alive
  <2>2. CASE c = Entry
    BY <2>1, <2>2
  <2>3. CASE c \in Threads
    <3>1. co_status[c] \notin Unbegun
      BY <1>1, <1>3, <2>3 DEF Anchored, Alive, Unbegun
    <3>2. c \in Begun
      BY <1>1, <2>3, <3>1, Begins DEF IInv
    <3>. QED
      BY <2>1, <2>3, <3>2 DEF Running
  <2>. QED
    BY <2>2, <2>3, Kinds
<1>4. CASE cur_co_ctx \in Light
  <2>1. Alive(cur_co_ctx) /\ at[cur_co_ctx] # "fresh"
    BY <1>1, <1>2 DEF Placed, Alive
  <2>. QED
    BY <1>3, <1>4, <2>1
<1>5. CASE cur_co_ctx \notin Light
  <2>1. cur_co_ctx \in Active
    BY <1>1, <1>2, <1>5, Kinds DEF Placed, Active
  <2>2. PICK k \in Active : parent_co_ctx[k] \notin Active
    BY <1>1, <2>1 DEF Living, Grounded
  <2>3. PICK p : p = parent_co_ctx[k]
    OBVIOUS
  <2>4. p \in Co /\ Alive(p) /\ at[p] = "resume"
    BY <1>1, <2>3 DEF Resuming
  <2>5. p \in Light
    BY <2>2, <2>3, <2>4, Kinds DEF Active
  <2>. QED
    BY <1>3, <2>4, <2>5
<1>. QED
  BY <1>4, <1>5

\* Steps that change nothing for those who wait for a child.
LEMMA WaitingKept ==
    ASSUME Waiting, waited_by_parent' = waited_by_parent,
           \A t \in waited_by_parent : parent_co_ctx'[t] = parent_co_ctx[t],
           \A p \in Co : Alive(p)' => (at'[p] = "wait" <=> Alive(p) /\ at[p] = "wait"),
           \A t \in waited_by_parent : Alive(parent_co_ctx[t])' => Alive(parent_co_ctx[t]),
           \A t \in waited_by_parent :
              Alive(parent_co_ctx[t])' /\ Alive(t) /\ co_status[t] # "suspended"
                 => Alive(t)' /\ co_status'[t] # "suspended"
    PROVE  Waiting'
<1>1. ASSUME NEW t \in waited_by_parent
      PROVE  /\ parent_co_ctx[t] \in Co
             /\ Alive(parent_co_ctx[t])' => at'[parent_co_ctx[t]] = "wait" /\ Alive(t)'
                                            /\ co_status'[t] # "suspended"
  BY DEF Waiting
<1>2. ASSUME NEW p \in Co, Alive(p)', at'[p] = "wait"
      PROVE  \E t \in waited_by_parent : parent_co_ctx[t] = p
  BY <1>2 DEF Waiting
<1>3. ASSUME NEW t \in waited_by_parent, NEW u \in waited_by_parent,
             Alive(parent_co_ctx[t])', parent_co_ctx[t] = parent_co_ctx[u]
      PROVE  t = u
  BY <1>3 DEF Waiting
<1>. QED
  BY <1>1, <1>2, <1>3 DEF Waiting

----------------------------------------------------------------------------
(* The one on the CPU stops, and one whom the event loop knows goes on.    *)

LEMMA Stops ==
    ASSUME IInv, Settled, NEW c \in Co, cur_co_ctx = c, c \notin propagate_error,
           NEW place \in {"api", "subreq", "wait", "yield"},
           at' = [at EXCEPT ![c] = place], cur_co_ctx' = NoCo,
           UNCHANGED <<co_status, parent_co_ctx, co_ref, propagate_error,
                       zombie_child_threads>>
    PROVE  Placed' /\ Anchored' /\ Resuming' /\ Living'
<1>1. Typed /\ Placed /\ Anchored /\ Resuming /\ Living
  BY DEF IInv, Settled
<1>2. \A d \in Co : at'[d] = IF d = c THEN place ELSE at[d]
  BY <1>1 DEF Typed
<1>3. co_status[c] = "running" /\ at[c] = "lua"
  BY <1>1 DEF Placed
<1>4. propagate_error = {}
  BY <1>1 DEF Anchored
<1>5. Placed'
  BY <1>1, <1>2, <1>3, <1>4, Kinds DEF Placed, Blocked
<1>6. Anchored'
  BY <1>1, <1>2, <1>3, <1>4, Kinds DEF Anchored
<1>7. Active' = Active
  BY <1>2, <1>3, Kinds DEF Active
<1>8. Resuming'
  BY <1>1, <1>2, <1>3, <1>7, Kinds DEF Resuming, Alive
<1>9. Entry \in co_ref \/ Running # {}
  BY SomeoneLives, Kinds
<1>10. Running' = Running
  BY DEF Running, Begun
<1>11. Living'
  BY <1>1, <1>2, <1>3, <1>7, <1>9, <1>10, Kinds DEF Living
<1>. QED
  BY <1>5, <1>6, <1>8, <1>11

LEMMA GoesOn ==
    ASSUME IInv, Settled, NEW c \in Co, cur_co_ctx = NoCo, Alive(c),
           at[c] \in {"api", "subreq", "spawn", "yield"},
           at' = [at EXCEPT ![c] = "lua"], cur_co_ctx' = c,
           UNCHANGED <<co_status, parent_co_ctx, co_ref, propagate_error,
                       waited_by_parent, zombie_child_threads>>
    PROVE  Placed' /\ Anchored' /\ Waiting' /\ Resuming' /\ Living'
<1>1. Typed /\ Placed /\ Anchored /\ Waiting /\ Resuming /\ Living
  BY DEF IInv, Settled
<1>2. \A d \in Co : at'[d] = IF d = c THEN "lua" ELSE at[d]
  BY <1>1 DEF Typed
<1>3. co_status[c] = "running"
  BY <1>1, Kinds DEF Placed, Alive, Typed, Statuses
<1>4. propagate_error = {}
  <2>1. propagate_error \subseteq Begun
    BY <1>1 DEF Typed
  <2>. QED
    BY <1>1, <2>1, Kinds DEF Anchored, Begun
<1>5. Placed'
  BY <1>1, <1>2, <1>3, <1>4, Kinds DEF Placed
<1>6. Anchored'
  BY <1>1, <1>2, <1>3, <1>4, Kinds DEF Anchored
<1>7. Active' = Active
  BY <1>2, Kinds DEF Active
<1>8. Resuming'
  BY <1>1, <1>2, <1>3, <1>7, Kinds DEF Resuming, Alive
<1>9. Running' = Running
  BY DEF Running, Begun
<1>10. Living'
  BY <1>1, <1>2, <1>3, <1>7, <1>9, Kinds DEF Living
<1>11. Waiting'
  <2>1. \A p \in Co : Alive(p)' /\ at'[p] = "wait" <=> Alive(p) /\ at[p] = "wait"
    BY <1>2 DEF Alive
  <2>2. \A p : Alive(p)' = Alive(p)
    BY DEF Alive
  <2>. QED
    BY <1>1, <2>1, <2>2, WaitingKept
<1>. QED
  BY <1>5, <1>6, <1>8, <1>10, <1>11

\* The positions are all that the conjuncts other than Expecting are about.
positions == <<co_status, parent_co_ctx, co_ref, flags, zombie_child_threads, at,
               cur_co_ctx>>

LEMMA SamePositions ==
    ASSUME Settled, UNCHANGED positions
    PROVE  Placed' /\ Anchored' /\ Waiting' /\ Resuming' /\ Living'
<1>1. Placed /\ Anchored /\ Waiting /\ Resuming /\ Living
  BY DEF Settled
<1>2. Active' = Active /\ Running' = Running
  BY DEF positions, Active, Running, Begun
<1>3. Placed' /\ Anchored'
  BY <1>1 DEF positions, flags, Placed, Anchored
<1>4. Waiting'
  BY <1>1 DEF positions, flags, Waiting, Alive
<1>5. Resuming'
  BY <1>1, <1>2 DEF positions, flags, Resuming, Alive
<1>6. Living'
  BY <1>1, <1>2 DEF positions, Living
<1>. QED
  BY <1>3, <1>4, <1>5, <1>6

\* The caller expects nothing yet, and nobody waits for it as a parent.
LEMMA CallerFree ==
    ASSUME IInv, Settled, NEW c \in Co, Calls(c)
    PROVE  /\ phase = "running" /\ cur_co_ctx = c /\ c \notin propagate_error
           /\ co_status[c] = "running" /\ at[c] = "lua" /\ Alive(c)
           /\ c \notin pending /\ c \notin subreqs /\ c \notin Range(posted_threads)
           /\ \A t \in waited_by_parent : parent_co_ctx[t] # c
           /\ \A k \in Active : parent_co_ctx[k] # c
           /\ propagate_error = {}
<1>1. phase = "running" /\ cur_co_ctx = c /\ c \notin propagate_error
  BY DEF Calls
<1>2. co_status[c] = "running" /\ at[c] = "lua" /\ Alive(c)
  BY <1>1 DEF Settled, Placed, Alive
<1>3. c \notin pending /\ c \notin subreqs /\ c \notin Range(posted_threads)
  BY <1>2 DEF Settled, Expecting
<1>4. \A t \in waited_by_parent : parent_co_ctx[t] # c
  BY <1>2 DEF Settled, Waiting
<1>5. \A k \in Active : parent_co_ctx[k] # c
  BY <1>1 DEF Settled, Resuming
<1>6. propagate_error = {}
  BY <1>1 DEF Settled, Anchored
<1>. QED
  BY <1>1, <1>2, <1>3, <1>4, <1>5, <1>6

LEMMA PlacesChange ==
    ASSUME Typed, NEW c \in Co, NEW place, at' = [at EXCEPT ![c] = place]
    PROVE  \A d \in Co : at'[d] = IF d = c THEN place ELSE at[d]
BY DEF Typed

LEMMA StoppingSteps ==
    ASSUME IInv, Settled, NEW c \in Co,
           ApiYields(c) \/ Captures(c) \/ ThreadYields(c)
    PROVE  Settled'
<1>1. Typed /\ Expecting /\ Waiting
  BY DEF IInv, Settled
<1>2. Calls(c)
  BY DEF ApiYields, Captures, ThreadYields
<1>3. /\ cur_co_ctx = c /\ c \notin propagate_error /\ at[c] = "lua" /\ Alive(c)
      /\ c \notin pending /\ c \notin subreqs /\ c \notin Range(posted_threads)
      /\ \A t \in waited_by_parent : parent_co_ctx[t] # c
  BY <1>2, CallerFree
<1>4. /\ cur_co_ctx' = NoCo
      /\ UNCHANGED <<co_status, parent_co_ctx, co_ref, propagate_error, waited_by_parent,
                     zombie_child_threads>>
  BY DEF ApiYields, Captures, ThreadYields, flags
<1>5. \A d : Alive(d)' = Alive(d)
  BY <1>4 DEF Alive
<1>6. PICK place \in {"api", "subreq", "yield"} : at' = [at EXCEPT ![c] = place]
  BY DEF ApiYields, Captures, ThreadYields
<1>7. Placed' /\ Anchored' /\ Resuming' /\ Living'
  BY <1>3, <1>4, <1>6, Stops
<1>8. \A d \in Co : at'[d] = IF d = c THEN place ELSE at[d]
  BY <1>1, <1>6, PlacesChange
<1>9. Waiting'
  <2>1. \A p \in Co : Alive(p)' /\ at'[p] = "wait" <=> Alive(p) /\ at[p] = "wait"
    BY <1>3, <1>5, <1>8
  <2>. QED
    BY <1>1, <1>4, <1>5, <2>1, WaitingKept
<1>10. CASE ApiYields(c)
  <2>1. /\ pending' = pending \cup {c} /\ at' = [at EXCEPT ![c] = "api"]
        /\ UNCHANGED <<subreqs, posted_threads>>
    BY <1>10 DEF ApiYields, request
  <2>2. \A d \in Co : at'[d] = IF d = c THEN "api" ELSE at[d]
    BY <1>1, <2>1, PlacesChange
  <2>3. Expecting'
    BY <1>1, <1>3, <1>5, <2>1, <2>2 DEF Expecting
  <2>. QED
    BY <1>7, <1>9, <2>3 DEF Settled
<1>11. CASE Captures(c)
  <2>1. /\ subreqs' = subreqs \cup {c} /\ at' = [at EXCEPT ![c] = "subreq"]
        /\ UNCHANGED <<pending, posted_threads>>
    BY <1>11 DEF Captures
  <2>2. \A d \in Co : at'[d] = IF d = c THEN "subreq" ELSE at[d]
    BY <1>1, <2>1, PlacesChange
  <2>3. Expecting'
    BY <1>1, <1>3, <1>5, <2>1, <2>2 DEF Expecting
  <2>. QED
    BY <1>7, <1>9, <2>3 DEF Settled
<1>12. CASE ThreadYields(c)
  <2>1. /\ posted_threads' = Append(posted_threads, c) /\ at' = [at EXCEPT ![c] = "yield"]
        /\ UNCHANGED <<pending, subreqs>>
    BY <1>12 DEF ThreadYields, request
  <2>2. \A d \in Co : at'[d] = IF d = c THEN "yield" ELSE at[d]
    BY <1>1, <2>1, PlacesChange
  <2>3. IsInjective(posted_threads') /\ Range(posted_threads') = Range(posted_threads) \cup {c}
    <3>1. posted_threads \in Seq(Begun) /\ c \in Begun /\ IsInjective(posted_threads)
      BY <1>1, <1>2, CallerBegun DEF Typed, Expecting, IInv
    <3>. QED
      BY <1>3, <2>1, <3>1, QueueJoined
  <2>4. Expecting'
    BY <1>1, <1>3, <1>5, <2>1, <2>2, <2>3 DEF Expecting
  <2>. QED
    BY <1>7, <1>9, <2>4 DEF Settled
<1>. QED
  BY <1>10, <1>11, <1>12

LEMMA ResumingSteps ==
    ASSUME IInv, Settled, NEW c \in Co, EventFires(c) \/ SubrequestsDone(c)
    PROVE  Settled'
<1>1. Typed /\ Expecting
  BY DEF IInv, Settled
<1>2. /\ cur_co_ctx = NoCo /\ cur_co_ctx' = c /\ at' = [at EXCEPT ![c] = "lua"]
      /\ UNCHANGED <<co_status, parent_co_ctx, co_ref, propagate_error, waited_by_parent,
                     zombie_child_threads, posted_threads>>
  BY DEF EventFires, SubrequestsDone, flags
<1>3. Alive(c) /\ at[c] \in {"api", "subreq"}
  BY <1>1 DEF EventFires, SubrequestsDone, Expecting
<1>4. Placed' /\ Anchored' /\ Waiting' /\ Resuming' /\ Living'
  BY <1>2, <1>3, GoesOn
<1>5. \A d \in Co : at'[d] = IF d = c THEN "lua" ELSE at[d]
  BY <1>1, <1>2, PlacesChange
<1>6. \A d : Alive(d)' = Alive(d)
  BY <1>2 DEF Alive
<1>7. CASE EventFires(c)
  <2>1. pending' = pending \ {c} /\ c \in pending /\ subreqs' = subreqs
    BY <1>7 DEF EventFires, request
  <2>2. Expecting'
    BY <1>1, <1>2, <1>5, <1>6, <2>1 DEF Expecting
  <2>. QED
    BY <1>4, <2>2 DEF Settled
<1>8. CASE SubrequestsDone(c)
  <2>1. subreqs' = subreqs \ {c} /\ c \in subreqs /\ pending' = pending
    BY <1>8 DEF SubrequestsDone
  <2>2. Expecting'
    BY <1>1, <1>2, <1>5, <1>6, <2>1 DEF Expecting
  <2>. QED
    BY <1>4, <2>2 DEF Settled
<1>. QED
  BY <1>7, <1>8

\* Of those in the queue the living are where they wait for their turn.
LEMMA PostedFacts ==
    ASSUME IInv, Settled, posted_threads # <<>>, cur_co_ctx = NoCo,
           NEW c, c = Head(posted_threads)
    PROVE  /\ c \in Co /\ (Alive(c) <=> co_status[c] = "running")
           /\ Alive(c) => at[c] \in {"spawn", "yield"}
           /\ IsInjective(Tail(posted_threads))
           /\ Range(Tail(posted_threads)) = Range(posted_threads) \ {c}
<1>1. Typed /\ Expecting /\ Placed
  BY DEF IInv, Settled
<1>2. posted_threads \in Seq(Begun) /\ IsInjective(posted_threads)
  BY <1>1 DEF Typed, Expecting
<1>3. /\ c \in Range(posted_threads) /\ IsInjective(Tail(posted_threads))
      /\ Range(Tail(posted_threads)) = Range(posted_threads) \ {c}
  BY <1>2, QueueServed
<1>4. c \in Co /\ c # NoCo
  <2>1. c \in Begun
    BY <1>2, HeadTailProperties
  <2>. QED
    BY <2>1, Kinds DEF Begun
<1>5. Alive(c) => at[c] \in {"spawn", "yield"}
  BY <1>1, <1>3, <1>4 DEF Expecting
<1>6. Alive(c) <=> co_status[c] = "running"
  BY <1>1, <1>4, <1>5 DEF Placed, Alive, Typed, Statuses
<1>. QED
  BY <1>3, <1>4, <1>5, <1>6

LEMMA RunPostedSettled == ASSUME IInv, Settled, RunPosted PROVE Settled'
<1>1. Typed /\ Expecting
  BY DEF IInv, Settled
<1>2. PICK c : c = Head(posted_threads)
  OBVIOUS
<1>3. /\ cur_co_ctx = NoCo /\ posted_threads # <<>> /\ posted_threads' = Tail(posted_threads)
      /\ IF co_status[c] = "running"
         THEN cur_co_ctx' = c /\ at' = [at EXCEPT ![c] = "lua"]
         ELSE UNCHANGED <<cur_co_ctx, at>>
      /\ UNCHANGED <<co_status, parent_co_ctx, co_ref, propagate_error, waited_by_parent,
                     zombie_child_threads, pending, subreqs>>
  BY <1>2 DEF RunPosted, MayRunPosted, flags, request
<1>4. /\ c \in Co /\ (Alive(c) <=> co_status[c] = "running")
      /\ Alive(c) => at[c] \in {"spawn", "yield"}
      /\ IsInjective(posted_threads') /\ Range(posted_threads') = Range(posted_threads) \ {c}
  BY <1>2, <1>3, PostedFacts
<1>5. \A d : Alive(d)' = Alive(d)
  BY <1>3 DEF Alive
<1>6. CASE Alive(c)
  <2>1. cur_co_ctx' = c /\ at' = [at EXCEPT ![c] = "lua"]
    BY <1>3, <1>4, <1>6
  <2>2. Placed' /\ Anchored' /\ Waiting' /\ Resuming' /\ Living'
    BY <1>3, <1>4, <1>6, <2>1, GoesOn
  <2>3. \A d \in Co : at'[d] = IF d = c THEN "lua" ELSE at[d]
    BY <1>1, <1>4, <2>1, PlacesChange
  <2>4. Expecting'
    BY <1>1, <1>3, <1>4, <1>5, <1>6, <2>3 DEF Expecting
  <2>. QED
    BY <2>2, <2>4 DEF Settled
<1>7. CASE ~Alive(c)
  <2>1. UNCHANGED <<cur_co_ctx, at>>
    BY <1>3, <1>4, <1>7
  <2>2. Placed' /\ Anchored' /\ Waiting' /\ Resuming' /\ Living'
    BY <1>3, <2>1, SamePositions DEF positions, flags
  <2>3. Expecting'
    BY <1>1, <1>3, <1>4, <1>5, <1>7, <2>1 DEF Expecting
  <2>. QED
    BY <2>2, <2>3 DEF Settled
<1>. QED
  BY <1>6, <1>7

\* The argument of wait, when there is one.
LEMMA OneArgument ==
    ASSUME OneAtATime, NEW args \in Args
    PROVE  /\ args[1] \in Threads /\ DOMAIN args = {1} /\ Len(args) = 1
           /\ 1..Len(args) = {1}
<1>1. MaxArgs = 1
  BY DEF OneAtATime
<1>2. PICK n \in 1..1 : args \in [1..n -> Threads]
  BY <1>1 DEF Args
<1>3. n = 1 /\ args \in [1..1 -> Threads] /\ 1..1 = {1}
  BY <1>2
<1>. QED
  BY <1>3

LEMMA WaitYieldsSettled ==
    ASSUME IInv, Settled, OneAtATime, NEW c \in Co, NEW args \in Args, WaitYields(c, args)
    PROVE  Settled'
<1>1. Typed /\ Anchored /\ Expecting /\ Waiting
  BY DEF IInv, Settled
<1>2. PICK t : t = args[1]
  OBVIOUS
<1>3. /\ t \in Threads /\ DOMAIN args = {1} /\ Len(args) = 1 /\ 1..Len(args) = {1}
  BY <1>2, OneArgument
<1>4. /\ Calls(c) /\ t \in Children(c) /\ Returns(args) = {}
      /\ waited_by_parent' = waited_by_parent \cup StillAlive(args, Len(args))
      /\ at' = [at EXCEPT ![c] = "wait"]
      /\ cur_co_ctx' = NoCo
      /\ UNCHANGED <<co_status, parent_co_ctx, co_ref, propagate_error,
                     zombie_child_threads, pending, posted_threads, subreqs>>
  BY <1>2, <1>3 DEF WaitYields, request
<1>5. /\ cur_co_ctx = c /\ c \notin propagate_error /\ at[c] = "lua" /\ Alive(c)
      /\ c \notin pending /\ c \notin subreqs /\ c \notin Range(posted_threads)
      /\ \A u \in waited_by_parent : parent_co_ctx[u] # c
  BY <1>4, CallerFree
<1>6. parent_co_ctx[t] = c /\ co_status[t] # "suspended"
  BY <1>4 DEF Children
<1>7. Alive(t)
  <2>1. co_status[t] # "zombie" /\ co_status[t] # "dead"
    <3>1. 1 \in DOMAIN args /\ 1 \notin Returns(args)
      BY <1>3, <1>4
    <3>. QED
      BY <1>2, <1>3, <3>1 DEF Returns
  <2>2. co_status[t] # "none"
    BY <1>1, <1>3, <1>6, Kinds DEF Anchored
  <2>. QED
    BY <2>1, <2>2 DEF Alive
<1>8. waited_by_parent' = waited_by_parent \cup {t}
  BY <1>2, <1>3, <1>4, <1>7 DEF StillAlive
<1>9. \A d \in Co : at'[d] = IF d = c THEN "wait" ELSE at[d]
  BY <1>1, <1>4, PlacesChange
<1>10. \A d : Alive(d)' = Alive(d)
  BY <1>4 DEF Alive
<1>11. Placed' /\ Anchored' /\ Resuming' /\ Living'
  BY <1>4, <1>5, Stops
<1>12. Expecting'
  BY <1>1, <1>4, <1>5, <1>9, <1>10 DEF Expecting
<1>13. Waiting'
  <2>1. ASSUME NEW u \in waited_by_parent'
        PROVE  /\ parent_co_ctx[u] \in Co
               /\ Alive(parent_co_ctx[u]) => /\ at'[parent_co_ctx[u]] = "wait" /\ Alive(u)
                                             /\ co_status[u] # "suspended"
    <3>1. CASE u = t
      BY <1>5, <1>6, <1>7, <1>9, <3>1
    <3>2. CASE u \in waited_by_parent
      BY <1>1, <1>5, <1>9, <3>2 DEF Waiting
    <3>. QED
      BY <1>8, <3>1, <3>2
  <2>2. ASSUME NEW p \in Co, Alive(p), at'[p] = "wait"
        PROVE  \E u \in waited_by_parent' : parent_co_ctx[u] = p
    <3>1. CASE p = c
      BY <1>6, <1>8, <3>1
    <3>2. CASE p # c
      BY <1>1, <1>8, <1>9, <2>2, <3>2 DEF Waiting
    <3>. QED
      BY <3>1, <3>2
  <2>3. ASSUME NEW u \in waited_by_parent', NEW v \in waited_by_parent',
               Alive(parent_co_ctx[u]), parent_co_ctx[u] = parent_co_ctx[v]
        PROVE  u = v
    <3>1. (u \in waited_by_parent /\ v \in waited_by_parent) \/ u = v
      BY <1>5, <1>6, <1>8, <2>3
    <3>. QED
      BY <1>1, <2>3, <3>1 DEF Waiting
  <2>4. parent_co_ctx' = parent_co_ctx /\ co_status' = co_status
    BY <1>4
  <2>. QED
    BY <2>1, <2>2, <2>3, <2>4 DEF Waiting, Alive
<1>. QED
  BY <1>11, <1>12, <1>13 DEF Settled

----------------------------------------------------------------------------
(* Coroutines.                                                             *)

\* Nobody knows of a co_ctx whose code has not begun.
LEMMA Fresh ==
    ASSUME IInv, Settled, NEW k \in Co, co_status[k] \in Unbegun, at[k] = "fresh"
    PROVE  /\ k # cur_co_ctx /\ k # Entry /\ k \notin Begun
           /\ \A d \in Co : parent_co_ctx[d] # k
           /\ k \notin pending /\ k \notin subreqs /\ k \notin Range(posted_threads)
           /\ co_status[k] = "none" => k \notin waited_by_parent
<1>1. Typed /\ Registered /\ Placed /\ Anchored /\ Waiting /\ Living
  BY DEF IInv, Settled
<1>2. k # cur_co_ctx /\ k # Entry
  BY <1>1 DEF Placed, Anchored, Unbegun
<1>3. k \notin Begun
  <2>1. CASE k \in Threads
    BY <1>1, <2>1, Begins
  <2>2. CASE k \in Coros
    BY <1>1, <2>2, Begins DEF Living
  <2>. QED
    BY <1>2, <2>1, <2>2 DEF Co, Light
<1>4. \A d \in Co : parent_co_ctx[d] # k
  BY <1>1, <1>3, Kinds DEF Typed
<1>5. k \notin pending /\ k \notin subreqs
  BY <1>1, <1>3 DEF Typed
<1>6. k \notin Range(posted_threads)
  <2>1. posted_threads \in Seq(Begun)
    BY <1>1 DEF Typed
  <2>2. \A i \in DOMAIN posted_threads : posted_threads[i] \in Begun
    BY <2>1, ElementOfSeq, LenProperties
  <2>. QED
    BY <1>3, <2>2 DEF Range
<1>7. ASSUME co_status[k] = "none", k \in waited_by_parent PROVE FALSE
  <2>1. k \in Threads
    BY <1>1, <1>7 DEF Typed
  <2>2. parent_co_ctx[k] = NoCo
    BY <1>1, <1>7, <2>1 DEF Anchored
  <2>3. parent_co_ctx[k] \in Co
    BY <1>1, <1>7 DEF Waiting
  <2>. QED
    BY <2>2, <2>3, Kinds
<1>. QED
  BY <1>2, <1>3, <1>4, <1>5, <1>6, <1>7

LEMMA CoCreateSettled ==
    ASSUME IInv, Settled, NEW c \in Co, NEW k \in Coros, CoCreate(c, k)
    PROVE  Settled'
<1>1. Typed /\ Placed /\ Anchored /\ Expecting /\ Waiting /\ Resuming /\ Living
  BY DEF IInv, Settled
<1>2. /\ co_status[k] = "none" /\ co_status' = [co_status EXCEPT ![k] = "suspended"]
      /\ cur_co_ctx = c
      /\ UNCHANGED <<parent_co_ctx, co_ref, waited_by_parent, propagate_error,
                     zombie_child_threads, pending, subreqs, at, posted_threads,
                     cur_co_ctx>>
  BY DEF CoCreate, Calls, flags, request
<1>3. k \in Co /\ k # cur_co_ctx /\ at[k] = "fresh"
  BY <1>1, <1>2, Kinds DEF Placed
<1>4. /\ \A d \in Co : parent_co_ctx[d] # k
      /\ k \notin pending /\ k \notin subreqs /\ k \notin Range(posted_threads)
  BY <1>2, <1>3, Fresh DEF Unbegun
<1>5. /\ \A d \in Co : co_status'[d] = IF d = k THEN "suspended" ELSE co_status[d]
  BY <1>1, <1>2 DEF Typed
<1>6. \A d \in Co : Alive(d)' <=> Alive(d) \/ d = k
  BY <1>2, <1>5 DEF Alive
<1>7. Placed'
  BY <1>1, <1>2, <1>3, <1>5 DEF Placed
<1>8. Anchored'
  <2>1. \A d \in Light : d # k /\ d \in Co
    BY Kinds
  <2>2. \A d \in Co : zombie_child_threads[d] \subseteq Threads
    BY <1>1 DEF Typed
  <2>3. \A d \in Light : co_status'[d] = co_status[d]
    BY <1>5, <2>1
  <2>. QED
    BY <1>1, <1>2, <2>2, <2>3, Kinds DEF Anchored
<1>9. Expecting'
  BY <1>1, <1>2, <1>3, <1>4, <1>6 DEF Expecting
<1>10. Waiting'
  <2>1. waited_by_parent \subseteq Threads /\ \A t \in waited_by_parent : t # k /\ t \in Co
    BY <1>1, Kinds DEF Typed
  <2>2. \A t \in waited_by_parent : parent_co_ctx[t] # k /\ parent_co_ctx[t] \in Co
    BY <1>1, <1>4, <2>1 DEF Waiting
  <2>3. \A p \in Co : Alive(p)' => (at'[p] = "wait" <=> Alive(p) /\ at[p] = "wait")
    BY <1>2, <1>3, <1>6 DEF Alive
  <2>4. \A t \in waited_by_parent : Alive(parent_co_ctx[t])' => Alive(parent_co_ctx[t])
    BY <1>2, <1>5, <2>2 DEF Alive
  <2>5. \A t \in waited_by_parent : co_status'[t] = co_status[t]
    BY <1>5, <2>1
  <2>. QED
    BY <1>1, <1>2, <2>3, <2>4, <2>5, WaitingKept DEF Alive
<1>11. Active' = Active
  BY <1>2 DEF Active
<1>12. Resuming'
  BY <1>1, <1>2, <1>3, <1>6, <1>11 DEF Resuming
<1>13. Living'
  BY <1>1, <1>2, <1>3, <1>11, Kinds DEF Living
<1>. QED
  BY <1>7, <1>8, <1>9, <1>10, <1>12, <1>13 DEF Settled

LEMMA CoResumeSettled ==
    ASSUME IInv, Settled, NEW c \in Co, NEW k \in Coros, CoResume(c, k)
    PROVE  Settled'
<1>1. Typed /\ Placed /\ Anchored /\ Expecting /\ Waiting /\ Resuming /\ Living
  BY DEF IInv, Settled
<1>2. /\ Calls(c) /\ co_status[k] = "suspended"
      /\ cur_co_ctx' = k
      /\ UNCHANGED <<co_ref, waited_by_parent, propagate_error, zombie_child_threads,
                     pending, subreqs, posted_threads>>
  BY DEF CoResume, flags, request
<1>3. /\ cur_co_ctx = c /\ co_status[c] = "running" /\ at[c] = "lua" /\ Alive(c)
      /\ \A l \in Active : parent_co_ctx[l] # c
      /\ propagate_error = {}
  BY <1>2, CallerFree
<1>4. k \in Co /\ k # c /\ at[k] \in {"fresh", "coyield"} /\ k \notin Light
  BY <1>1, <1>2, <1>3, Kinds DEF Placed
<1>5. /\ co_status'[k] = "running" /\ co_status'[c] = "normal"
      /\ parent_co_ctx'[k] = c
      /\ at'[k] = "lua" /\ at'[c] = "resume"
      /\ \A d \in Co \ {c, k} : co_status'[d] = co_status[d] /\ at'[d] = at[d]
      /\ \A d \in Co \ {k} : parent_co_ctx'[d] = parent_co_ctx[d]
  <2>1. /\ co_status' = [co_status EXCEPT ![c] = "normal", ![k] = "running"]
        /\ parent_co_ctx' = [parent_co_ctx EXCEPT ![k] = c]
        /\ at' = [at EXCEPT ![c] = "resume", ![k] = "lua"]
    BY DEF CoResume
  <2>2. /\ co_status \in [Co -> Statuses] /\ at \in [Co -> Places]
        /\ parent_co_ctx \in [Co -> Begun \cup {NoCo}]
    BY <1>1 DEF Typed
  <2>. QED
    BY <1>4, <2>1, <2>2
<1>6. \A d \in Co : Alive(d)' <=> Alive(d)
  BY <1>2, <1>3, <1>5 DEF Alive
<1>7. Placed'
  BY <1>1, <1>2, <1>3, <1>4, <1>5 DEF Placed
<1>8. Anchored'
  <2>1. \A d \in Co : zombie_child_threads[d] \subseteq Threads
    BY <1>1 DEF Typed
  <2>2. \A d \in Light : /\ co_status'[d] = IF d = c THEN "normal" ELSE co_status[d]
                         /\ parent_co_ctx'[d] = parent_co_ctx[d]
                         /\ d # c => at'[d] = at[d]
    BY <1>4, <1>5, Kinds
  <2>3. \A d \in Light : d \in co_ref' <=> co_status'[d] \notin {"none", "dead"}
    BY <1>1, <1>2, <1>3, <2>2 DEF Anchored
  <2>4. \A d \in Co : \A t \in zombie_child_threads'[d] : co_status'[t] \in {"zombie", "dead"}
    BY <1>1, <1>2, <1>3, <2>1, <2>2, Kinds DEF Anchored
  <2>5. co_status'[Entry] \notin Unbegun
    BY <1>1, <2>2, Kinds DEF Anchored, Unbegun
  <2>6. \A t \in Threads : /\ co_status'[t] = "suspended" => at'[t] = "fresh"
                           /\ co_status'[t] = "none" => parent_co_ctx'[t] = NoCo
    BY <1>1, <2>2, Kinds DEF Anchored
  <2>. QED
    BY <1>2, <1>3, <2>3, <2>4, <2>5, <2>6 DEF Anchored
<1>9. Expecting'
  BY <1>1, <1>2, <1>3, <1>4, <1>5, <1>6 DEF Expecting
<1>10. Waiting'
  <2>1. \A t \in waited_by_parent : t # k /\ t \in Co /\ parent_co_ctx[t] \in Co
    BY <1>1, Kinds DEF Typed, Waiting
  <2>2. \A p \in Co : Alive(p)' => (at'[p] = "wait" <=> Alive(p) /\ at[p] = "wait")
    BY <1>3, <1>4, <1>5, <1>6 DEF Alive
  <2>3. \A t \in waited_by_parent : /\ parent_co_ctx'[t] = parent_co_ctx[t]
                                    /\ co_status'[t] \in {"normal", co_status[t]}
    BY <1>5, <2>1
  <2>4. \A t \in waited_by_parent : Alive(parent_co_ctx[t])' => Alive(parent_co_ctx[t])
    BY <1>6, <2>1, <2>3 DEF Alive
  <2>. QED
    BY <1>1, <1>2, <2>2, <2>3, <2>4, WaitingKept DEF Alive
<1>11. Active' = Active \cup {k} /\ k \notin Active
  BY <1>3, <1>4, <1>5, Kinds DEF Active
<1>12. \A l \in Active : /\ l \in Co /\ l # k /\ parent_co_ctx'[l] = parent_co_ctx[l]
                         /\ parent_co_ctx[l] \notin {c, k} /\ parent_co_ctx[l] \in Co
  BY <1>1, <1>3, <1>4, <1>5, <1>11, Kinds DEF Active, Resuming
<1>13. Resuming'
  <2>1. ASSUME NEW l \in Active', NEW p, p = parent_co_ctx'[l]
        PROVE  p \in Co /\ Alive(p)' /\ at'[p] = "resume" /\ p # cur_co_ctx'
    <3>1. CASE l = k
      BY <1>2, <1>3, <1>4, <1>5, <1>6, <2>1, <3>1
    <3>2. CASE l \in Active
      <4>1. p = parent_co_ctx[l] /\ p \in Co /\ p # c /\ p # k
        BY <1>12, <2>1, <3>2
      <4>2. Alive(p) /\ at[p] = "resume"
        BY <1>1, <3>2, <4>1 DEF Resuming
      <4>. QED
        BY <1>2, <1>5, <1>6, <4>1, <4>2
    <3>. QED
      BY <1>11, <3>1, <3>2
  <2>2. ASSUME NEW p \in Co, Alive(p)', at'[p] = "resume", p # cur_co_ctx'
        PROVE  \E l \in Active' : parent_co_ctx'[l] = p
    <3>1. CASE p = c
      BY <1>4, <1>5, <1>11, <3>1
    <3>2. CASE p # c
      <4>1. at[p] = "resume" /\ Alive(p) /\ p # cur_co_ctx
        BY <1>2, <1>3, <1>5, <1>6, <2>2, <3>2
      <4>2. PICK l \in Active : parent_co_ctx[l] = p
        BY <1>1, <4>1 DEF Resuming
      <4>. QED
        BY <1>11, <1>12, <4>2
    <3>. QED
      BY <3>1, <3>2
  <2>3. \A l, m \in Active' : parent_co_ctx'[l] = parent_co_ctx'[m] => l = m
    BY <1>1, <1>4, <1>5, <1>11, <1>12 DEF Resuming
  <2>. QED
    BY <2>1, <2>2, <2>3 DEF Resuming, Alive
<1>14. Living'
  <2>1. Grounded(Active', parent_co_ctx')
    <3>1. Grounded(Active, parent_co_ctx)
      BY <1>1 DEF Living
    <3>. QED
      BY <1>4, <1>5, <1>11, <1>12, <3>1, GroundedMore
  <2>2. Grounded(Threads, parent_co_ctx')
    <3>1. Grounded(Threads, parent_co_ctx) /\ \A t \in Threads : parent_co_ctx'[t] = parent_co_ctx[t]
      BY <1>1, <1>4, <1>5, Kinds DEF Living
    <3>. QED
      BY <3>1, GroundedLess
  <2>3. \A l \in Coros : at'[l] = "fresh" => parent_co_ctx'[l] = NoCo
    BY <1>1, <1>4, <1>5, Kinds DEF Living
  <2>. QED
    BY <1>2, <1>4, <2>1, <2>2, <2>3, Kinds DEF Living
<1>. QED
  BY <1>7, <1>8, <1>9, <1>10, <1>13, <1>14 DEF Settled

\* Whoever is in resume without the CPU is normal.
LEMMA InResume ==
    ASSUME IInv, Settled, NEW p \in Co, p # cur_co_ctx, Alive(p), at[p] = "resume"
    PROVE  co_status[p] = "normal"
BY DEF IInv, Settled, Typed, Statuses, Placed, Blocked, Alive

LEMMA CoYieldSettled ==
    ASSUME IInv, Settled, NEW k \in Co, CoYield(k) PROVE Settled'
<1>1. Typed /\ Placed /\ Anchored /\ Expecting /\ Waiting /\ Resuming /\ Living
  BY DEF IInv, Settled
<1>2. PICK p : p = parent_co_ctx[k]
  OBVIOUS
<1>3. /\ Calls(k) /\ k \in Coros /\ cur_co_ctx' = p
      /\ UNCHANGED <<parent_co_ctx, co_ref, waited_by_parent, propagate_error,
                     zombie_child_threads, pending, subreqs, posted_threads>>
  BY <1>2 DEF CoYield, flags, request
<1>4. /\ cur_co_ctx = k /\ co_status[k] = "running" /\ at[k] = "lua" /\ Alive(k)
      /\ \A l \in Active : parent_co_ctx[l] # k
      /\ propagate_error = {}
  BY <1>3, CallerFree
<1>5. k \in Active /\ p \in Co /\ Alive(p) /\ at[p] = "resume" /\ p # k
  BY <1>1, <1>2, <1>3, <1>4 DEF Active, Resuming
<1>6. co_status[p] = "normal"
  BY <1>4, <1>5, InResume
<1>7. /\ co_status'[k] = "suspended" /\ co_status'[p] = "running"
      /\ at'[k] = "coyield" /\ at'[p] = "lua"
      /\ \A d \in Co \ {k, p} : co_status'[d] = co_status[d] /\ at'[d] = at[d]
  <2>1. /\ co_status' = [co_status EXCEPT ![k] = "suspended", ![p] = "running"]
        /\ at' = [at EXCEPT ![k] = "coyield", ![p] = "lua"]
    BY <1>2 DEF CoYield
  <2>2. co_status \in [Co -> Statuses] /\ at \in [Co -> Places]
    BY <1>1 DEF Typed
  <2>. QED
    BY <1>5, <2>1, <2>2
<1>8. \A d \in Co : Alive(d)' <=> Alive(d)
  BY <1>4, <1>5, <1>7 DEF Alive
<1>9. Placed'
  BY <1>1, <1>3, <1>4, <1>5, <1>7 DEF Placed
<1>10. Anchored'
  <2>1. \A d \in Co : zombie_child_threads[d] \subseteq Threads
    BY <1>1 DEF Typed
  <2>2. \A d \in Light : /\ co_status'[d] = IF d = p THEN "running" ELSE co_status[d]
                         /\ d # p => at'[d] = at[d]
    BY <1>3, <1>7, Kinds
  <2>3. \A d \in Light : d \in co_ref' <=> co_status'[d] \notin {"none", "dead"}
    BY <1>1, <1>3, <1>6, <2>2 DEF Anchored
  <2>4. \A d \in Co : \A t \in zombie_child_threads'[d] : co_status'[t] \in {"zombie", "dead"}
    BY <1>1, <1>3, <1>6, <2>1, <2>2, Kinds DEF Anchored
  <2>5. co_status'[Entry] \notin Unbegun
    BY <1>1, <2>2, Kinds DEF Anchored, Unbegun
  <2>6. \A t \in Threads : /\ co_status'[t] = "suspended" => at'[t] = "fresh"
                           /\ co_status'[t] = "none" => parent_co_ctx'[t] = NoCo
    BY <1>1, <1>3, <2>2, Kinds DEF Anchored
  <2>. QED
    BY <1>3, <1>4, <2>3, <2>4, <2>5, <2>6 DEF Anchored
<1>11. Expecting'
  BY <1>1, <1>3, <1>4, <1>5, <1>7, <1>8 DEF Expecting
<1>12. Waiting'
  <2>1. \A t \in waited_by_parent : t # k /\ t \in Co /\ parent_co_ctx[t] \in Co
    BY <1>1, <1>3, Kinds DEF Typed, Waiting
  <2>2. \A q \in Co : Alive(q)' => (at'[q] = "wait" <=> Alive(q) /\ at[q] = "wait")
    BY <1>4, <1>5, <1>7, <1>8 DEF Alive
  <2>3. \A t \in waited_by_parent : co_status'[t] \in {"running", co_status[t]}
    BY <1>7, <2>1
  <2>4. \A t \in waited_by_parent : Alive(parent_co_ctx[t])' => Alive(parent_co_ctx[t])
    BY <1>3, <1>8, <2>1 DEF Alive
  <2>. QED
    BY <1>1, <1>3, <2>2, <2>3, <2>4, WaitingKept DEF Alive
<1>13. Active' = Active \ {k}
  BY <1>4, <1>5, <1>7, Kinds DEF Active
<1>14. \A l \in Active' : parent_co_ctx[l] \notin {k, p} /\ parent_co_ctx[l] \in Co
  BY <1>1, <1>2, <1>4, <1>5, <1>13 DEF Resuming
<1>15. Resuming'
  <2>1. ASSUME NEW l \in Active', NEW q, q = parent_co_ctx'[l]
        PROVE  q \in Co /\ Alive(q)' /\ at'[q] = "resume" /\ q # cur_co_ctx'
    <3>1. q = parent_co_ctx[l] /\ q \in Co \ {k, p} /\ l \in Active
      BY <1>3, <1>13, <1>14, <2>1
    <3>2. Alive(q) /\ at[q] = "resume"
      BY <1>1, <3>1 DEF Resuming
    <3>. QED
      BY <1>3, <1>7, <1>8, <3>1, <3>2
  <2>2. ASSUME NEW q \in Co, Alive(q)', at'[q] = "resume", q # cur_co_ctx'
        PROVE  \E l \in Active' : parent_co_ctx'[l] = q
    <3>1. at[q] = "resume" /\ Alive(q) /\ q # cur_co_ctx /\ q # p
      BY <1>3, <1>4, <1>7, <1>8, <2>2
    <3>2. PICK l \in Active : parent_co_ctx[l] = q
      BY <1>1, <3>1 DEF Resuming
    <3>. QED
      BY <1>2, <1>3, <1>13, <3>1, <3>2
  <2>3. \A l, m \in Active' : parent_co_ctx'[l] = parent_co_ctx'[m] => l = m
    BY <1>1, <1>3, <1>13 DEF Resuming
  <2>. QED
    BY <2>1, <2>2, <2>3 DEF Resuming, Alive
<1>16. Living'
  <2>1. Grounded(Active', parent_co_ctx') /\ Grounded(Threads, parent_co_ctx')
    BY <1>1, <1>3, <1>13, GroundedLess DEF Living
  <2>2. \A l \in Coros : at'[l] = "fresh" => parent_co_ctx'[l] = NoCo
    BY <1>1, <1>3, <1>7, Kinds DEF Living
  <2>. QED
    BY <1>3, <1>5, <2>1, <2>2, Kinds DEF Living
<1>. QED
  BY <1>9, <1>10, <1>11, <1>12, <1>15, <1>16 DEF Settled

----------------------------------------------------------------------------
(* A thread is made, or begins.                                            *)

LEMMA SpawnSettled ==
    ASSUME IInv, Settled, NEW c \in Co, NEW t \in Threads, Spawn(c, t)
    PROVE  Settled'
<1>1. Typed /\ Placed /\ Anchored /\ Expecting /\ Waiting /\ Resuming /\ Living
  BY DEF IInv, Settled
<1>2. /\ Calls(c) /\ co_status[t] = "none" /\ cur_co_ctx' = t
      /\ co_ref' = co_ref \cup {t}
      /\ posted_threads' = Append(posted_threads, c)
      /\ UNCHANGED <<waited_by_parent, propagate_error, zombie_child_threads,
                     pending, subreqs>>
  BY DEF Spawn, flags, request
<1>3. /\ cur_co_ctx = c /\ co_status[c] = "running" /\ at[c] = "lua" /\ Alive(c)
      /\ c \notin pending /\ c \notin subreqs /\ c \notin Range(posted_threads)
      /\ \A u \in waited_by_parent : parent_co_ctx[u] # c
      /\ \A l \in Active : parent_co_ctx[l] # c
      /\ propagate_error = {}
  BY <1>2, CallerFree
<1>4. t \in Co /\ t # c /\ at[t] = "fresh" /\ t \notin Coros /\ t \in Light
  BY <1>1, <1>2, <1>3, Kinds DEF Placed
<1>5. /\ \A d \in Co : parent_co_ctx[d] # t
      /\ t \notin pending /\ t \notin subreqs /\ t \notin Range(posted_threads)
      /\ t \notin waited_by_parent /\ t # Entry
  BY <1>2, <1>4, Fresh DEF Unbegun
<1>6. /\ co_status'[t] = "running" /\ parent_co_ctx'[t] = c
      /\ at'[t] = "lua" /\ at'[c] = "spawn"
      /\ \A d \in Co \ {t} : co_status'[d] = co_status[d] /\ parent_co_ctx'[d] = parent_co_ctx[d]
      /\ \A d \in Co \ {c, t} : at'[d] = at[d]
  <2>1. /\ co_status' = [co_status EXCEPT ![t] = "running"]
        /\ parent_co_ctx' = [parent_co_ctx EXCEPT ![t] = c]
        /\ at' = [at EXCEPT ![c] = "spawn", ![t] = "lua"]
    BY DEF Spawn
  <2>2. /\ co_status \in [Co -> Statuses] /\ at \in [Co -> Places]
        /\ parent_co_ctx \in [Co -> Begun \cup {NoCo}]
    BY <1>1 DEF Typed
  <2>. QED
    BY <1>4, <2>1, <2>2
<1>7. \A d \in Co : Alive(d)' <=> Alive(d) \/ d = t
  BY <1>6 DEF Alive
<1>8. Placed'
  BY <1>1, <1>2, <1>3, <1>4, <1>6 DEF Placed, Blocked
<1>9. Anchored'
  <2>1. \A d \in Co : zombie_child_threads[d] \subseteq Threads
    BY <1>1 DEF Typed
  <2>2. \A d \in Light \ {t} : /\ co_status'[d] = co_status[d]
                               /\ d # c => at'[d] = at[d]
                               /\ parent_co_ctx'[d] = parent_co_ctx[d]
    BY <1>6, Kinds
  <2>3. \A d \in Light : d \in co_ref' <=> co_status'[d] \notin {"none", "dead"}
    BY <1>1, <1>2, <1>6, <2>2 DEF Anchored
  <2>4. \A d \in Co : \A u \in zombie_child_threads'[d] : co_status'[u] \in {"zombie", "dead"}
    BY <1>1, <1>2, <2>1, <2>2, Kinds DEF Anchored
  <2>5. co_status'[Entry] \notin Unbegun
    BY <1>1, <1>5, <2>2, Kinds DEF Anchored, Unbegun
  <2>6. \A u \in Threads : /\ co_status'[u] = "suspended" => at'[u] = "fresh"
                           /\ co_status'[u] = "none" => parent_co_ctx'[u] = NoCo
    BY <1>1, <1>3, <1>6, <2>2, Kinds DEF Anchored
  <2>. QED
    BY <1>2, <1>3, <2>3, <2>4, <2>5, <2>6 DEF Anchored
<1>10. Expecting'
  <2>1. IsInjective(posted_threads') /\ Range(posted_threads') = Range(posted_threads) \cup {c}
    <3>1. posted_threads \in Seq(Begun) /\ c \in Begun /\ IsInjective(posted_threads)
      BY <1>1, <1>2, CallerBegun DEF Typed, Expecting, IInv
    <3>. QED
      BY <1>2, <1>3, <3>1, QueueJoined
  <2>. QED
    BY <1>1, <1>2, <1>3, <1>4, <1>5, <1>6, <1>7, <2>1 DEF Expecting
<1>11. Waiting'
  <2>1. \A u \in waited_by_parent : /\ u # t /\ u \in Co
                                    /\ parent_co_ctx[u] \in Co /\ parent_co_ctx[u] # t
    BY <1>1, <1>5, Kinds DEF Typed, Waiting
  <2>2. \A p \in Co : Alive(p)' => (at'[p] = "wait" <=> Alive(p) /\ at[p] = "wait")
    BY <1>3, <1>4, <1>6, <1>7 DEF Alive
  <2>3. \A u \in waited_by_parent : /\ parent_co_ctx'[u] = parent_co_ctx[u]
                                    /\ co_status'[u] = co_status[u]
    BY <1>6, <2>1
  <2>4. \A u \in waited_by_parent : Alive(parent_co_ctx[u])' => Alive(parent_co_ctx[u])
    BY <1>7, <2>1, <2>3 DEF Alive
  <2>. QED
    BY <1>1, <1>2, <2>2, <2>3, <2>4, WaitingKept DEF Alive
<1>12. Active' = Active /\ \A l \in Active : parent_co_ctx'[l] = parent_co_ctx[l]
  BY <1>3, <1>4, <1>6, Kinds DEF Active
<1>13. Resuming'
  <2>1. ASSUME NEW l \in Active, NEW p, p = parent_co_ctx[l]
        PROVE  p \in Co /\ Alive(p)' /\ at'[p] = "resume" /\ p # cur_co_ctx'
    BY <1>1, <1>2, <1>3, <1>4, <1>6, <1>7, <2>1 DEF Resuming
  <2>2. ASSUME NEW p \in Co, Alive(p)', at'[p] = "resume", p # cur_co_ctx'
        PROVE  \E l \in Active : parent_co_ctx[l] = p
    BY <1>1, <1>2, <1>3, <1>6, <1>7, <2>2 DEF Resuming
  <2>3. \A l, m \in Active : parent_co_ctx[l] = parent_co_ctx[m] => l = m
    BY <1>1 DEF Resuming
  <2>. QED
    BY <1>12, <2>1, <2>2, <2>3 DEF Resuming, Alive
<1>14. Living'
  <2>1. Grounded(Active', parent_co_ctx')
    BY <1>1, <1>12, GroundedLess DEF Living
  <2>2. Grounded(Threads, parent_co_ctx')
    <3>1. Grounded(Threads, parent_co_ctx)
      BY <1>1 DEF Living
    <3>. QED
      BY <1>4, <1>5, <1>6, <3>1, Kinds, GroundedMore
  <2>3. \A l \in Coros : at'[l] = "fresh" => parent_co_ctx'[l] = NoCo
    BY <1>1, <1>3, <1>4, <1>6, Kinds DEF Living
  <2>. QED
    BY <1>2, <1>4, <2>1, <2>2, <2>3, Kinds DEF Living
<1>. QED
  BY <1>8, <1>9, <1>10, <1>11, <1>13, <1>14 DEF Settled

LEMMA OnAbortSettled ==
    ASSUME IInv, Settled, NEW c \in Co, NEW t \in Threads, OnAbort(c, t)
    PROVE  Settled'
<1>1. Typed /\ Placed /\ Anchored /\ Expecting /\ Waiting /\ Resuming /\ Living
  BY DEF IInv, Settled
<1>2. /\ cur_co_ctx = c /\ co_status[t] = "none" /\ co_ref' = co_ref \cup {t}
      /\ UNCHANGED <<waited_by_parent, propagate_error, zombie_child_threads,
                     pending, subreqs, at, posted_threads, cur_co_ctx>>
  BY DEF OnAbort, Calls, flags
<1>3. t \in Co /\ t # c /\ at[t] = "fresh" /\ t \notin Coros /\ t \in Light
  BY <1>1, <1>2, Kinds DEF Placed
<1>4. /\ \A d \in Co : parent_co_ctx[d] # t
      /\ t \notin pending /\ t \notin subreqs /\ t \notin Range(posted_threads)
      /\ t \notin waited_by_parent /\ t # Entry
  BY <1>2, <1>3, Fresh DEF Unbegun
<1>5. /\ co_status'[t] = "suspended" /\ parent_co_ctx'[t] = c
      /\ \A d \in Co \ {t} : co_status'[d] = co_status[d] /\ parent_co_ctx'[d] = parent_co_ctx[d]
  <2>1. /\ co_status' = [co_status EXCEPT ![t] = "suspended"]
        /\ parent_co_ctx' = [parent_co_ctx EXCEPT ![t] = c]
    BY DEF OnAbort
  <2>2. co_status \in [Co -> Statuses] /\ parent_co_ctx \in [Co -> Begun \cup {NoCo}]
    BY <1>1 DEF Typed
  <2>. QED
    BY <1>3, <2>1, <2>2
<1>6. \A d \in Co : Alive(d)' <=> Alive(d) \/ d = t
  BY <1>5 DEF Alive
<1>7. Placed'
  BY <1>1, <1>2, <1>3, <1>5 DEF Placed
<1>8. Anchored'
  <2>1. \A d \in Co : zombie_child_threads[d] \subseteq Threads
    BY <1>1 DEF Typed
  <2>2. \A d \in Light \ {t} : /\ co_status'[d] = co_status[d]
                               /\ parent_co_ctx'[d] = parent_co_ctx[d]
    BY <1>5, Kinds
  <2>3. \A d \in Light : d \in co_ref' <=> co_status'[d] \notin {"none", "dead"}
    BY <1>1, <1>2, <1>5, <2>2 DEF Anchored
  <2>4. \A d \in Co : \A u \in zombie_child_threads'[d] : co_status'[u] \in {"zombie", "dead"}
    BY <1>1, <1>2, <2>1, <2>2, Kinds DEF Anchored
  <2>5. co_status'[Entry] \notin Unbegun
    BY <1>1, <1>4, <2>2, Kinds DEF Anchored, Unbegun
  <2>6. \A u \in Threads : /\ co_status'[u] = "suspended" => at'[u] = "fresh"
                           /\ co_status'[u] = "none" => parent_co_ctx'[u] = NoCo
    BY <1>1, <1>2, <1>3, <1>5, <2>2, Kinds DEF Anchored
  <2>. QED
    BY <1>1, <1>2, <2>3, <2>4, <2>5, <2>6 DEF Anchored
<1>9. Expecting'
  BY <1>1, <1>2, <1>3, <1>4, <1>6 DEF Expecting
<1>10. Waiting'
  <2>1. \A u \in waited_by_parent : /\ u # t /\ u \in Co
                                    /\ parent_co_ctx[u] \in Co /\ parent_co_ctx[u] # t
    BY <1>1, <1>4, Kinds DEF Typed, Waiting
  <2>2. \A p \in Co : Alive(p)' => (at'[p] = "wait" <=> Alive(p) /\ at[p] = "wait")
    BY <1>2, <1>3, <1>6 DEF Alive
  <2>3. \A u \in waited_by_parent : /\ parent_co_ctx'[u] = parent_co_ctx[u]
                                    /\ co_status'[u] = co_status[u]
    BY <1>5, <2>1
  <2>4. \A u \in waited_by_parent : Alive(parent_co_ctx[u])' => Alive(parent_co_ctx[u])
    BY <1>6, <2>1, <2>3 DEF Alive
  <2>. QED
    BY <1>1, <1>2, <2>2, <2>3, <2>4, WaitingKept DEF Alive
<1>11. Active' = Active /\ \A l \in Active : parent_co_ctx'[l] = parent_co_ctx[l]
  BY <1>2, <1>3, <1>5, Kinds DEF Active
<1>12. Resuming'
  <2>1. ASSUME NEW l \in Active, NEW p, p = parent_co_ctx[l]
        PROVE  p \in Co /\ Alive(p)' /\ at'[p] = "resume" /\ p # cur_co_ctx'
    BY <1>1, <1>2, <1>6, <2>1 DEF Resuming
  <2>2. ASSUME NEW p \in Co, Alive(p)', at'[p] = "resume", p # cur_co_ctx'
        PROVE  \E l \in Active : parent_co_ctx[l] = p
    BY <1>1, <1>2, <1>3, <1>6, <2>2 DEF Resuming
  <2>3. \A l, m \in Active : parent_co_ctx[l] = parent_co_ctx[m] => l = m
    BY <1>1 DEF Resuming
  <2>. QED
    BY <1>11, <2>1, <2>2, <2>3 DEF Resuming, Alive
<1>13. Living'
  <2>1. Grounded(Active', parent_co_ctx')
    BY <1>1, <1>11, GroundedLess DEF Living
  <2>2. Grounded(Threads, parent_co_ctx')
    <3>1. Grounded(Threads, parent_co_ctx)
      BY <1>1 DEF Living
    <3>. QED
      BY <1>3, <1>4, <1>5, <3>1, Kinds, GroundedMore
  <2>3. \A l \in Coros : at'[l] = "fresh" => parent_co_ctx'[l] = NoCo
    BY <1>1, <1>2, <1>3, <1>5, Kinds DEF Living
  <2>. QED
    BY <1>2, <2>1, <2>2, <2>3, Kinds DEF Living
<1>. QED
  BY <1>7, <1>8, <1>9, <1>10, <1>12, <1>13 DEF Settled

LEMMA ClientGoneSettled == ASSUME IInv, Settled, ClientGone PROVE Settled'
<1>1. Typed /\ Placed /\ Anchored /\ Expecting /\ Waiting /\ Resuming /\ Living
  BY DEF IInv, Settled
<1>2. PICK t : t = on_abort_co_ctx
  OBVIOUS
<1>3. /\ cur_co_ctx = NoCo /\ t # NoCo /\ co_status[t] = "suspended" /\ cur_co_ctx' = t
      /\ UNCHANGED <<parent_co_ctx, co_ref, waited_by_parent, propagate_error,
                     zombie_child_threads, pending, subreqs, posted_threads>>
  BY <1>2 DEF ClientGone, NotStarted, flags, request
<1>4. /\ t \in Threads /\ t \in Co /\ t \notin Coros /\ t \in Light /\ at[t] = "fresh"
      /\ propagate_error = {}
  <2>1. t \in Threads /\ propagate_error \subseteq Begun
    BY <1>1, <1>2, <1>3 DEF Typed
  <2>. QED
    BY <1>1, <1>3, <2>1, Kinds DEF Anchored, Begun
<1>5. /\ \A d \in Co : parent_co_ctx[d] # t
      /\ t \notin pending /\ t \notin subreqs /\ t \notin Range(posted_threads)
  BY <1>3, <1>4, Fresh DEF Unbegun
<1>6. /\ co_status'[t] = "running" /\ at'[t] = "lua"
      /\ \A d \in Co \ {t} : co_status'[d] = co_status[d] /\ at'[d] = at[d]
  <2>1. /\ co_status' = [co_status EXCEPT ![t] = "running"]
        /\ at' = [at EXCEPT ![t] = "lua"]
    BY <1>2 DEF ClientGone
  <2>2. co_status \in [Co -> Statuses] /\ at \in [Co -> Places]
    BY <1>1 DEF Typed
  <2>. QED
    BY <1>4, <2>1, <2>2
<1>7. \A d \in Co : Alive(d)' <=> Alive(d)
  BY <1>3, <1>6 DEF Alive
<1>8. Placed'
  BY <1>1, <1>3, <1>4, <1>6, Kinds DEF Placed
<1>9. Anchored'
  <2>1. \A d \in Co : zombie_child_threads[d] \subseteq Threads
    BY <1>1 DEF Typed
  <2>2. \A d \in Light : /\ co_status'[d] = IF d = t THEN "running" ELSE co_status[d]
                         /\ d # t => at'[d] = at[d]
    BY <1>6, Kinds
  <2>3. \A d \in Light : d \in co_ref' <=> co_status'[d] \notin {"none", "dead"}
    BY <1>1, <1>3, <1>4, <2>2 DEF Anchored
  <2>4. \A d \in Co : \A u \in zombie_child_threads'[d] : co_status'[u] \in {"zombie", "dead"}
    BY <1>1, <1>3, <2>1, <2>2, Kinds DEF Anchored
  <2>5. co_status'[Entry] \notin Unbegun
    BY <1>1, <2>2, Kinds DEF Anchored, Unbegun
  <2>6. \A u \in Threads : /\ co_status'[u] = "suspended" => at'[u] = "fresh"
                           /\ co_status'[u] = "none" => parent_co_ctx'[u] = NoCo
    BY <1>1, <1>3, <2>2, Kinds DEF Anchored
  <2>. QED
    BY <1>3, <1>4, <2>3, <2>4, <2>5, <2>6 DEF Anchored
<1>10. Expecting'
  BY <1>1, <1>3, <1>4, <1>5, <1>6, <1>7 DEF Expecting
<1>11. Waiting'
  <2>1. \A u \in waited_by_parent : u \in Co /\ parent_co_ctx[u] \in Co
    BY <1>1, Kinds DEF Typed, Waiting
  <2>2. \A p \in Co : Alive(p)' => (at'[p] = "wait" <=> Alive(p) /\ at[p] = "wait")
    BY <1>4, <1>6, <1>7 DEF Alive
  <2>3. \A u \in waited_by_parent : co_status'[u] \in {"running", co_status[u]}
    BY <1>6, <2>1
  <2>4. \A u \in waited_by_parent : Alive(parent_co_ctx[u])' => Alive(parent_co_ctx[u])
    BY <1>3, <1>7, <2>1 DEF Alive
  <2>. QED
    BY <1>1, <1>3, <2>2, <2>3, <2>4, WaitingKept DEF Alive
<1>12. Active' = Active
  BY <1>4, <1>6, Kinds DEF Active
<1>13. Resuming'
  <2>1. ASSUME NEW l \in Active, NEW p, p = parent_co_ctx[l]
        PROVE  p \in Co /\ Alive(p)' /\ at'[p] = "resume" /\ p # cur_co_ctx'
    BY <1>1, <1>3, <1>4, <1>6, <1>7, <2>1 DEF Resuming
  <2>2. ASSUME NEW p \in Co, Alive(p)', at'[p] = "resume", p # cur_co_ctx'
        PROVE  \E l \in Active : parent_co_ctx[l] = p
    BY <1>1, <1>3, <1>6, <1>7, <2>2, Kinds DEF Resuming
  <2>3. \A l, m \in Active : parent_co_ctx[l] = parent_co_ctx[m] => l = m
    BY <1>1 DEF Resuming
  <2>. QED
    BY <1>3, <1>12, <2>1, <2>2, <2>3 DEF Resuming, Alive
<1>14. Living'
  <2>1. Grounded(Active', parent_co_ctx') /\ Grounded(Threads, parent_co_ctx')
    BY <1>1, <1>3, <1>12 DEF Living
  <2>2. \A l \in Coros : at'[l] = "fresh" => parent_co_ctx'[l] = NoCo
    BY <1>1, <1>3, <1>4, <1>6, Kinds DEF Living
  <2>. QED
    BY <1>3, <2>1, <2>2 DEF Living
<1>. QED
  BY <1>8, <1>9, <1>10, <1>11, <1>13, <1>14 DEF Settled

----------------------------------------------------------------------------
(* A thread is killed, or its parent hears of its end.                     *)

\* One is not one's own parent.
LEMMA OwnParent ==
    ASSUME Living, NEW t \in Threads PROVE parent_co_ctx[t] # t
<1>1. {t} \in SUBSET Threads /\ {t} # {}
  OBVIOUS
<1>. QED
  BY <1>1 DEF Living, Grounded

LEMMA ReapedSettled ==
    ASSUME IInv, Settled, NEW c \in Co, Calls(c), NEW t \in Threads,
           parent_co_ctx[t] = c, co_status[t] \in {"running", "zombie", "dead"},
           t \notin subreqs,
           co_status' = Deleted({t}, co_status), co_ref' = co_ref \ {t},
           pending' = pending \ {t},
           UNCHANGED <<parent_co_ctx, waited_by_parent, propagate_error,
                       zombie_child_threads, subreqs, at, posted_threads, cur_co_ctx>>
    PROVE  Settled'
<1>1. Typed /\ Placed /\ Anchored /\ Expecting /\ Waiting /\ Resuming /\ Living
  BY DEF IInv, Settled
<1>2. /\ cur_co_ctx = c /\ co_status[c] = "running" /\ at[c] = "lua" /\ Alive(c)
      /\ \A u \in waited_by_parent : parent_co_ctx[u] # c
      /\ propagate_error = {}
  BY CallerFree
<1>3. t \in Co /\ t # c /\ t \notin Coros /\ t \in Light /\ t \notin waited_by_parent
  BY <1>1, <1>2, OwnParent, Kinds
<1>4. /\ co_status'[t] = "dead"
      /\ \A d \in Co \ {t} : co_status'[d] = co_status[d]
  <2>1. t \notin co_ref => co_status[t] = "dead"
    BY <1>1, <1>3 DEF Anchored
  <2>. QED
    BY <1>3, <2>1 DEF Deleted
<1>5. \A d \in Co : Alive(d)' <=> Alive(d) /\ d # t
  BY <1>4 DEF Alive
<1>6. Placed'
  BY <1>1, <1>2, <1>3, <1>4 DEF Placed
<1>7. Anchored'
  <2>1. \A d \in Co : zombie_child_threads[d] \subseteq Threads
    BY <1>1 DEF Typed
  <2>2. \A d \in Light \ {t} : co_status'[d] = co_status[d]
    BY <1>4, Kinds
  <2>3. \A d \in Light : d \in co_ref' <=> co_status'[d] \notin {"none", "dead"}
    BY <1>1, <1>4, <2>2 DEF Anchored
  <2>4. \A d \in Co : \A u \in zombie_child_threads'[d] : co_status'[u] \in {"zombie", "dead"}
    BY <1>1, <1>4, <2>1, <2>2, Kinds DEF Anchored
  <2>5. co_status'[Entry] \notin Unbegun
    BY <1>1, <2>2, Kinds DEF Anchored, Unbegun
  <2>6. \A u \in Threads : /\ co_status'[u] = "suspended" => at'[u] = "fresh"
                           /\ co_status'[u] = "none" => parent_co_ctx'[u] = NoCo
    BY <1>1, <1>4, <2>2, Kinds DEF Anchored
  <2>. QED
    BY <1>1, <2>3, <2>4, <2>5, <2>6 DEF Anchored
<1>8. Expecting'
  BY <1>1, <1>3, <1>5 DEF Expecting
<1>9. Waiting'
  <2>1. \A u \in waited_by_parent : u # t /\ u \in Co /\ parent_co_ctx[u] \in Co
    BY <1>1, <1>3, Kinds DEF Typed, Waiting
  <2>2. \A p \in Co : Alive(p)' => (at'[p] = "wait" <=> Alive(p) /\ at[p] = "wait")
    BY <1>5 DEF Alive
  <2>3. \A u \in waited_by_parent : co_status'[u] = co_status[u]
    BY <1>4, <2>1
  <2>4. \A u \in waited_by_parent : Alive(parent_co_ctx[u])' => Alive(parent_co_ctx[u])
    BY <1>5, <2>1 DEF Alive
  <2>. QED
    BY <1>1, <2>2, <2>3, <2>4, WaitingKept DEF Alive
<1>10. Active' = Active
  BY DEF Active
<1>11. Resuming'
  <2>1. ASSUME NEW l \in Active, NEW p, p = parent_co_ctx[l]
        PROVE  p \in Co /\ Alive(p)' /\ at'[p] = "resume" /\ p # cur_co_ctx'
    <3>1. p \in Co /\ Alive(p) /\ at[p] = "resume" /\ p # cur_co_ctx
      BY <1>1, <2>1 DEF Resuming
    <3>2. co_status[p] = "normal"
      BY <3>1, InResume
    <3>. QED
      BY <1>5, <3>1, <3>2
  <2>2. ASSUME NEW p \in Co, Alive(p)', at'[p] = "resume", p # cur_co_ctx'
        PROVE  \E l \in Active : parent_co_ctx[l] = p
    BY <1>1, <1>5, <2>2 DEF Resuming
  <2>3. \A l, m \in Active : parent_co_ctx[l] = parent_co_ctx[m] => l = m
    BY <1>1 DEF Resuming
  <2>. QED
    BY <1>10, <2>1, <2>2, <2>3 DEF Resuming, Alive
<1>12. Living'
  BY <1>1, <1>2, <1>10, Kinds DEF Living
<1>. QED
  BY <1>6, <1>7, <1>8, <1>9, <1>11, <1>12 DEF Settled

LEMMA KillSettled ==
    ASSUME IInv, Settled, OneAtATime, NEW c \in Co, NEW t \in Threads, Kill(c, t)
    PROVE  Settled'
<1>1. Typed /\ Anchored /\ Expecting
  BY DEF IInv, Settled
<1>2. /\ Calls(c) /\ parent_co_ctx[t] = c /\ t \notin subreqs /\ t \in co_ref
      /\ co_status[t] \notin {"suspended", "normal"}
      /\ pending' = KilledPending(t)
      /\ co_status' = Deleted({t}, co_status) /\ co_ref' = co_ref \ {t}
      /\ UNCHANGED <<parent_co_ctx, waited_by_parent, propagate_error,
                     zombie_child_threads, subreqs, at, posted_threads, cur_co_ctx>>
  BY DEF Kill, Children, OneAtATime, flags, request
<1>3. co_status[t] \in {"running", "zombie", "dead"}
  BY <1>1, <1>2, Kinds DEF Typed, Statuses, Anchored
<1>4. pending' = pending \ {t}
  BY <1>1, <1>2, Kinds DEF KilledPending, Expecting
<1>. QED
  BY <1>2, <1>3, <1>4, ReapedSettled

LEMMA WaitReturnsSettled ==
    ASSUME IInv, Settled, OneAtATime, NEW c \in Co, NEW args \in Args,
           WaitReturns(c, args)
    PROVE  Settled'
<1>1. Expecting
  BY DEF Settled
<1>2. PICK t : t = args[1]
  OBVIOUS
<1>3. t \in Threads /\ DOMAIN args = {1} /\ Len(args) = 1
  BY <1>2, OneArgument
<1>4. Returns(args) = {1} /\ co_status[t] \in {"zombie", "dead"}
  <2>1. Returns(args) # {} /\ Returns(args) \subseteq {1}
    BY <1>3 DEF WaitReturns, Returns
  <2>. QED
    BY <1>2, <1>3, <2>1 DEF Returns
<1>5. (CHOOSE i \in Returns(args) : \A j \in Returns(args) : i <= j) = 1
  BY <1>4
<1>6. /\ waited_by_parent' = waited_by_parent \cup StillAlive(args, 1 - 1)
      /\ co_status' = Deleted({t}, co_status) /\ WaitReaps({t})
  BY <1>2, <1>5 DEF WaitReturns
<1>7. 1..(1 - 1) = {}
  OBVIOUS
<1>8. waited_by_parent' = waited_by_parent
  BY <1>6, <1>7 DEF StillAlive
<1>9. /\ Calls(c) /\ t \in Children(c)
      /\ UNCHANGED <<parent_co_ctx, propagate_error, zombie_child_threads, pending,
                     subreqs, at, posted_threads, cur_co_ctx>>
  BY <1>2, <1>3 DEF WaitReturns, request
<1>10. t \notin pending /\ t \notin subreqs
  BY <1>1, <1>3, <1>4, Kinds DEF Expecting, Alive
<1>. QED
  BY <1>3, <1>4, <1>6, <1>8, <1>9, <1>10, ReapedSettled DEF Children, WaitReaps

----------------------------------------------------------------------------
(* The code of c ends.                                                     *)

\* c, which has the CPU, ends with the zombie children T and the statuses st.
Ending(c, T, st) ==
    /\ c \in Co /\ cur_co_ctx = c /\ T \subseteq zombie_child_threads[c]
    /\ st \in [Co -> Statuses] /\ st[c] \in {"dead", "running"}
    /\ \A d \in Co \ {c} : st[d] = co_status[d]
    /\ UNCHANGED <<parent_co_ctx, pending, subreqs, posted_threads>>

LEMMA EndingFacts ==
    ASSUME IInv, Settled, NEW c \in Co, cur_co_ctx = c
    PROVE  /\ co_status[c] = "running" /\ Alive(c) /\ at[c] \in {"lua", "resume"}
           /\ c \notin pending /\ c \notin subreqs /\ c \notin Range(posted_threads)
           /\ \A u \in waited_by_parent : parent_co_ctx[u] # c
           /\ \A l \in Active : parent_co_ctx[l] # c
           /\ propagate_error \subseteq {c}
           /\ c \in Light => c \in co_ref
           /\ c \in Coros => c \in Active
           /\ \A t \in zombie_child_threads[c] :
                 /\ t \in Threads /\ t \in Light /\ t \in Co /\ t # c
                 /\ co_status[t] \in {"zombie", "dead"} /\ ~Alive(t)
<1>1. Typed /\ Placed /\ Anchored /\ Expecting /\ Waiting /\ Resuming
  BY DEF IInv, Settled
<1>2. co_status[c] = "running" /\ Alive(c) /\ at[c] \in {"lua", "resume"}
  BY <1>1 DEF Placed, Alive
<1>3. c \notin pending /\ c \notin subreqs /\ c \notin Range(posted_threads)
  BY <1>1, <1>2 DEF Expecting
<1>4. \A u \in waited_by_parent : parent_co_ctx[u] # c
  BY <1>1, <1>2 DEF Waiting
<1>5. \A l \in Active : parent_co_ctx[l] # c
  BY <1>1 DEF Resuming
<1>6. propagate_error \subseteq {c} /\ (c \in Light => c \in co_ref)
  BY <1>1, <1>2 DEF Anchored
<1>7. c \in Coros => c \in Active
  BY <1>2 DEF Active
<1>8. ASSUME NEW t \in zombie_child_threads[c]
      PROVE  /\ t \in Threads /\ t \in Light /\ t \in Co /\ t # c
             /\ co_status[t] \in {"zombie", "dead"} /\ ~Alive(t)
  <2>1. t \in Threads
    BY <1>1 DEF Typed
  <2>2. co_status[t] \in {"zombie", "dead"}
    BY <1>1 DEF Anchored
  <2>. QED
    BY <1>2, <2>1, <2>2, Kinds DEF Alive
<1>. QED
  BY <1>2, <1>3, <1>4, <1>5, <1>6, <1>7, <1>8

\* A light thread ends and the event loop goes on.
LEMMA LightStops ==
    ASSUME IInv, Settled, NEW c \in Light, NEW T, NEW st, Ending(c, T, st),
           NEW end \in {"zombie", "dead"}, c = Entry => end = "dead",
           co_status'[c] = end,
           \A d \in Co \ {c} : co_status'[d] = IF d \in T \cap co_ref THEN "dead"
                                               ELSE co_status[d],
           co_ref' = IF end = "dead" THEN co_ref \ (T \cup {c}) ELSE co_ref \ T,
           \A d \in Co : \A u \in zombie_child_threads'[d] :
              u \in zombie_child_threads[d] \/ (u = c /\ c \in Threads),
           at' = [at EXCEPT ![c] = "ended"], cur_co_ctx' = NoCo,
           propagate_error' = {}, waited_by_parent' = waited_by_parent,
           c \in waited_by_parent => ~Alive(parent_co_ctx[c]),
           Entry \in co_ref' \/ Running' # {}
    PROVE  Settled'
<1>1. Typed /\ Placed /\ Anchored /\ Expecting /\ Waiting /\ Resuming /\ Living
  BY DEF IInv, Settled
<1>2. /\ c \in Co /\ cur_co_ctx = c /\ c \notin Coros
      /\ UNCHANGED <<parent_co_ctx, pending, subreqs, posted_threads>>
  BY Kinds DEF Ending
<1>3. /\ co_status[c] = "running" /\ at[c] \in {"lua", "resume"} /\ Alive(c)
      /\ c \notin pending /\ c \notin subreqs /\ c \notin Range(posted_threads)
      /\ \A u \in waited_by_parent : parent_co_ctx[u] # c
      /\ \A l \in Active : parent_co_ctx[l] # c
      /\ c \in co_ref
  BY <1>2, EndingFacts
<1>4. \A t \in T : /\ t \in Threads /\ t \in Co /\ t # c
                   /\ co_status[t] \in {"zombie", "dead"} /\ ~Alive(t)
  BY <1>2, EndingFacts DEF Ending
<1>5. \A d \in Co : at'[d] = IF d = c THEN "ended" ELSE at[d]
  BY <1>1, <1>2 DEF Typed
<1>6. \A d \in Co : \/ d = c
                    \/ co_status'[d] = co_status[d]
                    \/ d \in T /\ co_status[d] \in {"zombie", "dead"} /\ co_status'[d] = "dead"
  BY <1>4
<1>7. \A d \in Co : Alive(d)' <=> Alive(d) /\ d # c
  BY <1>6 DEF Alive
<1>8. Placed'
  <2>. SUFFICES ASSUME NEW d \in Co
       PROVE  /\ d # NoCo
              /\ co_status'[d] = "none" => at'[d] = "fresh"
              /\ co_status'[d] = "suspended" => at'[d] \in {"fresh", "coyield"}
              /\ co_status'[d] = "running" => \/ at'[d] \in Blocked
                                              \/ d \in Coros /\ at'[d] = "ended"
              /\ co_status'[d] = "normal" => at'[d] = "resume"
              /\ co_status'[d] = "zombie" => d \in Threads /\ at'[d] = "ended"
              /\ co_status'[d] = "dead" /\ d \in Coros => at'[d] = "ended"
    BY DEF Placed
  <2>1. CASE d = c
    BY <1>2, <1>5, <2>1, Kinds
  <2>2. CASE d # c /\ co_status'[d] = co_status[d]
    BY <1>1, <1>2, <1>5, <2>2, Kinds DEF Placed
  <2>3. CASE d # c /\ d \in T /\ co_status'[d] = "dead"
    BY <1>4, <2>3, Kinds
  <2>. QED
    BY <1>6, <2>1, <2>2, <2>3
<1>9. Anchored'
  <2>1. \A d \in Co : zombie_child_threads[d] \subseteq Threads
    BY <1>1 DEF Typed
  <2>2. ASSUME NEW d \in Light PROVE d \in co_ref' <=> co_status'[d] \notin {"none", "dead"}
    <3>1. d \in co_ref <=> co_status[d] \notin {"none", "dead"}
      BY <1>1 DEF Anchored
    <3>2. CASE d = c
      BY <1>3, <1>4, <3>2
    <3>3. CASE d # c
      BY <1>4, <3>1, <3>3, Kinds
    <3>. QED
      BY <3>2, <3>3
  <2>3. \A d \in Co : \A u \in zombie_child_threads[d] : co_status'[u] \in {"zombie", "dead"}
    BY <1>1, <1>6, <2>1, Kinds DEF Anchored
  <2>4. co_status'[Entry] \notin Unbegun
    BY <1>1, <1>6, Kinds DEF Anchored, Unbegun
  <2>5. \A u \in Threads : /\ co_status'[u] = "suspended" => at'[u] = "fresh"
                           /\ co_status'[u] = "none" => parent_co_ctx'[u] = NoCo
    BY <1>1, <1>2, <1>5, <1>6, Kinds DEF Anchored
  <2>. QED
    BY <2>2, <2>3, <2>4, <2>5 DEF Anchored
<1>10. Expecting'
  BY <1>1, <1>2, <1>3, <1>5, <1>7 DEF Expecting
<1>11. Waiting'
  <2>1. \A u \in waited_by_parent : u \in Co /\ parent_co_ctx[u] \in Co
    BY <1>1, Kinds DEF Typed, Waiting
  <2>2. \A p \in Co : Alive(p)' => (at'[p] = "wait" <=> Alive(p) /\ at[p] = "wait")
    BY <1>5, <1>7 DEF Alive
  <2>3. \A u \in waited_by_parent : Alive(parent_co_ctx[u])' => Alive(parent_co_ctx[u])
    BY <1>2, <1>7, <2>1 DEF Alive
  <2>4. ASSUME NEW u \in waited_by_parent, Alive(parent_co_ctx[u])', Alive(u),
               co_status[u] # "suspended"
        PROVE  Alive(u)' /\ co_status'[u] # "suspended"
    <3>1. u # c /\ u \notin T
      BY <1>4, <2>3, <2>4
    <3>2. co_status'[u] = co_status[u]
      BY <1>6, <2>1, <3>1
    <3>. QED
      BY <2>4, <3>2 DEF Alive
  <2>. QED
    BY <1>1, <1>2, <2>2, <2>3, <2>4, WaitingKept
<1>12. Active' = Active
  BY <1>2, <1>5, Kinds DEF Active
<1>13. Resuming'
  <2>1. ASSUME NEW l \in Active, NEW p, p = parent_co_ctx[l]
        PROVE  p \in Co /\ Alive(p)' /\ at'[p] = "resume" /\ p # cur_co_ctx'
    BY <1>1, <1>2, <1>3, <1>5, <1>7, <2>1, Kinds DEF Resuming
  <2>2. ASSUME NEW p \in Co, Alive(p)', at'[p] = "resume", p # cur_co_ctx'
        PROVE  \E l \in Active : parent_co_ctx[l] = p
    BY <1>1, <1>2, <1>5, <1>7, <2>2 DEF Resuming
  <2>3. \A l, m \in Active : parent_co_ctx[l] = parent_co_ctx[m] => l = m
    BY <1>1 DEF Resuming
  <2>. QED
    BY <1>2, <1>12, <2>1, <2>2, <2>3 DEF Resuming, Alive
<1>14. Living'
  <2>1. Grounded(Active', parent_co_ctx') /\ Grounded(Threads, parent_co_ctx')
    BY <1>1, <1>2, <1>12 DEF Living
  <2>2. \A l \in Coros : at'[l] = "fresh" => parent_co_ctx'[l] = NoCo
    BY <1>1, <1>2, <1>5, Kinds DEF Living
  <2>. QED
    BY <2>1, <2>2 DEF Living
<1>. QED
  BY <1>8, <1>9, <1>10, <1>11, <1>13, <1>14 DEF Settled

\* A thread ends and its parent, which waits for it, goes on.
LEMMA ParentGoesOn ==
    ASSUME IInv, Settled, NEW c \in Threads, NEW T, NEW st, Ending(c, T, st),
           NEW p \in Co, p = parent_co_ctx[c], Alive(p), c \in waited_by_parent,
           co_status'[c] = "dead", co_status'[p] = "running",
           \A d \in Co \ {c, p} : co_status'[d] = IF d \in T \cap co_ref THEN "dead"
                                                  ELSE co_status[d],
           co_ref' = co_ref \ (T \cup {c}),
           \A d \in Co : zombie_child_threads'[d] \subseteq zombie_child_threads[d],
           at'[c] = "ended", at'[p] = "lua", \A d \in Co \ {c, p} : at'[d] = at[d],
           cur_co_ctx' = p, propagate_error' = {},
           waited_by_parent' = waited_by_parent \ {c}
    PROVE  Settled'
<1>1. Typed /\ Placed /\ Anchored /\ Expecting /\ Waiting /\ Resuming /\ Living
  BY DEF IInv, Settled
<1>2. /\ c \in Co /\ cur_co_ctx = c /\ c \notin Coros /\ c \in Light
      /\ UNCHANGED <<parent_co_ctx, pending, subreqs, posted_threads>>
  BY Kinds DEF Ending
<1>3. /\ co_status[c] = "running" /\ at[c] \in {"lua", "resume"} /\ Alive(c)
      /\ c \notin pending /\ c \notin subreqs /\ c \notin Range(posted_threads)
      /\ \A u \in waited_by_parent : parent_co_ctx[u] # c
      /\ \A l \in Active : parent_co_ctx[l] # c
      /\ c \in co_ref
  BY <1>2, EndingFacts
<1>4. \A t \in T : /\ t \in Threads /\ t \in Co /\ t # c
                   /\ co_status[t] \in {"zombie", "dead"} /\ ~Alive(t)
  BY <1>2, EndingFacts DEF Ending
<1>5. p # c /\ at[p] = "wait" /\ co_status[p] = "running" /\ p \notin T
  <2>1. p # c /\ at[p] = "wait"
    BY <1>1, <1>2, OwnParent DEF Waiting
  <2>. QED
    BY <1>1, <1>2, <1>4, <2>1 DEF Typed, Statuses, Placed, Alive
<1>6. \A d \in Co : \/ d = c
                    \/ co_status'[d] = co_status[d]
                    \/ d \in T /\ co_status[d] \in {"zombie", "dead"} /\ co_status'[d] = "dead"
  BY <1>4, <1>5
<1>7. \A d \in Co : Alive(d)' <=> Alive(d) /\ d # c
  BY <1>6 DEF Alive
<1>8. Placed'
  <2>. SUFFICES ASSUME NEW d \in Co, d # p
       PROVE  /\ co_status'[d] = "none" => at'[d] = "fresh"
              /\ co_status'[d] = "suspended" => at'[d] \in {"fresh", "coyield"}
              /\ co_status'[d] = "running" => \/ at'[d] \in Blocked
                                              \/ d \in Coros /\ at'[d] = "ended"
              /\ co_status'[d] = "normal" => at'[d] = "resume"
              /\ co_status'[d] = "zombie" => d \in Threads /\ at'[d] = "ended"
              /\ co_status'[d] = "dead" /\ d \in Coros => at'[d] = "ended"
    BY DEF Placed
  <2>1. CASE d = c
    BY <1>2, <2>1
  <2>2. CASE d # c /\ co_status'[d] = co_status[d]
    BY <1>1, <1>2, <2>2 DEF Placed
  <2>3. CASE d # c /\ d \in T /\ co_status'[d] = "dead"
    BY <1>4, <2>3, Kinds
  <2>. QED
    BY <1>6, <2>1, <2>2, <2>3
<1>9. Anchored'
  <2>1. \A d \in Co : zombie_child_threads[d] \subseteq Threads
    BY <1>1 DEF Typed
  <2>2. ASSUME NEW d \in Light PROVE d \in co_ref' <=> co_status'[d] \notin {"none", "dead"}
    <3>1. d \in co_ref <=> co_status[d] \notin {"none", "dead"}
      BY <1>1 DEF Anchored
    <3>2. CASE d \in {c, p}
      BY <1>3, <1>5, <3>1, <3>2
    <3>3. CASE d \notin {c, p}
      BY <1>4, <3>1, <3>3, Kinds
    <3>. QED
      BY <3>2, <3>3
  <2>3. \A d \in Co : \A u \in zombie_child_threads[d] : co_status'[u] \in {"zombie", "dead"}
    BY <1>1, <1>6, <2>1, Kinds DEF Anchored
  <2>4. co_status'[Entry] \notin Unbegun
    BY <1>1, <1>6, Kinds DEF Anchored, Unbegun
  <2>5. \A u \in Threads : /\ co_status'[u] = "suspended" => at'[u] = "fresh"
                           /\ co_status'[u] = "none" => parent_co_ctx'[u] = NoCo
    BY <1>1, <1>2, <1>5, <1>6, Kinds DEF Anchored
  <2>. QED
    BY <2>2, <2>3, <2>4, <2>5 DEF Anchored
<1>10. Expecting'
  BY <1>1, <1>2, <1>3, <1>5, <1>7 DEF Expecting
<1>11. Waiting'
  <2>1. ASSUME NEW u \in waited_by_parent', NEW q, q = parent_co_ctx[u]
        PROVE  q \in Co /\ (Alive(q)' => /\ at'[q] = "wait" /\ Alive(u)'
                                         /\ co_status'[u] # "suspended")
    <3>1. u \in waited_by_parent /\ u \in Co /\ u # c /\ q \in Co /\ q # c
      BY <1>1, <1>3, <2>1, Kinds DEF Typed, Waiting
    <3>2. q # p
      BY <1>1, <2>1, <3>1 DEF Waiting
    <3>3. ASSUME Alive(q) PROVE at[q] = "wait" /\ Alive(u) /\ co_status[u] # "suspended"
      BY <1>1, <2>1, <3>1, <3>3 DEF Waiting
    <3>4. u \in T => ~Alive(u)
      BY <1>4
    <3>. QED
      BY <1>6, <1>7, <3>1, <3>2, <3>3, <3>4
  <2>2. ASSUME NEW q \in Co, Alive(q)', at'[q] = "wait"
        PROVE  \E u \in waited_by_parent' : parent_co_ctx[u] = q
    <3>1. q # p /\ Alive(q) /\ at[q] = "wait"
      BY <1>7, <2>2
    <3>2. PICK u \in waited_by_parent : parent_co_ctx[u] = q
      BY <1>1, <3>1 DEF Waiting
    <3>. QED
      BY <3>1, <3>2
  <2>3. ASSUME NEW q \in Co, Alive(q)', NEW u \in waited_by_parent', NEW v \in waited_by_parent',
               q = parent_co_ctx[u], q = parent_co_ctx[v]
        PROVE  u = v
    <3>1. Alive(q)
      BY <1>7, <2>3
    <3>2. u \in waited_by_parent /\ v \in waited_by_parent
      OBVIOUS
    <3>3. Alive(parent_co_ctx[u]) /\ parent_co_ctx[u] = parent_co_ctx[v]
      BY <2>3, <3>1
    <3>. QED
      BY <1>1, <3>2, <3>3 DEF Waiting
  <2>. QED
    BY <1>2, <2>1, <2>2, <2>3 DEF Waiting, Alive
<1>12. Active' = Active
  BY <1>2, <1>5, Kinds DEF Active
<1>13. Resuming'
  <2>1. ASSUME NEW l \in Active, NEW q, q = parent_co_ctx[l]
        PROVE  q \in Co /\ Alive(q)' /\ at'[q] = "resume" /\ q # cur_co_ctx'
    BY <1>1, <1>3, <1>5, <1>7, <2>1 DEF Resuming
  <2>2. ASSUME NEW q \in Co, Alive(q)', at'[q] = "resume", q # cur_co_ctx'
        PROVE  \E l \in Active : parent_co_ctx[l] = q
    BY <1>1, <1>2, <1>5, <1>7, <2>2 DEF Resuming
  <2>3. \A l, m \in Active : parent_co_ctx[l] = parent_co_ctx[m] => l = m
    BY <1>1 DEF Resuming
  <2>. QED
    BY <1>2, <1>12, <2>1, <2>2, <2>3 DEF Resuming, Alive
<1>14. Living'
  <2>1. Grounded(Active', parent_co_ctx') /\ Grounded(Threads, parent_co_ctx')
    BY <1>1, <1>2, <1>12 DEF Living
  <2>2. \A l \in Coros : at'[l] = "fresh" => parent_co_ctx'[l] = NoCo
    BY <1>1, <1>2, <1>5, Kinds DEF Living
  <2>. QED
    BY <2>1, <2>2, Kinds DEF Living
<1>. QED
  BY <1>8, <1>9, <1>10, <1>11, <1>13, <1>14 DEF Settled

\* A coroutine ends and its parent has the CPU, to go on or to fail with it.
LEMMA ResumerGoesOn ==
    ASSUME IInv, Settled, NEW k \in Coros, NEW T, NEW st, Ending(k, T, st),
           NEW p \in Co, p = parent_co_ctx[k], p # k,
           co_status'[k] \in {"dead", "running"}, co_status'[p] = "running",
           \A d \in Co \ {k, p} : co_status'[d] = IF d \in T \cap co_ref THEN "dead"
                                                  ELSE co_status[d],
           co_ref' = co_ref \ T,
           \A d \in Co : zombie_child_threads'[d] \subseteq zombie_child_threads[d],
           at'[k] = "ended", \A d \in Co \ {k, p} : at'[d] = at[d],
           at'[p] = IF p \in propagate_error' THEN "resume" ELSE "lua",
           cur_co_ctx' = p, propagate_error' \subseteq {p},
           waited_by_parent' = waited_by_parent
    PROVE  Settled'
<1>1. Typed /\ Placed /\ Anchored /\ Expecting /\ Waiting /\ Resuming /\ Living
  BY DEF IInv, Settled
<1>2. /\ k \in Co /\ cur_co_ctx = k /\ k \notin Light
      /\ UNCHANGED <<parent_co_ctx, pending, subreqs, posted_threads>>
  BY Kinds DEF Ending
<1>3. /\ co_status[k] = "running" /\ at[k] \in {"lua", "resume"} /\ Alive(k)
      /\ k \notin pending /\ k \notin subreqs /\ k \notin Range(posted_threads)
      /\ \A u \in waited_by_parent : parent_co_ctx[u] # k
      /\ \A l \in Active : parent_co_ctx[l] # k
      /\ k \in Active
  BY <1>2, EndingFacts
<1>4. \A t \in T : /\ t \in Threads /\ t \in Co /\ t # k
                   /\ co_status[t] \in {"zombie", "dead"} /\ ~Alive(t)
  BY <1>2, EndingFacts DEF Ending
<1>5. Alive(p) /\ at[p] = "resume" /\ co_status[p] = "normal" /\ p \notin T
  <2>1. Alive(p) /\ at[p] = "resume" /\ p # cur_co_ctx
    BY <1>1, <1>3 DEF Resuming
  <2>. QED
    BY <1>4, <2>1, InResume
<1>6. \A d \in Co \ {k, p} :
         \/ co_status'[d] = co_status[d]
         \/ d \in T /\ co_status[d] \in {"zombie", "dead"} /\ co_status'[d] = "dead"
  BY <1>4
<1>7. \A d \in Co \ {k} : Alive(d)' <=> Alive(d)
  BY <1>5, <1>6 DEF Alive
<1>8. Placed'
  <2>. SUFFICES ASSUME NEW d \in Co, d # p
       PROVE  /\ co_status'[d] = "none" => at'[d] = "fresh"
              /\ co_status'[d] = "suspended" => at'[d] \in {"fresh", "coyield"}
              /\ co_status'[d] = "running" => \/ at'[d] \in Blocked
                                              \/ d \in Coros /\ at'[d] = "ended"
              /\ co_status'[d] = "normal" => at'[d] = "resume"
              /\ co_status'[d] = "zombie" => d \in Threads /\ at'[d] = "ended"
              /\ co_status'[d] = "dead" /\ d \in Coros => at'[d] = "ended"
    BY DEF Placed
  <2>1. CASE d = k
    BY <1>2, <2>1
  <2>2. CASE d # k /\ co_status'[d] = co_status[d]
    BY <1>1, <1>2, <2>2 DEF Placed
  <2>3. CASE d # k /\ d \in T /\ co_status'[d] = "dead"
    BY <1>4, <2>3, Kinds
  <2>. QED
    BY <1>6, <2>1, <2>2, <2>3
<1>9. Anchored'
  <2>1. /\ \A d \in Co : zombie_child_threads[d] \subseteq Threads
        /\ \A d \in Light : d \in Co /\ d # k
    BY <1>1, <1>2, Kinds DEF Typed
  <2>2. ASSUME NEW d \in Light PROVE d \in co_ref' <=> co_status'[d] \notin {"none", "dead"}
    <3>1. d \in co_ref <=> co_status[d] \notin {"none", "dead"}
      BY <1>1 DEF Anchored
    <3>2. CASE d = p
      BY <1>5, <3>1, <3>2
    <3>3. CASE d # p
      BY <1>4, <2>1, <3>1, <3>3
    <3>. QED
      BY <3>2, <3>3
  <2>3. ASSUME NEW d \in Co, NEW u \in zombie_child_threads[d]
        PROVE  co_status'[u] \in {"zombie", "dead"}
    <3>1. u \in Co \ {k} /\ co_status[u] \in {"zombie", "dead"}
      BY <1>1, <2>1, Kinds DEF Anchored
    <3>. QED
      BY <1>5, <1>6, <3>1
  <2>4. co_status'[Entry] \notin Unbegun
    BY <1>1, <1>6, <2>1, Kinds DEF Anchored, Unbegun
  <2>5. ASSUME NEW u \in Threads
        PROVE  /\ co_status'[u] = "suspended" => at'[u] = "fresh"
               /\ co_status'[u] = "none" => parent_co_ctx'[u] = NoCo
    BY <1>1, <1>2, <1>5, <1>6, <2>1, Kinds DEF Anchored
  <2>. QED
    BY <2>2, <2>3, <2>4, <2>5 DEF Anchored
<1>10. Expecting'
  BY <1>1, <1>2, <1>3, <1>5, <1>7 DEF Expecting
<1>11. Waiting'
  <2>1. \A u \in waited_by_parent : u \in Co \ {k} /\ parent_co_ctx[u] \in Co \ {k}
    BY <1>1, <1>3, Kinds DEF Typed, Waiting
  <2>2. \A q \in Co : Alive(q)' => (at'[q] = "wait" <=> Alive(q) /\ at[q] = "wait")
    BY <1>3, <1>5, <1>7 DEF Alive
  <2>3. \A u \in waited_by_parent : Alive(parent_co_ctx[u])' => Alive(parent_co_ctx[u])
    BY <1>2, <1>7, <2>1 DEF Alive
  <2>4. ASSUME NEW u \in waited_by_parent, Alive(u), co_status[u] # "suspended"
        PROVE  Alive(u)' /\ co_status'[u] # "suspended"
    BY <1>4, <1>6, <1>7, <2>1, <2>4
  <2>. QED
    BY <1>1, <1>2, <2>2, <2>3, <2>4, WaitingKept
<1>12. Active' = Active \ {k}
  BY <1>5, Kinds DEF Active
<1>13. Resuming'
  <2>1. ASSUME NEW l \in Active', NEW q, q = parent_co_ctx[l]
        PROVE  q \in Co /\ Alive(q)' /\ at'[q] = "resume" /\ q # cur_co_ctx'
    <3>1. l \in Active /\ l # k /\ q \in Co /\ q # k /\ q # p
      BY <1>1, <1>3, <1>12, <2>1 DEF Resuming
    <3>2. Alive(q) /\ at[q] = "resume"
      BY <1>1, <2>1, <3>1 DEF Resuming
    <3>. QED
      BY <1>7, <3>1, <3>2
  <2>2. ASSUME NEW q \in Co, Alive(q)', at'[q] = "resume", q # cur_co_ctx'
        PROVE  \E l \in Active' : parent_co_ctx[l] = q
    <3>1. at[q] = "resume" /\ Alive(q) /\ q # cur_co_ctx /\ q # p
      BY <1>2, <1>7, <2>2
    <3>2. PICK l \in Active : parent_co_ctx[l] = q
      BY <1>1, <3>1 DEF Resuming
    <3>. QED
      BY <1>12, <3>1, <3>2
  <2>3. \A l, m \in Active' : parent_co_ctx[l] = parent_co_ctx[m] => l = m
    BY <1>1, <1>12 DEF Resuming
  <2>. QED
    BY <1>2, <2>1, <2>2, <2>3 DEF Resuming, Alive
<1>14. Living'
  <2>1. Grounded(Active', parent_co_ctx') /\ Grounded(Threads, parent_co_ctx')
    BY <1>1, <1>2, <1>12, GroundedLess DEF Living
  <2>2. \A l \in Coros : at'[l] = "fresh" => parent_co_ctx'[l] = NoCo
    BY <1>1, <1>2, <1>5, Kinds DEF Living
  <2>. QED
    BY <2>1, <2>2, Kinds DEF Living
<1>. QED
  BY <1>8, <1>9, <1>10, <1>11, <1>13, <1>14 DEF Settled

LEMMA LookedLess ==
    ASSUME Typed, NEW c \in Co, NEW T
    PROVE  /\ Looked(c, T) \in [Co -> SUBSET Threads]
           /\ \A d \in Co : Looked(c, T)[d] \subseteq zombie_child_threads[d]
BY DEF Typed, Looked

\* With no thread left the phase would not be running any more.
LEMMA ThreadLeft ==
    ASSUME IInv', phase' = IF LastThread THEN "done" ELSE phase, phase' = "running"
    PROVE  Entry \in co_ref' \/ Running' # {}
<1>1. ~LastThread
  OBVIOUS
<1>2. uthreads' = Cardinality(Running')
  BY DEF IInv
<1>. QED
  BY <1>1, <1>2, FS_EmptySet DEF LastThread

LEMMA UserThreadEndsSettled ==
    ASSUME IInv, IInv', Settled, NEW c, NEW T, NEW st, Ending(c, T, st),
           UserThreadEnds(c, T, st), propagate_error' = {}, phase' = "running"
    PROVE  Settled'
<1>1. Typed /\ Registered /\ Placed /\ Anchored /\ Waiting /\ Living
  BY DEF IInv, Settled
<1>2. PICK p : p = parent_co_ctx[c]
  OBVIOUS
<1>3. /\ c \in Threads /\ c \in Co /\ c \in Light /\ c # Entry /\ cur_co_ctx = c
      /\ parent_co_ctx' = parent_co_ctx
      /\ st \in [Co -> Statuses] /\ \A d \in Co \ {c} : st[d] = co_status[d]
      /\ T \subseteq zombie_child_threads[c]
  BY Kinds DEF UserThreadEnds, Ending
<1>4. /\ co_status[c] = "running" /\ c \in co_ref /\ c \notin T /\ at[c] \in {"lua", "resume"}
      /\ \A t \in T : ~Alive(t)
  BY <1>3, EndingFacts
<1>5. p \in Co /\ p # NoCo /\ p # c
  <2>1. p # NoCo /\ p # c
    BY <1>1, <1>2, <1>3, <1>4, OwnParent DEF Registered
  <2>. QED
    BY <1>1, <1>2, <1>3, <2>1 DEF Typed, Begun
<1>6. Looked(c, T) \in [Co -> SUBSET Threads]
      /\ \A d \in Co : Looked(c, T)[d] \subseteq zombie_child_threads[d]
  BY <1>1, <1>3, LookedLess
<1>7. CASE ParentWaits(c, T, st)
  <2>1. /\ Alive(p) /\ c \in waited_by_parent
        /\ waited_by_parent' = waited_by_parent \ {c}
        /\ co_status' = [Deleted(T \cup {c}, st) EXCEPT ![p] = "running"]
        /\ co_ref' = co_ref \ (T \cup {c})
        /\ zombie_child_threads' = Looked(c, T)
        /\ Goes(c, p)
    BY <1>2, <1>7 DEF ParentWaits
  <2>2. /\ co_status'[c] = "dead" /\ co_status'[p] = "running"
        /\ \A d \in Co \ {c, p} : co_status'[d] = IF d \in T \cap co_ref THEN "dead"
                                                  ELSE co_status[d]
    BY <1>3, <1>4, <1>5, <2>1 DEF Deleted
  <2>3. /\ cur_co_ctx' = p /\ at'[c] = "ended" /\ at'[p] = "lua"
        /\ \A d \in Co \ {c, p} : at'[d] = at[d]
    <3>1. cur_co_ctx' = p /\ at' = [at EXCEPT ![c] = "ended", ![p] = "lua"]
      BY <1>5, <2>1 DEF Goes
    <3>2. at \in [Co -> Places]
      BY <1>1 DEF Typed
    <3>. QED
      BY <1>3, <1>5, <3>1, <3>2
  <2>4. \A d \in Co : zombie_child_threads'[d] \subseteq zombie_child_threads[d]
    BY <1>6, <2>1
  <2>5. /\ Alive(p) /\ c \in waited_by_parent
        /\ waited_by_parent' = waited_by_parent \ {c}
        /\ co_ref' = co_ref \ (T \cup {c})
    BY <2>1
  <2>. QED
    BY <1>2, <1>3, <1>5, <2>2, <2>3, <2>4, <2>5, ParentGoesOn
<1>8. CASE BecomesZombie(c, T, st)
  <2>1. /\ Alive(p) /\ c \notin waited_by_parent
        /\ co_status' = [Deleted(T, st) EXCEPT ![c] = "zombie"]
        /\ co_ref' = co_ref \ T
        /\ zombie_child_threads' = [Looked(c, T) EXCEPT ![p] = @ \cup {c}]
        /\ Goes(c, NoCo) /\ waited_by_parent' = waited_by_parent
    BY <1>2, <1>8 DEF BecomesZombie
  <2>2. /\ co_status'[c] = "zombie"
        /\ \A d \in Co \ {c} : co_status'[d] = IF d \in T \cap co_ref THEN "dead"
                                               ELSE co_status[d]
    BY <1>3, <2>1 DEF Deleted
  <2>3. cur_co_ctx' = NoCo /\ at' = [at EXCEPT ![c] = "ended"]
    BY <2>1 DEF Goes
  <2>4. \A d \in Co : \A u \in zombie_child_threads'[d] :
           u \in zombie_child_threads[d] \/ (u = c /\ c \in Threads)
    <3>1. PICK L : L = Looked(c, T)
      OBVIOUS
    <3>2. zombie_child_threads' = [L EXCEPT ![p] = @ \cup {c}]
      BY <2>1, <3>1
    <3>3. L \in [Co -> SUBSET Threads] /\ \A d \in Co : L[d] \subseteq zombie_child_threads[d]
      BY <1>6, <3>1
    <3>4. \A d \in Co : zombie_child_threads'[d] = IF d = p THEN L[d] \cup {c} ELSE L[d]
      BY <3>2, <3>3
    <3>. QED
      BY <1>3, <3>3, <3>4
  <2>5. c \in Running'
    <3>1. c \in co_ref'
      BY <1>4, <2>1
    <3>2. c \in Begun'
      BY <1>2, <1>3, <1>5, <2>2 DEF Begun, Unbegun
    <3>. QED
      BY <1>3, <3>1, <3>2 DEF Running
  <2>6. co_ref' = co_ref \ T /\ waited_by_parent' = waited_by_parent /\ c \notin waited_by_parent
    BY <2>1
  <2>. QED
    BY <1>3, <2>2, <2>3, <2>4, <2>5, <2>6, LightStops
<1>9. CASE Orphaned(c, T, st)
  <2>1. /\ ~Alive(p)
        /\ co_status' = Deleted(T \cup {c}, st)
        /\ co_ref' = co_ref \ (T \cup {c})
        /\ zombie_child_threads' = Looked(c, T)
        /\ phase' = IF LastThread THEN "done" ELSE phase
        /\ Goes(c, NoCo) /\ waited_by_parent' = waited_by_parent
    BY <1>2, <1>9 DEF Orphaned
  <2>2. /\ co_status'[c] = "dead"
        /\ \A d \in Co \ {c} : co_status'[d] = IF d \in T \cap co_ref THEN "dead"
                                               ELSE co_status[d]
    BY <1>3, <1>4, <2>1 DEF Deleted
  <2>3. cur_co_ctx' = NoCo /\ at' = [at EXCEPT ![c] = "ended"]
    BY <2>1 DEF Goes
  <2>4. \A d \in Co : \A u \in zombie_child_threads'[d] :
           u \in zombie_child_threads[d] \/ (u = c /\ c \in Threads)
    BY <1>6, <2>1
  <2>5. Entry \in co_ref' \/ Running' # {}
    BY <2>1, ThreadLeft
  <2>6. /\ co_ref' = co_ref \ (T \cup {c}) /\ waited_by_parent' = waited_by_parent
        /\ c \in waited_by_parent => ~Alive(parent_co_ctx[c])
    BY <1>2, <2>1
  <2>. QED
    BY <1>3, <2>2, <2>3, <2>4, <2>5, <2>6, LightStops
<1>. QED
  BY <1>7, <1>8, <1>9 DEF UserThreadEnds

LEMMA EntryEndsSettled ==
    ASSUME IInv, IInv', Settled, NEW T, NEW st, Ending(Entry, T, st),
           EntryEnds(T, st), propagate_error' = {}, phase' = "running"
    PROVE  Settled'
<1>1. Typed
  BY DEF IInv
<1>2. /\ Entry \in Co /\ Entry \in Light /\ Entry \notin Threads /\ cur_co_ctx = Entry
      /\ st \in [Co -> Statuses] /\ \A d \in Co \ {Entry} : st[d] = co_status[d]
      /\ T \subseteq zombie_child_threads[Entry]
  BY Kinds DEF Ending
<1>3. Entry \in co_ref /\ Entry \notin T
  BY <1>2, EndingFacts
<1>4. /\ co_status' = Deleted(T \cup {Entry}, st)
      /\ co_ref' = co_ref \ (T \cup {Entry})
      /\ zombie_child_threads' = Looked(Entry, T)
      /\ phase' = IF LastThread THEN "done" ELSE phase
      /\ Goes(Entry, NoCo) /\ waited_by_parent' = waited_by_parent
  BY DEF EntryEnds
<1>5. /\ co_status'[Entry] = "dead"
      /\ \A d \in Co \ {Entry} : co_status'[d] = IF d \in T \cap co_ref THEN "dead"
                                                 ELSE co_status[d]
  BY <1>2, <1>3, <1>4 DEF Deleted
<1>6. cur_co_ctx' = NoCo /\ at' = [at EXCEPT ![Entry] = "ended"]
  BY <1>4 DEF Goes
<1>7. \A d \in Co : \A u \in zombie_child_threads'[d] :
         u \in zombie_child_threads[d] \/ (u = Entry /\ Entry \in Threads)
  <2>1. \A d \in Co : Looked(Entry, T)[d] \subseteq zombie_child_threads[d]
    BY <1>1, <1>2, LookedLess
  <2>. QED
    BY <1>4, <2>1
<1>8. Entry \in co_ref' \/ Running' # {}
  BY <1>4, ThreadLeft
<1>9. /\ co_ref' = co_ref \ (T \cup {Entry}) /\ waited_by_parent' = waited_by_parent
      /\ Entry \notin waited_by_parent
  BY <1>1, <1>2, <1>4 DEF Typed
<1>. QED
  BY <1>2, <1>5, <1>6, <1>7, <1>8, <1>9, LightStops

LEMMA CoroutineEndsSettled ==
    ASSUME IInv, Settled, NEW k, NEW T, NEW st, Ending(k, T, st), CoroutineEnds(k, T, st),
           NEW p, p = parent_co_ctx[k],
           \/ Goes(k, p) /\ propagate_error' = {}
           \/ cur_co_ctx' = p /\ at' = [at EXCEPT ![k] = "ended"] /\ propagate_error' = {p}
    PROVE  Settled'
<1>1. Typed /\ Placed /\ Resuming
  BY DEF IInv, Settled
<1>2. /\ k \in Coros /\ k \in Co /\ cur_co_ctx = k
      /\ st \in [Co -> Statuses] /\ st[k] \in {"dead", "running"}
      /\ \A d \in Co \ {k} : st[d] = co_status[d]
      /\ T \subseteq zombie_child_threads[k]
      /\ co_status' = [Deleted(T, st) EXCEPT ![p] = "running"]
      /\ co_ref' = co_ref \ T /\ zombie_child_threads' = Looked(k, T)
      /\ waited_by_parent' = waited_by_parent
  BY Kinds DEF CoroutineEnds, Ending
<1>3. k \in Active /\ k \notin T
  BY <1>2, EndingFacts
<1>4. p \in Co /\ at[p] = "resume" /\ p # k /\ p # NoCo
  BY <1>1, <1>2, <1>3, Kinds DEF Resuming
<1>5. /\ co_status'[k] \in {"dead", "running"} /\ co_status'[p] = "running"
      /\ \A d \in Co \ {k, p} : co_status'[d] = IF d \in T \cap co_ref THEN "dead"
                                                ELSE co_status[d]
  BY <1>2, <1>3, <1>4 DEF Deleted
<1>6. /\ cur_co_ctx' = p /\ propagate_error' \subseteq {p} /\ at'[k] = "ended"
      /\ at'[p] = IF p \in propagate_error' THEN "resume" ELSE "lua"
      /\ \A d \in Co \ {k, p} : at'[d] = at[d]
  <2>1. at \in [Co -> Places]
    BY <1>1 DEF Typed
  <2>2. CASE Goes(k, p) /\ propagate_error' = {}
    <3>1. cur_co_ctx' = p /\ at' = [at EXCEPT ![k] = "ended", ![p] = "lua"]
      BY <1>4, <2>2 DEF Goes
    <3>. QED
      BY <1>2, <1>4, <2>1, <2>2, <3>1
  <2>3. CASE cur_co_ctx' = p /\ at' = [at EXCEPT ![k] = "ended"] /\ propagate_error' = {p}
    BY <1>2, <1>4, <2>1, <2>3
  <2>. QED
    BY <2>2, <2>3
<1>7. \A d \in Co : zombie_child_threads'[d] \subseteq zombie_child_threads[d]
  BY <1>1, <1>2, LookedLess
<1>8. co_ref' = co_ref \ T /\ waited_by_parent' = waited_by_parent
  BY <1>2
<1>. QED
  BY <1>2, <1>4, <1>5, <1>6, <1>7, <1>8, ResumerGoesOn

LEMMA AfterErrorSettled ==
    ASSUME IInv, IInv', Settled, NEW c \in Co, cur_co_ctx = c,
           NEW st, NEW left, left = pending,
           st \in [Co -> Statuses], st[c] \in {"dead", "running"},
           \A d \in Co \ {c} : st[d] = co_status[d],
           AfterError(c, st, left), phase' = "running"
    PROVE  Settled'
<1>1. propagate_error \ {c} = {} /\ {} \subseteq zombie_child_threads[c]
  BY EndingFacts
<1>2. CASE UserThreadEnds(c, {}, st) /\ pending' = left
           /\ propagate_error' = propagate_error \ {c} /\ UNCHANGED request
  <2>1. Ending(c, {}, st)
    BY <1>1, <1>2 DEF Ending, UserThreadEnds, request
  <2>. QED
    BY <1>1, <1>2, <2>1, UserThreadEndsSettled
<1>3. CASE FinalizeThreads(left, st, "aborted")
  BY <1>3 DEF FinalizeThreads
<1>4. CASE /\ CoroutineEnds(c, {}, st) /\ pending' = left /\ UNCHANGED request
           /\ IF c \in Wrapped
              THEN /\ propagate_error' = (propagate_error \ {c}) \cup {parent_co_ctx[c]}
                   /\ cur_co_ctx' = parent_co_ctx[c]
                   /\ at' = [at EXCEPT ![c] = "ended"]
              ELSE /\ propagate_error' = propagate_error \ {c}
                   /\ Goes(c, parent_co_ctx[c])
  <2>1. Ending(c, {}, st)
    BY <1>1, <1>4 DEF Ending, CoroutineEnds, request
  <2>2. PICK p : p = parent_co_ctx[c]
    OBVIOUS
  <2>3. \/ Goes(c, p) /\ propagate_error' = {}
        \/ cur_co_ctx' = p /\ at' = [at EXCEPT ![c] = "ended"] /\ propagate_error' = {p}
    BY <1>1, <1>4, <2>2
  <2>. QED
    BY <1>4, <2>1, <2>2, <2>3, CoroutineEndsSettled
<1>. QED
  BY <1>2, <1>3, <1>4 DEF AfterError

LEMMA EndsSettled ==
    ASSUME IInv, IInv', Settled, NEW c \in Co, phase' = "running",
           Ends(c) \/ Fails(c) \/ Propagates(c) \/ Exits(c)
    PROVE  Settled'
<1>1. Typed
  BY DEF IInv
<1>2. cur_co_ctx = c
  BY DEF Ends, Fails, Propagates, Exits, Calls
<1>3. PICK dead : dead = [co_status EXCEPT ![c] = "dead"]
  OBVIOUS
<1>4. /\ dead \in [Co -> Statuses] /\ dead[c] = "dead"
      /\ \A d \in Co \ {c} : dead[d] = co_status[d]
      /\ co_status \in [Co -> Statuses] /\ co_status[c] = "running"
  BY <1>1, <1>2, <1>3, EndingFacts DEF Typed, Statuses
<1>5. pending \ {c} = pending
  BY <1>2, EndingFacts
<1>6. CASE Ends(c)
  <2>1. PICK T : T = zombie_child_threads[c]
    OBVIOUS
  <2>2. /\ Calls(c) /\ pending' = pending \ {c}
        /\ propagate_error' = propagate_error /\ UNCHANGED request
        /\ \/ c = Entry /\ EntryEnds(T, dead)
           \/ UserThreadEnds(c, T, dead)
           \/ CoroutineEnds(c, T, dead) /\ Goes(c, parent_co_ctx[c])
    BY <1>3, <1>6, <2>1 DEF Ends
  <2>3. propagate_error' = {} /\ pending' = pending /\ subreqs' = subreqs
    BY <1>5, <2>2, CallerFree DEF request
  <2>4. UNCHANGED <<parent_co_ctx, posted_threads>>
    BY <2>2 DEF EntryEnds, UserThreadEnds, CoroutineEnds
  <2>5. Ending(c, T, dead)
    BY <1>2, <1>4, <2>1, <2>3, <2>4 DEF Ending
  <2>. QED
    BY <2>2, <2>3, <2>5, EntryEndsSettled, UserThreadEndsSettled, CoroutineEndsSettled
<1>7. CASE Fails(c)
  BY <1>2, <1>3, <1>4, <1>5, <1>7, AfterErrorSettled DEF Fails
<1>8. CASE Propagates(c)
  BY <1>2, <1>4, <1>8, AfterErrorSettled DEF Propagates
<1>9. CASE Exits(c)
  BY <1>9 DEF Exits, FinalizeThreads
<1>. QED
  BY <1>6, <1>7, <1>8, <1>9

LEMMA NextSettled ==
    ASSUME IInv, IInv', SInv, OneAtATime, [Next]_vars
    PROVE  SInv'
<1>. SUFFICES ASSUME phase' = "running" PROVE Settled'
  BY DEF SInv
<1>1. CASE UNCHANGED vars
  <2>1. Settled
    BY <1>1 DEF SInv, vars
  <2>2. UNCHANGED positions /\ UNCHANGED <<pending, subreqs, posted_threads>>
    BY <1>1 DEF vars, positions, request
  <2>3. Expecting'
    BY <2>1, <2>2 DEF Settled, Expecting, Alive, positions
  <2>. QED
    BY <2>1, <2>2, <2>3, SamePositions DEF Settled
<1>2. CASE Next
  <2>1. phase = "running"
    BY <1>2 DEF Next, ApiYields, EventFires, ThreadYields, CoYield, Ends, Fails,
                Propagates, Exits, Captures, SubrequestsDone, CoCreate, CoResume,
                Spawn, Kill, OnAbort, WaitReturns, WaitYields, RunPosted, ClientGone,
                RequestAborted, Calls
  <2>2. Settled
    BY <2>1 DEF SInv
  <2>3. ASSUME NEW c \in Co, ApiYields(c) \/ Captures(c) \/ ThreadYields(c)
        PROVE  Settled'
    BY <2>2, <2>3, StoppingSteps
  <2>4. ASSUME NEW c \in Co, EventFires(c) \/ SubrequestsDone(c) PROVE Settled'
    BY <2>2, <2>4, ResumingSteps
  <2>5. ASSUME NEW c \in Co, CoYield(c) PROVE Settled'
    BY <2>2, <2>5, CoYieldSettled
  <2>6. ASSUME NEW c \in Co, Ends(c) \/ Fails(c) \/ Propagates(c) \/ Exits(c)
        PROVE  Settled'
    BY <2>2, <2>6, EndsSettled
  <2>7. ASSUME NEW c \in Co, NEW k \in Coros, CoCreate(c, k) \/ CoResume(c, k)
        PROVE  Settled'
    BY <2>2, <2>7, CoCreateSettled, CoResumeSettled
  <2>8. ASSUME NEW c \in Co, NEW t \in Threads, Spawn(c, t) \/ Kill(c, t) \/ OnAbort(c, t)
        PROVE  Settled'
    BY <2>2, <2>8, SpawnSettled, KillSettled, OnAbortSettled
  <2>9. ASSUME NEW c \in Co, NEW args \in Args, WaitReturns(c, args) \/ WaitYields(c, args)
        PROVE  Settled'
    BY <2>2, <2>9, WaitReturnsSettled, WaitYieldsSettled
  <2>10. CASE RunPosted
    BY <2>2, <2>10, RunPostedSettled
  <2>11. CASE ClientGone
    BY <2>2, <2>11, ClientGoneSettled
  <2>12. CASE RequestAborted
    BY <2>12 DEF RequestAborted, FinalizeThreads
  <2>. QED
    BY <1>2, <2>3, <2>4, <2>5, <2>6, <2>7, <2>8, <2>9, <2>10, <2>11, <2>12 DEF Next
<1>. QED
  BY <1>1, <1>2

LEMMA SettledAlways == ASSUME OneAtATime PROVE Spec => [](IInv /\ SInv)
<1>1. IInv /\ SInv /\ [Next]_vars => IInv' /\ SInv'
  BY NextInv, NextSettled
<1>2. Init => IInv /\ SInv
  BY InitInv, InitSettled
<1>. QED
  BY <1>1, <1>2, PTL DEF Spec

----------------------------------------------------------------------------
\* Whoever has neither ended nor the CPU has the thing outstanding that will
\* resume it: an event, a child that lives and knows that it is waited for, a
\* coroutine that runs, or its place in the queue.  Only a coroutine may be left
\* alone.
THEOREM StrandedSafe == ASSUME OneAtATime PROVE Spec => []NoneStranded
<1>1. IInv /\ SInv => NoneStranded
  <2>. SUFFICES ASSUME IInv, SInv, phase = "running",
                       NEW c \in Co, Alive(c), cur_co_ctx # c
       PROVE  Driven(c) \/ (c \in Coros /\ (co_status[c] = "suspended" \/ at[c] = "ended"))
    BY DEF NoneStranded
  <2>1. /\ Settled
        /\ Typed /\ Registered /\ Placed /\ Anchored /\ Expecting /\ Waiting /\ Resuming
    BY DEF IInv, SInv, Settled
  <2>2. co_status[c] \in {"suspended", "running", "normal"}
    BY <2>1 DEF Typed, Statuses, Alive
  <2>3. CASE co_status[c] = "suspended"
    <3>1. c # Entry
      BY <2>1, <2>3 DEF Anchored, Unbegun
    <3>2. c \in Threads => NotStarted(c)
      BY <2>1, <2>3 DEF Registered, NotStarted
    <3>. QED
      BY <2>3, <3>1, <3>2 DEF Co, Light, Driven
  <2>4. CASE at[c] = "api" \/ at[c] = "subreq"
    BY <2>1, <2>4 DEF Expecting, Driven
  <2>5. CASE at[c] = "wait"
    <3>1. PICK t \in waited_by_parent : parent_co_ctx[t] = c
      BY <2>1, <2>5 DEF Waiting
    <3>2. Alive(t)
      BY <2>1, <3>1 DEF Waiting
    <3>. QED
      BY <2>5, <3>1, <3>2 DEF Driven
  <2>6. CASE at[c] \in {"spawn", "yield"} /\ co_status[c] = "running"
    <3>1. c \in Range(posted_threads)
      BY <2>1, <2>6 DEF Expecting
    <3>2. Posted(c)
      BY <3>1 DEF Range, Posted
    <3>. QED
      BY <2>6, <3>2 DEF Driven
  <2>7. CASE at[c] = "resume"
    <3>1. PICK k \in Active : parent_co_ctx[k] = c
      BY <2>1, <2>7 DEF Resuming
    <3>2. k \in Coros /\ co_status[k] \in {"running", "normal"}
      BY <2>1, <3>1, ActiveFacts DEF Typed
    <3>3. Alive(k) /\ at[k] \notin {"coyield", "ended"}
      BY <3>1, <3>2 DEF Alive, Active
    <3>. QED
      BY <2>7, <3>1, <3>2, <3>3 DEF Driven
  <2>8. co_status[c] = "normal" => at[c] = "resume"
    BY <2>1 DEF Placed
  <2>9. co_status[c] = "running" => at[c] \in Blocked \/ (c \in Coros /\ at[c] = "ended")
    BY <2>1 DEF Placed
  <2>. QED
    BY <2>2, <2>3, <2>4, <2>5, <2>6, <2>7, <2>8, <2>9 DEF Blocked
<1>. QED
  BY <1>1, SettledAlways, PTL

----------------------------------------------------------------------------
(* Who is given the CPU.                                                   *)

Resumed(c) == cur_co_ctx' = c /\ cur_co_ctx # c

LEMMA EndsResume ==
    ASSUME IInv, Settled, NEW d \in Co, NEW c \in Co, Resumed(c),
           Ends(d) \/ Fails(d) \/ Propagates(d) \/ Exits(d)
    PROVE  MayResume(c) /\ co_status[c] # "dead"
<1>1. Typed /\ Placed /\ Waiting /\ Resuming /\ NoCo \notin Co
  BY Kinds DEF IInv, Settled
<1>2. cur_co_ctx = d /\ cur_co_ctx' = c
  BY DEF Ends, Fails, Propagates, Exits, Calls, Resumed
<1>3. \A next : Goes(d, next) => next = c
  BY <1>2 DEF Goes
<1>4. ~Goes(d, NoCo) /\ cur_co_ctx' # NoCo
  BY <1>1, <1>2 DEF Goes
<1>5. ASSUME d \in waited_by_parent, Alive(c), parent_co_ctx[d] = c
      PROVE  MayResume(c) /\ co_status[c] # "dead"
  <2>1. at[c] = "wait"
    BY <1>1, <1>5 DEF Waiting
  <2>. QED
    BY <1>2, <1>5, <2>1 DEF MayResume, Alive
<1>6. ASSUME d \in Coros, parent_co_ctx[d] = c
      PROVE  MayResume(c) /\ co_status[c] # "dead"
  <2>1. d \in Active
    BY <1>2, <1>6, EndingFacts
  <2>2. Alive(c) /\ at[c] = "resume"
    BY <1>1, <1>6, <2>1 DEF Resuming
  <2>. QED
    BY <1>2, <1>6, <2>2 DEF MayResume, Alive
<1>7. ASSUME NEW T, NEW st, UserThreadEnds(d, T, st)
      PROVE  MayResume(c) /\ co_status[c] # "dead"
  <2>1. PICK p : p = parent_co_ctx[d]
    OBVIOUS
  <2>2. ParentWaits(d, T, st)
    BY <1>4, <1>7 DEF UserThreadEnds, BecomesZombie, Orphaned
  <2>3. Alive(p) /\ d \in waited_by_parent /\ Goes(d, p)
    BY <2>1, <2>2 DEF ParentWaits
  <2>. QED
    BY <1>3, <1>5, <2>1, <2>3
<1>8. ASSUME NEW st, NEW left, AfterError(d, st, left)
      PROVE  MayResume(c) /\ co_status[c] # "dead"
  <2>1. ~FinalizeThreads(left, st, "aborted")
    BY <1>4 DEF FinalizeThreads
  <2>2. CASE UserThreadEnds(d, {}, st)
    BY <1>7, <2>2
  <2>3. CASE CoroutineEnds(d, {}, st)
             /\ (cur_co_ctx' = parent_co_ctx[d] \/ Goes(d, parent_co_ctx[d]))
    BY <1>2, <1>3, <1>6, <2>3 DEF CoroutineEnds
  <2>. QED
    BY <1>8, <2>1, <2>2, <2>3 DEF AfterError
<1>9. CASE Ends(d)
  <2>1. PICK T, st : \/ EntryEnds(T, st) /\ d = Entry
                     \/ UserThreadEnds(d, T, st)
                     \/ CoroutineEnds(d, T, st) /\ Goes(d, parent_co_ctx[d])
    BY <1>9 DEF Ends
  <2>2. CASE EntryEnds(T, st) /\ d = Entry
    BY <1>4, <2>2 DEF EntryEnds
  <2>3. CASE UserThreadEnds(d, T, st)
    BY <1>7, <2>3
  <2>4. CASE CoroutineEnds(d, T, st) /\ Goes(d, parent_co_ctx[d])
    BY <1>3, <1>6, <2>4 DEF CoroutineEnds
  <2>. QED
    BY <2>1, <2>2, <2>3, <2>4
<1>10. CASE Fails(d)
  BY <1>8, <1>10 DEF Fails
<1>11. CASE Propagates(d)
  BY <1>8, <1>11 DEF Propagates
<1>12. CASE Exits(d)
  BY <1>4, <1>12 DEF Exits, FinalizeThreads
<1>. QED
  BY <1>9, <1>10, <1>11, <1>12

\* A thread blocked in a call is resumed by what the call waits for: nobody else
\* has, at that moment, the CPU or the head of the queue.
THEOREM ResumedSafe == ASSUME OneAtATime PROVE Spec => ResumedByRight
<1>1. ASSUME IInv, SInv, [Next]_vars, NEW c \in Co, cur_co_ctx' = c, cur_co_ctx # c
      PROVE  MayResume(c) /\ co_status[c] # "dead"
  <2>1. Next /\ NoCo \notin Co /\ Resumed(c) /\ cur_co_ctx' # NoCo
    BY <1>1, Kinds DEF vars, Resumed
  <2>2. phase = "running"
    BY <2>1 DEF Next, ApiYields, EventFires, ThreadYields, CoYield, Ends, Fails,
                Propagates, Exits, Captures, SubrequestsDone, CoCreate, CoResume,
                Spawn, Kill, OnAbort, WaitReturns, WaitYields, RunPosted, ClientGone,
                RequestAborted, Calls
  <2>3. Settled /\ Typed /\ Placed /\ Anchored /\ Expecting /\ Resuming
    BY <1>1, <2>2 DEF SInv, Settled, IInv
  <2>4. ASSUME NEW d \in Co, EventFires(d) PROVE MayResume(c) /\ co_status[c] # "dead"
    <3>1. d = c /\ cur_co_ctx = NoCo /\ c \in pending
      BY <1>1, <2>4 DEF EventFires
    <3>2. Alive(c) /\ at[c] = "api"
      BY <2>3, <3>1 DEF Expecting
    <3>. QED
      BY <3>1, <3>2 DEF MayResume, Alive
  <2>5. ASSUME NEW d \in Co, SubrequestsDone(d) PROVE MayResume(c) /\ co_status[c] # "dead"
    <3>1. d = c /\ cur_co_ctx = NoCo /\ c \in subreqs
      BY <1>1, <2>5 DEF SubrequestsDone
    <3>2. Alive(c) /\ at[c] = "subreq"
      BY <2>3, <3>1 DEF Expecting
    <3>. QED
      BY <3>1, <3>2 DEF MayResume, Alive
  <2>6. CASE RunPosted
    <3>1. PICK h : h = Head(posted_threads)
      OBVIOUS
    <3>2. /\ cur_co_ctx = NoCo /\ posted_threads # <<>>
          /\ IF co_status[h] = "running" THEN cur_co_ctx' = h ELSE cur_co_ctx' = cur_co_ctx
      BY <2>6, <3>1 DEF RunPosted, MayRunPosted
    <3>3. h = c /\ co_status[c] = "running"
      BY <1>1, <3>2
    <3>4. at[c] \in {"spawn", "yield"}
      BY <1>1, <2>3, <3>1, <3>2, <3>3, PostedFacts
    <3>. QED
      BY <3>1, <3>2, <3>3, <3>4 DEF MayResume
  <2>7. ASSUME NEW d \in Co, NEW k \in Coros, CoResume(d, k)
        PROVE  MayResume(c) /\ co_status[c] # "dead"
    <3>1. k = c /\ cur_co_ctx = d /\ d # NoCo /\ co_status[c] = "suspended"
      BY <1>1, <2>1, <2>7 DEF CoResume, Calls
    <3>2. at[c] \in {"fresh", "coyield"}
      BY <1>1, <2>3, <3>1 DEF Placed
    <3>. QED
      BY <3>1, <3>2 DEF MayResume
  <2>8. ASSUME NEW d \in Co, CoYield(d) PROVE MayResume(c) /\ co_status[c] # "dead"
    <3>1. d \in Coros /\ cur_co_ctx = d /\ parent_co_ctx[d] = c
      BY <1>1, <2>8 DEF CoYield, Calls
    <3>2. d \in Active
      BY <1>1, <2>3, <3>1, EndingFacts
    <3>3. Alive(c) /\ at[c] = "resume"
      BY <2>3, <3>1, <3>2 DEF Resuming
    <3>. QED
      BY <3>1, <3>3 DEF MayResume, Alive
  <2>9. ASSUME NEW d \in Co, NEW t \in Threads, Spawn(d, t)
        PROVE  MayResume(c) /\ co_status[c] # "dead"
    <3>1. t = c /\ cur_co_ctx = d /\ d # NoCo /\ co_status[c] = "none"
      BY <1>1, <2>1, <2>9 DEF Spawn, Calls
    <3>2. at[c] = "fresh"
      BY <1>1, <2>3, <3>1 DEF Placed
    <3>. QED
      BY <3>1, <3>2 DEF MayResume
  <2>10. CASE ClientGone
    <3>1. NotStarted(c) /\ co_status[c] = "suspended"
      BY <1>1, <2>10 DEF ClientGone, NotStarted
    <3>2. c \in Threads
      BY <1>1, <2>3, <3>1, Kinds DEF Typed, NotStarted
    <3>3. at[c] = "fresh"
      BY <2>3, <3>1, <3>2 DEF Anchored
    <3>. QED
      BY <3>1, <3>3 DEF MayResume
  <2>11. ASSUME NEW d \in Co, Ends(d) \/ Fails(d) \/ Propagates(d) \/ Exits(d)
         PROVE  MayResume(c) /\ co_status[c] # "dead"
    BY <1>1, <2>1, <2>3, <2>11, EndsResume
  <2>12. ASSUME NEW d \in Co, ApiYields(d) \/ ThreadYields(d) \/ Captures(d) PROVE FALSE
    BY <2>1, <2>12 DEF ApiYields, ThreadYields, Captures
  <2>13. ASSUME NEW d \in Co, NEW k \in Coros, CoCreate(d, k) PROVE FALSE
    BY <1>1, <2>13 DEF CoCreate
  <2>14. ASSUME NEW d \in Co, NEW t \in Threads, Kill(d, t) \/ OnAbort(d, t) PROVE FALSE
    BY <1>1, <2>14 DEF Kill, OnAbort
  <2>15. ASSUME NEW d \in Co, NEW args \in Args, WaitReturns(d, args) \/ WaitYields(d, args)
         PROVE  FALSE
    BY <1>1, <2>1, <2>15 DEF WaitReturns, WaitYields
  <2>16. CASE RequestAborted
    BY <2>1, <2>16 DEF RequestAborted, FinalizeThreads
  <2>. QED
    BY <2>1, <2>4, <2>5, <2>6, <2>7, <2>8, <2>9, <2>10, <2>11, <2>12, <2>13, <2>14,
       <2>15, <2>16 DEF Next
<1>2. IInv /\ SInv /\ [Next]_vars
        => [\A c \in Co : cur_co_ctx' = c /\ cur_co_ctx # c
                          => MayResume(c) /\ co_status[c] # "dead"]_vars
  BY <1>1
<1>. QED
  BY <1>2, SettledAlways, PTL DEF Spec, ResumedByRight

----------------------------------------------------------------------------
(* When nothing can happen any more.                                       *)

\* If each of S has a child in D, and D is part of S, every member of S has its
\* parent there too: there are no more children than parents.
LEMMA ChildrenOfAll ==
    ASSUME NEW S, IsFiniteSet(S), NEW D, D \subseteq S, NEW parent,
           \A c \in S : \E d \in D : parent[d] = c
    PROVE  D = S /\ \A d \in S : parent[d] \in S
<1> DEFINE E == {d \in D : parent[d] \in S}
           f == [d \in E |-> parent[d]]
<1>1. f \in Surjection(E, S)
  <2>1. f \in [E -> S]
    OBVIOUS
  <2>2. \A c \in S : \E d \in E : f[d] = c
    OBVIOUS
  <2>. QED
    BY <2>1, <2>2 DEF Surjection
<1>2. E \in SUBSET S
  OBVIOUS
<1>3. IsFiniteSet(E) /\ Cardinality(E) <= Cardinality(S)
      /\ (Cardinality(S) = Cardinality(E) => S = E)
  BY <1>2, FS_Subset
<1>4. Cardinality(S) <= Cardinality(E)
  BY <1>1, <1>3, FS_Surjection
<1>5. S = E
  BY <1>3, <1>4, FS_CardinalityType
<1>. QED
  BY <1>5

LEMMA NoneCircular ==
    ASSUME NEW S, NEW A, NEW parent, Grounded(A, parent), S \subseteq A,
           \A d \in S : parent[d] \in S
    PROVE  S = {}
BY DEF Grounded

Stuck == {c \in Co : Alive(c) /\ at[c] \in {"wait", "resume"}}

\* In an idle request whoever lives and is not left alone waits for a child.
LEMMA IdleLeavesStuck ==
    ASSUME IInv, Settled, Idle, NEW c \in Co, co_status[c] \in {"running", "normal"},
           c \in Coros => at[c] # "ended"
    PROVE  c \in Stuck
<1>1. Placed /\ Expecting /\ cur_co_ctx # c
  BY Kinds DEF Idle, Settled
<1>2. pending = {} /\ subreqs = {} /\ Range(posted_threads) = {}
  BY DEF Idle, Range
<1>3. Alive(c)
  BY DEF Alive
<1>4. at[c] \notin {"api", "subreq", "spawn", "yield"}
  BY <1>1, <1>2, <1>3 DEF Expecting
<1>5. at[c] \in Blocked \cup {"resume"}
  BY <1>1 DEF Placed
<1>. QED
  BY <1>3, <1>4, <1>5 DEF Stuck, Blocked

LEMMA StuckHasChild ==
    ASSUME IInv, Settled, Idle, NEW c \in Stuck
    PROVE  /\ at[c] = "wait" => \E t \in Stuck \cap Threads : parent_co_ctx[t] = c
           /\ at[c] = "resume" => \E k \in Stuck \cap Active : parent_co_ctx[k] = c
<1>1. Typed /\ Placed /\ Waiting /\ Resuming /\ c \in Co /\ Alive(c) /\ cur_co_ctx \notin Co
  BY Kinds DEF IInv, Settled, Stuck, Idle
<1>2. ASSUME at[c] = "wait" PROVE \E t \in Stuck \cap Threads : parent_co_ctx[t] = c
  <2>1. PICK t \in waited_by_parent : parent_co_ctx[t] = c
    BY <1>1, <1>2 DEF Waiting
  <2>2. t \in Threads /\ t \in Co /\ t \notin Coros /\ Alive(t) /\ co_status[t] # "suspended"
    BY <1>1, <2>1, Kinds DEF Waiting, Typed
  <2>3. co_status[t] \in {"running", "normal"}
    BY <1>1, <2>2 DEF Typed, Statuses, Alive
  <2>. QED
    BY <2>1, <2>2, <2>3, IdleLeavesStuck
<1>3. ASSUME at[c] = "resume" PROVE \E k \in Stuck \cap Active : parent_co_ctx[k] = c
  <2>1. PICK k \in Active : parent_co_ctx[k] = c
    BY <1>1, <1>3 DEF Resuming
  <2>2. k \in Co /\ co_status[k] \in {"running", "normal"} /\ at[k] # "ended"
    BY <1>1, ActiveFacts DEF Typed, Active
  <2>. QED
    BY <2>1, <2>2, IdleLeavesStuck
<1>. QED
  BY <1>2, <1>3

\* Unless a zombie is left that nobody reaps, someone waits.
LEMMA SomeoneStuck ==
    ASSUME IInv, Settled, Idle, \A t \in Threads : ~Unreaped(t)
    PROVE  Stuck # {}
<1>1. Typed /\ Registered /\ Placed /\ Anchored /\ Living /\ cur_co_ctx = NoCo
  BY DEF IInv, Settled, Idle
<1>2. \A c \in Co : c # cur_co_ctx
  BY <1>1, Kinds
<1>3. CASE Entry \in co_ref
  <2>1. co_status[Entry] \notin {"none", "dead", "suspended", "zombie"}
    BY <1>1, <1>2, <1>3, Kinds DEF Anchored, Unbegun, Placed
  <2>2. co_status[Entry] \in {"running", "normal"}
    BY <1>1, <2>1, Kinds DEF Typed, Statuses
  <2>. QED
    BY <2>2, IdleLeavesStuck, Kinds
<1>4. ASSUME NEW t \in Running PROVE Stuck # {}
  <2>1. t \in Threads /\ t \in Co /\ t \notin Coros /\ t \in co_ref /\ t \in Begun
    BY Kinds DEF Running
  <2>2. co_status[t] \notin {"none", "dead", "suspended"}
    BY <1>1, <2>1, Begins, Kinds DEF Anchored, Unbegun
  <2>3. CASE co_status[t] \in {"running", "normal"}
    BY <2>1, <2>3, IdleLeavesStuck
  <2>4. CASE co_status[t] = "zombie"
    <3>1. PICK p : p = parent_co_ctx[t]
      OBVIOUS
    <3>2. co_status[p] # "dead" /\ at[p] \notin {"ended", "coyield"}
      BY <2>1, <2>4, <3>1 DEF Unreaped
    <3>3. p \in Begun /\ p \in Co
      <4>1. p # NoCo
        BY <1>1, <2>1, <2>4, <3>1 DEF Registered
      <4>. QED
        BY <1>1, <2>1, <3>1, <4>1 DEF Typed, Begun
    <3>4. co_status[p] \notin Unbegun
      <4>1. CASE p \in Threads
        BY <1>1, <3>3, <4>1, Begins
      <4>2. CASE p = Entry
        BY <1>1, <4>2 DEF Anchored
      <4>3. CASE p \in Coros
        <5>1. parent_co_ctx[p] # NoCo
          BY <1>1, <3>3, <4>3, Begins
        <5>2. at[p] # "fresh"
          BY <1>1, <4>3, <5>1 DEF Living
        <5>. QED
          BY <1>1, <1>2, <3>2, <3>3, <5>2 DEF Placed, Unbegun
      <4>. QED
        BY <3>3, <4>1, <4>2, <4>3 DEF Co, Light
    <3>5. co_status[p] # "zombie"
      BY <1>1, <1>2, <3>2, <3>3 DEF Placed
    <3>6. co_status[p] \in {"running", "normal"}
      BY <1>1, <3>2, <3>3, <3>4, <3>5 DEF Typed, Statuses, Unbegun
    <3>. QED
      BY <3>2, <3>3, <3>6, IdleLeavesStuck
  <2>. QED
    BY <1>1, <2>1, <2>2, <2>3, <2>4 DEF Typed, Statuses
<1>. QED
  BY <1>1, <1>3, <1>4 DEF Living

\* In a request in which nothing can happen any more, either a zombie is left
\* whose parent can neither wait for it nor end, or a coroutine waits for a thread
\* that is inside it: coroutines that all run end in one that waits, and threads
\* that all wait end in one that does not.
THEOREM HandlerKept == ASSUME OneAtATime PROVE Spec => []OnlyZombiesKeepHandler
<1>1. IInv /\ SInv => OnlyZombiesKeepHandler
  <2>. SUFFICES ASSUME IInv, SInv, Idle, \A t \in Threads : ~Unreaped(t) PROVE Circle
    BY DEF OnlyZombiesKeepHandler
  <2>1. Settled /\ Living
    BY DEF SInv, Settled, Idle
  <2>2. Stuck # {}
    BY <2>1, SomeoneStuck
  <2>3. ASSUME NEW c \in Stuck
        PROVE  /\ at[c] \in {"wait", "resume"} /\ c \in Co
               /\ at[c] = "wait" => \E t \in Stuck \cap Threads : parent_co_ctx[t] = c
               /\ at[c] = "resume" => \E k \in Stuck \cap Active : parent_co_ctx[k] = c
    BY <2>1, StuckHasChild DEF Stuck
  <2>4. IsFiniteSet(Stuck)
    <3>1. IsFiniteSet(Co) /\ Stuck \in SUBSET Co
      BY LightThreadAssumption DEF Stuck
    <3>. QED
      BY <3>1, FS_Subset
  <2>5. ASSUME \A k \in Stuck \cap Coros : at[k] # "wait" PROVE FALSE
    <3>1. Stuck \cap Coros = {}
      <4>1. IsFiniteSet(Stuck \cap Coros)
        BY <2>4, FS_Subset
      <4>2. \A c \in Stuck \cap Coros : \E k \in Stuck \cap Coros : parent_co_ctx[k] = c
        BY <2>3, <2>5 DEF Active
      <4>3. \A d \in Stuck \cap Coros : parent_co_ctx[d] \in Stuck \cap Coros
        BY <4>1, <4>2, ChildrenOfAll
      <4>4. Stuck \cap Coros \subseteq Active
        BY DEF Stuck, Active
      <4>. QED
        BY <2>1, <4>3, <4>4, NoneCircular DEF Living
    <3>2. \A c \in Stuck : \E t \in Stuck \cap Threads : parent_co_ctx[t] = c
      BY <2>3, <3>1 DEF Active
    <3>3. PICK D : D = Stuck \cap Threads
      OBVIOUS
    <3>4. D \subseteq Stuck /\ \A c \in Stuck : \E t \in D : parent_co_ctx[t] = c
      BY <3>2, <3>3
    <3>5. D = Stuck /\ \A d \in Stuck : parent_co_ctx[d] \in Stuck
      BY <2>4, <3>4, ChildrenOfAll
    <3>6. Stuck \subseteq Threads /\ Grounded(Threads, parent_co_ctx)
      BY <2>1, <3>3, <3>5 DEF Living
    <3>. QED
      BY <2>2, <3>5, <3>6, NoneCircular
  <2>6. \A c \in Stuck : \E d \in Stuck : parent_co_ctx[d] = c
    BY <2>3
  <2>. QED
    BY <2>5, <2>6 DEF Circle, Stuck
<1>. QED
  BY <1>1, SettledAlways, PTL
=============================================================================
