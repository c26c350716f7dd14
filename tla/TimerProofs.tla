---------------------------- MODULE TimerProofs ----------------------------
(***************************************************************************)
(* Proofs about Timer, for any limits and any numbers of timers and        *)
(* requests: the state keeps its type, both counters tell the truth within *)
(* their limits, what a timer holds is given back once (unless the         *)
(* allocations fail after which the code does not), and a callback is      *)
(* premature exactly when it should be.                                    *)
(***************************************************************************)
EXTENDS Timer, CollectionLemmas

----------------------------------------------------------------------------
LEMMA Finite ==
    /\ IsFiniteSet(Pending) /\ IsFiniteSet(Running) /\ IsFiniteSet(InTree)
    /\ \A S \in SUBSET Timers : IsFiniteSet(S)
<1>1. \A S \in SUBSET Timers : IsFiniteSet(S)
  BY TimerAssumption, FS_Subset
<1>2. /\ Pending \in SUBSET Timers /\ Running \in SUBSET Timers
      /\ InTree \in SUBSET Timers
  BY DEF Pending, Running, InTree
<1>. QED
  BY <1>1, <1>2

----------------------------------------------------------------------------
(* The handler with its two choices made.                                  *)

Handled(t, premature, copy, outcome) ==
    LET runs == outcome = "runs" IN
    /\ where' = [u \in Timers |-> IF u = t THEN IF runs THEN "running" ELSE "none"
                                  ELSE IF u \in copy THEN "tree" ELSE where[u]]
    /\ tctx' = [u \in Timers |->
                  IF u = t THEN IF runs THEN [tctx[t] EXCEPT !.premature = premature]
                                        ELSE Unset(AnyRequest)
                  ELSE IF u \in copy THEN tctx[t] ELSE tctx[u]]
    /\ pools' = (pools \cup copy) \ (IF DropsPool(outcome) THEN {t} ELSE {})
    /\ pending_timers' = pending_timers - 1 + Cardinality(copy)
    /\ running_timers' = running_timers + (IF runs THEN 1 ELSE 0)
    /\ vm_count' = [vm_count EXCEPT ![tctx[t].vm] =
                       @ + Cardinality(copy) - ReleasesVm(outcome)]
    /\ cpu' = IF runs THEN t ELSE NoOne

Where == {"none", "tree", "posted", "running"}
Tctx == [vm : Requests, delay : Delays, every : BOOLEAN, premature : BOOLEAN]
Chosen(t, copy, outcome) ==
    /\ copy \in SUBSET Unused /\ AtMostOne(copy, Pending \cup Running)
    /\ copy # {} => Recurs(t)
    /\ outcome \in Outcomes

LEMMA AnyRequestType == AnyRequest \in Requests
BY TimerAssumption DEF AnyRequest

LEMMA UnsetType == ASSUME NEW r \in Requests PROVE Unset(r) \in Tctx /\ Unset(r).vm = r
BY DEF Unset, Tctx, Delays

LEMMA HandlerChooses ==
    ASSUME TypeOK, NEW t \in Pending, NEW premature, Handler(t, premature)
    PROVE  \E copy, outcome : /\ Chosen(t, copy, outcome)
                              /\ Handled(t, premature, copy, outcome)
<1>1. PICK copy \in Copies(t), outcome \in Outcomes :
         Handled(t, premature, copy, outcome)
  BY DEF Handler, Handled
<1>2. \/ copy = {}
      \/ Recurs(t) /\ \E u \in Unused : copy = {u}
  BY DEF Copies
<1>3. \A u \in Unused : u \notin Pending \cup Running
  BY DEF Unused, Pending, Running
<1>4. Chosen(t, copy, outcome)
  BY <1>2, <1>3 DEF Chosen, AtMostOne
<1>. QED
  BY <1>1, <1>4

\* What the handler does to the sets of timers.
LEMMA HandledSets ==
    ASSUME TypeOK, NEW t \in Pending, NEW premature, NEW copy, NEW outcome,
           Chosen(t, copy, outcome), Handled(t, premature, copy, outcome)
    PROVE  /\ Pending' = (Pending \ {t}) \cup copy
           /\ Running' = IF outcome = "runs" THEN Running \cup {t} ELSE Running
           /\ InTree' = (InTree \ {t}) \cup copy
           /\ where' \in [Timers -> Where]
<1>1. copy \subseteq Timers /\ t \in Timers /\ t \notin copy
      /\ \A u \in copy : where[u] = "none"
  BY DEF Chosen, Unused, Pending
<1>2. where' = [u \in Timers |-> IF u = t
                                 THEN IF outcome = "runs" THEN "running" ELSE "none"
                                 ELSE IF u \in copy THEN "tree" ELSE where[u]]
  BY DEF Handled
<1>3. where \in [Timers -> Where] /\ where[t] # "running"
  BY DEF TypeOK, Where, Pending
<1>4. where' \in [Timers -> Where]
  BY <1>2, <1>3 DEF Where
<1>5. Pending' = (Pending \ {t}) \cup copy
  BY <1>1, <1>2 DEF Pending
<1>6. Running' = IF outcome = "runs" THEN Running \cup {t} ELSE Running
  BY <1>1, <1>2, <1>3 DEF Running
<1>7. InTree' = (InTree \ {t}) \cup copy
  BY <1>1, <1>2 DEF InTree
<1>. QED
  BY <1>4, <1>5, <1>6, <1>7

----------------------------------------------------------------------------
(* Types.                                                                  *)

LEMMA VmOfType ==
    ASSUME TypeOK, cpu # NoOne
    PROVE  vm_of(cpu) \in Requests
BY DEF TypeOK, vm_of, Running

LEMMA HandledType ==
    ASSUME TypeOK, NEW t \in Pending, NEW premature \in BOOLEAN,
           NEW copy, NEW outcome,
           Chosen(t, copy, outcome), Handled(t, premature, copy, outcome)
    PROVE  /\ tctx' \in [Timers -> Tctx]
           /\ pools' \subseteq Timers
           /\ pending_timers' \in Int /\ running_timers' \in Int
           /\ vm_count' \in [Requests -> Int]
           /\ cpu' \in {NoOne} \cup Running'
<1>1. t \in Timers /\ copy \subseteq Timers
  BY DEF Pending, Chosen, Unused
<1>2. tctx[t] \in Tctx
  BY <1>1 DEF TypeOK, Tctx
<1>3. /\ [tctx[t] EXCEPT !.premature = premature] \in Tctx
      /\ Unset(AnyRequest) \in Tctx
  BY <1>2, AnyRequestType, UnsetType DEF Tctx
<1>4. tctx' \in [Timers -> Tctx]
  BY <1>1, <1>2, <1>3 DEF Handled, TypeOK, Tctx
<1>5. pools' \subseteq Timers
  BY <1>1 DEF Handled, TypeOK
<1>6. Cardinality(copy) \in Int
  <2>1. IsFiniteSet(copy)
    BY <1>1, Finite
  <2>. QED
    BY <2>1, FS_CardinalityType
<1>7. pending_timers' \in Int /\ running_timers' \in Int
  BY <1>6 DEF Handled, TypeOK
<1>8. vm_count' \in [Requests -> Int]
  <2>1. ReleasesVm(outcome) \in Int
    BY DEF ReleasesVm
  <2>2. tctx[t].vm \in Requests
    BY <1>2 DEF Tctx
  <2>. QED
    BY <1>6, <2>1, <2>2 DEF Handled, TypeOK
<1>9. cpu' \in {NoOne} \cup Running'
  <2>1. cpu' = IF outcome = "runs" THEN t ELSE NoOne
    BY DEF Handled
  <2>2. outcome = "runs" => t \in Running'
    BY HandledSets
  <2>. QED
    BY <2>1, <2>2
<1>. QED
  BY <1>4, <1>5, <1>7, <1>8, <1>9

\* What a new timer does to the sets.
Created(t, delay, every) ==
    /\ t \in Unused
    /\ where' = [where EXCEPT ![t] =
                    IF delay = 0 /\ ~ngx_exiting THEN "posted" ELSE "tree"]
    /\ tctx' = [tctx EXCEPT ![t] = [Unset(vm_of(cpu)) EXCEPT !.delay = delay,
                                                             !.every = every]]
    /\ pools' = pools \cup {t}

LEMMA CreatedSets ==
    ASSUME TypeOK, NEW t, NEW delay, NEW every, Created(t, delay, every)
    PROVE  /\ t \in Timers /\ t \notin Pending \cup Running
           /\ Pending' = Pending \cup {t}
           /\ Running' = Running
           /\ InTree' = IF delay = 0 /\ ~ngx_exiting THEN InTree ELSE InTree \cup {t}
           /\ where' \in [Timers -> Where]
<1>1. t \in Timers /\ where[t] = "none"
  BY DEF Created, Unused
<1>2. where \in [Timers -> Where]
  BY DEF TypeOK, Where
<1>3. /\ where' \in [Timers -> Where]
      /\ where'[t] = IF delay = 0 /\ ~ngx_exiting THEN "posted" ELSE "tree"
      /\ \A u \in Timers \ {t} : where'[u] = where[u]
  BY <1>1, <1>2 DEF Created, Where
<1>. QED
  BY <1>1, <1>3 DEF Pending, Running, InTree

LEMMA EndedSets ==
    ASSUME TypeOK, CallbackEnds
    PROVE  /\ cpu \in Timers /\ cpu \notin Pending
           /\ Pending' = Pending
           /\ Running' = Running \ {cpu}
           /\ InTree' = InTree
           /\ where' \in [Timers -> Where]
<1>1. cpu \in Timers /\ where[cpu] = "running"
  BY DEF CallbackEnds, Running
<1>2. where \in [Timers -> Where]
  BY DEF TypeOK, Where
<1>3. /\ where' \in [Timers -> Where]
      /\ where'[cpu] = "none"
      /\ \A u \in Timers \ {cpu} : where'[u] = where[u]
  BY <1>1, <1>2 DEF CallbackEnds, Where
<1>. QED
  BY <1>1, <1>3 DEF Pending, Running, InTree

LEMMA InitType == Init => TypeOK
<1>. SUFFICES ASSUME Init PROVE TypeOK
  OBVIOUS
<1>1. tctx \in [Timers -> Tctx]
  BY AnyRequestType, UnsetType DEF Init
<1>2. /\ pending_timers \in Int /\ running_timers \in Int
      /\ vm_count \in [Requests -> Int]
  BY DEF Init
<1>3. where \in [Timers -> Where]
  BY DEF Init, Where
<1>. QED
  BY <1>1, <1>2, <1>3 DEF Init, TypeOK, Tctx, Where

LEMMA StepType == TypeOK /\ [Next]_vars => TypeOK'
<1>. SUFFICES ASSUME TypeOK, [Next]_vars PROVE TypeOK'
  OBVIOUS
<1>. USE DEF counts
<1>1. ASSUME NEW delay \in Delays, NEW every \in BOOLEAN, TimerAt(delay, every)
      PROVE  TypeOK'
  <2>1. PICK t : Created(t, delay, every)
    BY <1>1 DEF TimerAt, Created
  <2>2. /\ cpu # NoOne
        /\ vm_count' = [vm_count EXCEPT ![vm_of(cpu)] = @ + 1]
        /\ pending_timers' = pending_timers + 1
        /\ watcher' = IF watcher = "none" THEN "open" ELSE watcher
        /\ UNCHANGED <<running_timers, ngx_exiting, to_abort, requests, cpu>>
    BY <1>1 DEF TimerAt, Watch
  <2>3. vm_of(cpu) \in Requests
    BY <2>2, VmOfType
  <2>4. vm_count' \in [Requests -> Int]
    BY <2>2, <2>3 DEF TypeOK
  <2>5. tctx' \in [Timers -> Tctx]
    <3>1. [Unset(vm_of(cpu)) EXCEPT !.delay = delay, !.every = every] \in Tctx
      BY <2>3, UnsetType DEF Tctx
    <3>. QED
      BY <2>1, <3>1 DEF Created, TypeOK, Tctx
  <2>6. /\ where' \in [Timers -> Where] /\ pools' \subseteq Timers
        /\ to_abort' \subseteq InTree' /\ cpu' \in {NoOne} \cup requests' \cup Running'
    <3>1. /\ t \in Timers /\ where' \in [Timers -> Where] /\ Running' = Running
          /\ InTree \subseteq InTree'
      BY <2>1, CreatedSets
    <3>. QED
      BY <2>1, <2>2, <3>1 DEF TypeOK, Created
  <2>7. pending_timers' \in Int
    BY <2>2 DEF TypeOK
  <2>. QED
    BY <2>2, <2>4, <2>5, <2>6, <2>7 DEF TypeOK, Tctx, Where
<1>2. ASSUME NEW delay \in Delays, TimerAtNoMemory(delay) PROVE TypeOK'
  BY <1>2 DEF TimerAtNoMemory, TypeOK, Watch, InTree, Running
<1>3. ASSUME NEW t \in Timers, Expires(t) PROVE TypeOK'
  <2>1. /\ t \in Pending /\ Handler(t, FALSE) /\ to_abort = {} /\ to_abort' = {}
        /\ UNCHANGED <<watcher, ngx_exiting, requests>>
    BY <1>3 DEF Expires, LoopTurns
  <2>2. PICK copy, outcome : Chosen(t, copy, outcome) /\ Handled(t, FALSE, copy, outcome)
    BY <2>1, HandlerChooses
  <2>3. where' \in [Timers -> Where]
    BY <2>1, <2>2, HandledSets
  <2>4. /\ tctx' \in [Timers -> Tctx]
        /\ pools' \subseteq Timers
        /\ pending_timers' \in Int /\ running_timers' \in Int
        /\ vm_count' \in [Requests -> Int]
        /\ cpu' \in {NoOne} \cup Running'
    BY <2>1, <2>2, HandledType
  <2>. QED
    BY <2>1, <2>3, <2>4 DEF TypeOK, Where, Tctx
<1>4. ASSUME NEW t \in Timers, AbortNext(t) PROVE TypeOK'
  <2>1. /\ t \in to_abort /\ Handler(t, TRUE) /\ to_abort' = to_abort \ {t}
        /\ UNCHANGED <<watcher, ngx_exiting, requests>>
    BY <1>4 DEF AbortNext
  <2>2. t \in Pending /\ to_abort \subseteq InTree
    BY <2>1 DEF TypeOK, InTree, Pending
  <2>3. PICK copy, outcome : Chosen(t, copy, outcome) /\ Handled(t, TRUE, copy, outcome)
    BY <2>1, <2>2, HandlerChooses
  <2>4. /\ where' \in [Timers -> Where]
        /\ InTree' = (InTree \ {t}) \cup copy
    BY <2>2, <2>3, HandledSets
  <2>5. /\ tctx' \in [Timers -> Tctx]
        /\ pools' \subseteq Timers
        /\ pending_timers' \in Int /\ running_timers' \in Int
        /\ vm_count' \in [Requests -> Int]
        /\ cpu' \in {NoOne} \cup Running'
    BY <2>2, <2>3, HandledType
  <2>6. to_abort' \subseteq InTree'
    BY <2>1, <2>2, <2>4
  <2>. QED
    BY <2>1, <2>4, <2>5, <2>6 DEF TypeOK, Where, Tctx
<1>5. ASSUME Yields PROVE TypeOK'
  BY <1>5 DEF Yields, TypeOK, InTree, Running
<1>6. ASSUME NEW x \in Requests \cup Timers, Resumes(x) PROVE TypeOK'
  BY <1>6 DEF Resumes, TypeOK, InTree, Running
<1>7. ASSUME RequestEnds PROVE TypeOK'
  <2>1. vm_count' \in [Requests -> Int]
    BY <1>7 DEF RequestEnds, TypeOK
  <2>. QED
    BY <1>7, <2>1 DEF RequestEnds, TypeOK, InTree, Running
<1>8. ASSUME CallbackEnds PROVE TypeOK'
  <2>1. tctx[cpu].vm \in Requests /\ cpu \in Timers
    BY <1>8, EndedSets DEF TypeOK
  <2>2. vm_count' \in [Requests -> Int]
    BY <1>8, <2>1 DEF CallbackEnds, TypeOK
  <2>3. tctx' \in [Timers -> Tctx]
    BY <1>8, AnyRequestType, UnsetType DEF CallbackEnds, TypeOK, Tctx
  <2>4. /\ where' \in [Timers -> Where] /\ to_abort' \subseteq InTree'
        /\ cpu' \in {NoOne} \cup requests' \cup Running'
    BY <1>8, EndedSets DEF CallbackEnds, TypeOK
  <2>5. /\ pools' \subseteq Timers
        /\ pending_timers' \in Int /\ running_timers' \in Int
        /\ UNCHANGED <<watcher, ngx_exiting, requests>>
    BY <1>8 DEF CallbackEnds, TypeOK
  <2>. QED
    BY <2>2, <2>3, <2>4, <2>5 DEF TypeOK, Where, Tctx
<1>9. ASSUME Quit PROVE TypeOK'
  <2>1. to_abort' \subseteq InTree'
    BY <1>9 DEF Quit, Collected, InTree
  <2>. QED
    BY <1>9, <2>1 DEF Quit, TypeOK, InTree, Running
<1>10. CASE UNCHANGED vars
  BY <1>10 DEF vars, TypeOK, InTree, Running
<1>. QED
  BY <1>1, <1>2, <1>3, <1>4, <1>5, <1>6, <1>7, <1>8, <1>9, <1>10 DEF Next

\* The state of the timers keeps its type: what the abort loop has yet to call is
\* still in the tree, and the cpu is nobody's who has ended.
THEOREM TypeSafe == Spec => []TypeOK
BY InitType, StepType, PTL DEF Spec

----------------------------------------------------------------------------
(* The counters.                                                           *)

LEMMA InitCounts == Init => CountsWithinLimits
<1>. SUFFICES ASSUME Init PROVE CountsWithinLimits
  OBVIOUS
<1>1. Pending = {} /\ Running = {}
  BY DEF Init, Pending, Running
<1>. QED
  BY <1>1, FS_EmptySet, TimerAssumption DEF Init, CountsWithinLimits

\* A handled timer leaves its place to the copy, if there is one, and runs only
\* if there is room.
LEMMA HandledCounts ==
    ASSUME TypeOK, CountsWithinLimits, NEW t \in Pending, NEW premature,
           NEW copy, NEW outcome,
           Chosen(t, copy, outcome), Handled(t, premature, copy, outcome)
    PROVE  CountsWithinLimits'
<1>1. AtMostOne(copy, Pending) /\ (copy = {} \/ Cardinality(copy) = 1)
  BY FS_Singleton DEF Chosen, AtMostOne
<1>2. /\ Cardinality(copy) \in Nat /\ Cardinality(Pending) \in Nat
      /\ Cardinality((Pending \ {t}) \cup copy)
           = Cardinality(Pending) - 1 + Cardinality(copy)
  BY <1>1, Finite, CardReplaced
<1>3. Cardinality(copy) <= 1
  BY <1>1, FS_EmptySet
<1>4. pending_timers' = Cardinality(Pending') /\ pending_timers' <= MaxPending
  <2>1. Pending' = (Pending \ {t}) \cup copy
    BY HandledSets
  <2>2. pending_timers' = pending_timers - 1 + Cardinality(copy)
    BY DEF Handled
  <2>. QED
    BY <1>2, <1>3, <2>1, <2>2, TimerAssumption DEF CountsWithinLimits
<1>5. running_timers' = Cardinality(Running') /\ running_timers' <= MaxRunning
  <2>1. CASE outcome = "runs"
    <3>1. running_timers < MaxRunning
      BY <2>1, TimerAssumption DEF Chosen, Outcomes, TypeOK, CountsWithinLimits
    <3>2. running_timers' = running_timers + 1
      BY <2>1 DEF Handled
    <3>3. Running' = Running \cup {t} /\ t \notin Running
      BY <2>1, HandledSets DEF Pending, Running
    <3>4. Cardinality(Running \cup {t}) = Cardinality(Running) + 1
      BY <3>3, Finite, FS_AddElement
    <3>. QED
      BY <3>1, <3>2, <3>3, <3>4, TimerAssumption DEF CountsWithinLimits, TypeOK
  <2>2. CASE outcome # "runs"
    <3>1. running_timers' = running_timers
      BY <2>2 DEF Handled, TypeOK
    <3>2. Running' = Running
      BY <2>2, HandledSets
    <3>. QED
      BY <3>1, <3>2 DEF CountsWithinLimits
  <2>. QED
    BY <2>1, <2>2
<1>. QED
  BY <1>4, <1>5 DEF CountsWithinLimits

LEMMA StepCounts == TypeOK /\ CountsWithinLimits /\ [Next]_vars => CountsWithinLimits'
<1>. SUFFICES ASSUME TypeOK, CountsWithinLimits, [Next]_vars
              PROVE  CountsWithinLimits'
  OBVIOUS
<1>. USE DEF counts
<1>1. ASSUME NEW delay \in Delays, NEW every \in BOOLEAN, TimerAt(delay, every)
      PROVE  CountsWithinLimits'
  <2>1. PICK t : Created(t, delay, every)
    BY <1>1 DEF TimerAt, Created
  <2>2. /\ pending_timers < MaxPending /\ pending_timers' = pending_timers + 1
        /\ running_timers' = running_timers
    BY <1>1 DEF TimerAt, MayCreate
  <2>3. /\ Pending' = Pending \cup {t} /\ t \notin Pending /\ Running' = Running
    BY <2>1, CreatedSets
  <2>4. Cardinality(Pending \cup {t}) = Cardinality(Pending) + 1
    BY <2>3, Finite, FS_AddElement
  <2>. QED
    BY <2>2, <2>3, <2>4, TimerAssumption DEF CountsWithinLimits, TypeOK
<1>2. ASSUME NEW delay \in Delays, TimerAtNoMemory(delay) PROVE CountsWithinLimits'
  BY <1>2 DEF TimerAtNoMemory, CountsWithinLimits, Pending, Running
<1>3. ASSUME NEW t \in Timers, Expires(t) PROVE CountsWithinLimits'
  <2>1. t \in Pending /\ Handler(t, FALSE)
    BY <1>3 DEF Expires
  <2>. QED
    BY <2>1, HandlerChooses, HandledCounts
<1>4. ASSUME NEW t \in Timers, AbortNext(t) PROVE CountsWithinLimits'
  <2>1. t \in Pending /\ Handler(t, TRUE)
    BY <1>4 DEF AbortNext, TypeOK, InTree, Pending
  <2>. QED
    BY <2>1, HandlerChooses, HandledCounts
<1>5. ASSUME Yields PROVE CountsWithinLimits'
  BY <1>5 DEF Yields, CountsWithinLimits, Pending, Running
<1>6. ASSUME NEW x \in Requests \cup Timers, Resumes(x) PROVE CountsWithinLimits'
  BY <1>6 DEF Resumes, CountsWithinLimits, Pending, Running
<1>7. ASSUME RequestEnds PROVE CountsWithinLimits'
  BY <1>7 DEF RequestEnds, CountsWithinLimits, Pending, Running
<1>8. ASSUME CallbackEnds PROVE CountsWithinLimits'
  <2>1. /\ Pending' = Pending /\ Running' = Running \ {cpu}
    BY <1>8, EndedSets
  <2>2. /\ cpu \in Running /\ running_timers' = running_timers - 1
        /\ pending_timers' = pending_timers
    BY <1>8 DEF CallbackEnds
  <2>3. Cardinality(Running \ {cpu}) = Cardinality(Running) - 1
    BY <2>2, Finite, FS_RemoveElement
  <2>. QED
    BY <2>1, <2>2, <2>3, TimerAssumption DEF CountsWithinLimits, TypeOK
<1>9. ASSUME Quit PROVE CountsWithinLimits'
  BY <1>9 DEF Quit, CountsWithinLimits, Pending, Running
<1>10. CASE UNCHANGED vars
  BY <1>10 DEF vars, CountsWithinLimits, Pending, Running
<1>. QED
  BY <1>1, <1>2, <1>3, <1>4, <1>5, <1>6, <1>7, <1>8, <1>9, <1>10 DEF Next

\* Both counts are those of the timers pending and running, on every path through
\* the handler, and neither exceeds its limit.
THEOREM CountsSafe == Spec => []CountsWithinLimits
BY InitType, StepType, InitCounts, StepCounts, PTL DEF Spec

----------------------------------------------------------------------------
(* The pools, which only the lack of a free connection orphans.            *)

LEMMA StepPools ==
    "connection" \notin Failures /\ TypeOK /\ PoolsHaveOwners /\ [Next]_vars
      => PoolsHaveOwners'
<1>. SUFFICES ASSUME "connection" \notin Failures, TypeOK, PoolsHaveOwners,
                     [Next]_vars
              PROVE  PoolsHaveOwners'
  OBVIOUS
<1>. USE DEF counts
<1>a. ASSUME NEW t \in Pending, NEW premature, Handler(t, premature)
      PROVE  PoolsHaveOwners'
  <2>1. PICK copy, outcome : Chosen(t, copy, outcome) /\ Handled(t, premature, copy, outcome)
    BY <1>a, HandlerChooses
  <2>2. outcome \in {"too many", "runs", "request", "cleanup"}
    BY <2>1 DEF Chosen, Outcomes
  <2>3. DropsPool(outcome) <=> outcome # "runs"
    BY <2>2 DEF DropsPool
  <2>4. /\ Pending' = (Pending \ {t}) \cup copy
        /\ Running' = IF outcome = "runs" THEN Running \cup {t} ELSE Running
    BY <2>1, HandledSets
  <2>5. pools' = (pools \cup copy) \ (IF outcome = "runs" THEN {} ELSE {t})
    BY <2>1, <2>3 DEF Handled
  <2>6. t \notin Running /\ t \notin copy
    BY <2>1 DEF Pending, Running, Chosen, Unused
  <2>. QED
    BY <2>4, <2>5, <2>6 DEF PoolsHaveOwners
<1>1. ASSUME NEW delay \in Delays, NEW every \in BOOLEAN, TimerAt(delay, every)
      PROVE  PoolsHaveOwners'
  <2>1. PICK t : Created(t, delay, every)
    BY <1>1 DEF TimerAt, Created
  <2>2. Pending' = Pending \cup {t} /\ Running' = Running
    BY <2>1, CreatedSets
  <2>. QED
    BY <2>1, <2>2 DEF Created, PoolsHaveOwners
<1>2. ASSUME NEW delay \in Delays, TimerAtNoMemory(delay) PROVE PoolsHaveOwners'
  BY <1>2 DEF TimerAtNoMemory, PoolsHaveOwners, Pending, Running
<1>3. ASSUME NEW t \in Timers, Expires(t) PROVE PoolsHaveOwners'
  BY <1>3, <1>a DEF Expires
<1>4. ASSUME NEW t \in Timers, AbortNext(t) PROVE PoolsHaveOwners'
  <2>1. t \in Pending /\ Handler(t, TRUE)
    BY <1>4 DEF AbortNext, TypeOK, InTree, Pending
  <2>. QED
    BY <2>1, <1>a
<1>5. ASSUME Yields PROVE PoolsHaveOwners'
  BY <1>5 DEF Yields, PoolsHaveOwners, Pending, Running
<1>6. ASSUME NEW x \in Requests \cup Timers, Resumes(x) PROVE PoolsHaveOwners'
  BY <1>6 DEF Resumes, PoolsHaveOwners, Pending, Running
<1>7. ASSUME RequestEnds PROVE PoolsHaveOwners'
  BY <1>7 DEF RequestEnds, PoolsHaveOwners, Pending, Running
<1>8. ASSUME CallbackEnds PROVE PoolsHaveOwners'
  <2>1. Pending' = Pending /\ Running' = Running \ {cpu} /\ cpu \notin Pending
    BY <1>8, EndedSets
  <2>. QED
    BY <1>8, <2>1 DEF CallbackEnds, PoolsHaveOwners
<1>9. ASSUME Quit PROVE PoolsHaveOwners'
  BY <1>9 DEF Quit, PoolsHaveOwners, Pending, Running
<1>10. CASE UNCHANGED vars
  BY <1>10 DEF vars, PoolsHaveOwners, Pending, Running
<1>. QED
  BY <1>1, <1>2, <1>3, <1>4, <1>5, <1>6, <1>7, <1>8, <1>9, <1>10 DEF Next

----------------------------------------------------------------------------
(* The references to the virtual machines.                                 *)

Users(r) == {t \in Pending \cup Running : tctx[t].vm = r}

LEMMA UsersFinite ==
    ASSUME NEW r
    PROVE  IsFiniteSet(Users(r)) /\ Cardinality(Users(r)) \in Nat
<1>1. Users(r) \in SUBSET Timers
  BY DEF Users, Pending, Running
<1>. QED
  BY <1>1, Finite, FS_CardinalityType

VmCounted(r) ==
    vm_count[r] = (IF r \in requests THEN 1 ELSE 0) + Cardinality(Users(r))

LEMMA VmByRequest == VmLivesAsLongAsUsed <=> \A r \in Requests : VmCounted(r)
<1>1. \A r : Cardinality(requests \cap {r}) = IF r \in requests THEN 1 ELSE 0
  BY CardMember
<1>2. \A r : Users(r) = {t \in Pending \cup Running : tctx[t].vm = r}
  BY DEF Users
<1>3. VmLivesAsLongAsUsed <=>
        \A r \in Requests : vm_count[r] = Cardinality(requests \cap {r}) +
                                          Cardinality(Users(r))
  BY Zenon DEF VmLivesAsLongAsUsed, Users
<1>. HIDE DEF Users
<1>. QED
  BY <1>1, <1>3 DEF VmCounted

LEMMA InitPoolsVms == Init => PoolsHaveOwners /\ VmLivesAsLongAsUsed
<1>. SUFFICES ASSUME Init PROVE PoolsHaveOwners /\ VmLivesAsLongAsUsed
  OBVIOUS
<1>1. Pending = {} /\ Running = {}
  BY DEF Init, Pending, Running
<1>2. PoolsHaveOwners
  BY <1>1 DEF Init, PoolsHaveOwners
<1>3. ASSUME NEW r \in Requests PROVE VmCounted(r)
  <2>1. Users(r) = {}
    BY <1>1 DEF Users
  <2>2. vm_count[r] = 1 /\ r \in requests
    BY DEF Init
  <2>. QED
    BY <2>1, <2>2, FS_EmptySet DEF VmCounted
<1>. QED
  BY <1>2, <1>3, VmByRequest

\* The handled timer's reference is that of the callback that runs, or is dropped
\* with it; the copy has its own.
LEMMA HandledVms ==
    ASSUME TypeOK, VmLivesAsLongAsUsed, "cleanup" \notin Failures,
           NEW t \in Pending, NEW premature \in BOOLEAN,
           NEW copy, NEW outcome,
           Chosen(t, copy, outcome), Handled(t, premature, copy, outcome),
           requests' = requests
    PROVE  VmLivesAsLongAsUsed'
<1>. DEFINE runs == outcome = "runs"
<1>a. PICK vm : vm = tctx[t].vm
  OBVIOUS
<1>1. /\ Pending' = (Pending \ {t}) \cup copy
      /\ Running' = IF runs THEN Running \cup {t} ELSE Running
  BY HandledSets
<1>2. /\ t \in Timers /\ copy \subseteq Timers /\ t \notin copy /\ t \notin Running
      /\ \A u \in copy : u \notin Pending \cup Running
  BY DEF Chosen, Unused, Pending, Running
<1>3. tctx[t] \in Tctx /\ vm \in Requests
  BY <1>2, <1>a DEF TypeOK, Tctx
<1>4. /\ runs => tctx'[t].vm = vm
      /\ \A u \in copy : tctx'[u].vm = vm
      /\ \A u \in Timers \ (copy \cup {t}) : tctx'[u].vm = tctx[u].vm
  <2>1. tctx' = [u \in Timers |->
                   IF u = t THEN IF runs THEN [tctx[t] EXCEPT !.premature = premature]
                                         ELSE Unset(AnyRequest)
                   ELSE IF u \in copy THEN tctx[t] ELSE tctx[u]]
    BY DEF Handled
  <2>2. [tctx[t] EXCEPT !.premature = premature].vm = vm
    BY <1>3, <1>a DEF Tctx
  <2>. QED
    BY <1>2, <1>a, <2>1, <2>2
<1>5. /\ Cardinality(copy) \in Nat
      /\ vm_count' = [vm_count EXCEPT ![vm] =
                         @ + Cardinality(copy) - IF runs THEN 0 ELSE 1]
  <2>1. outcome # "cleanup"
    BY DEF Chosen, Outcomes
  <2>2. ReleasesVm(outcome) = IF runs THEN 0 ELSE 1
    BY <2>1 DEF ReleasesVm
  <2>3. IsFiniteSet(copy)
    BY <1>2, Finite
  <2>. QED
    BY <1>a, <2>2, <2>3, FS_CardinalityType DEF Handled
<1>6. t \in Users(vm)
  BY <1>a DEF Users
<1>7. Pending \subseteq Timers /\ Running \subseteq Timers
  BY DEF Pending, Running
<1>. HIDE DEF runs
<1>8. Users(vm)' = IF runs THEN Users(vm) \cup copy ELSE (Users(vm) \ {t}) \cup copy
  BY <1>1, <1>2, <1>4, <1>6, <1>7 DEF Users
<1>9. AtMostOne(copy, Users(vm))
  BY DEF Chosen, AtMostOne, Users
<1>10. Cardinality(Users(vm)') =
          Cardinality(Users(vm)) + Cardinality(copy) - (IF runs THEN 0 ELSE 1)
  <2>1. CASE runs
    BY <1>5, <1>8, <1>9, <2>1, UsersFinite, CardAdded
  <2>2. CASE ~runs
    <3>1. Cardinality((Users(vm) \ {t}) \cup copy)
            = Cardinality(Users(vm)) - 1 + Cardinality(copy)
      BY <1>6, <1>9, UsersFinite, CardReplaced
    <3>. QED
      BY <1>5, <1>8, <2>2, <3>1, UsersFinite
  <2>. QED
    BY <2>1, <2>2
<1>11. VmCounted(vm)'
  <2>1. VmCounted(vm) /\ vm_count[vm] \in Int
    BY <1>3, VmByRequest DEF TypeOK
  <2>2. vm_count'[vm] = vm_count[vm] + Cardinality(copy) - IF runs THEN 0 ELSE 1
    BY <1>3, <1>5 DEF TypeOK
  <2>. QED
    BY <1>5, <1>10, <2>1, <2>2, UsersFinite DEF VmCounted
<1>12. ASSUME NEW r \in Requests, r # vm PROVE VmCounted(r)'
  <2>1. Users(r)' = Users(r)
    <3>1. tctx[t].vm # r /\ \A u \in Timers \ (copy \cup {t}) : tctx'[u].vm = tctx[u].vm
      BY <1>4, <1>12, <1>a
    <3>. QED
      BY <1>1, <1>2, <1>4, <1>7, <1>12, <3>1 DEF Users
  <2>2. vm_count'[r] = vm_count[r]
    BY <1>3, <1>5, <1>12 DEF TypeOK
  <2>3. VmCounted(r)
    BY VmByRequest
  <2>. QED
    BY <2>1, <2>2, <2>3 DEF VmCounted
<1>13. \A r \in Requests : VmCounted(r)'
  BY <1>11, <1>12
<1>14. (\A r \in Requests : VmCounted(r))'
  BY <1>13
<1>. QED
  BY <1>14, VmByRequest, PTL

LEMMA StepVms ==
    "cleanup" \notin Failures /\ TypeOK /\ VmLivesAsLongAsUsed /\ [Next]_vars
      => VmLivesAsLongAsUsed'
<1>. SUFFICES ASSUME "cleanup" \notin Failures, TypeOK, VmLivesAsLongAsUsed,
                     [Next]_vars
              PROVE  VmLivesAsLongAsUsed'
  OBVIOUS
<1>. USE DEF counts
<1>a. ASSUME (\A r \in Requests : VmCounted(r))' PROVE VmLivesAsLongAsUsed'
  BY <1>a, VmByRequest, PTL
<1>b. \A r \in Requests : VmCounted(r) /\ vm_count[r] \in Int
  BY VmByRequest DEF TypeOK
<1>1. ASSUME NEW delay \in Delays, NEW every \in BOOLEAN, TimerAt(delay, every)
      PROVE  VmLivesAsLongAsUsed'
  <2>1. PICK t : Created(t, delay, every)
    BY <1>1 DEF TimerAt, Created
  <2>2. PICK vm : vm = vm_of(cpu)
    OBVIOUS
  <2>3. /\ cpu # NoOne /\ requests' = requests
        /\ vm_count' = [vm_count EXCEPT ![vm] = @ + 1]
    BY <1>1, <2>2 DEF TimerAt
  <2>4. vm \in Requests
    BY <2>2, <2>3, VmOfType
  <2>5. /\ t \in Timers /\ t \notin Pending \cup Running
        /\ Pending' = Pending \cup {t} /\ Running' = Running
    BY <2>1, CreatedSets
  <2>6. tctx'[t].vm = vm /\ \A u \in Timers \ {t} : tctx'[u].vm = tctx[u].vm
    <3>1. [Unset(vm) EXCEPT !.delay = delay, !.every = every].vm = vm
      BY DEF Unset
    <3>2. tctx' = [tctx EXCEPT ![t] = [Unset(vm) EXCEPT !.delay = delay, !.every = every]]
      BY <2>1, <2>2 DEF Created
    <3>. QED
      BY <2>5, <3>1, <3>2 DEF TypeOK
  <2>7. Pending \subseteq Timers /\ Running \subseteq Timers
    BY DEF Pending, Running
  <2>8. ASSUME NEW r \in Requests PROVE VmCounted(r)'
    <3>1. CASE r = vm
      <4>1. Users(r)' = Users(r) \cup {t} /\ t \notin Users(r)
        BY <2>5, <2>6, <2>7, <3>1 DEF Users
      <4>2. Cardinality(Users(r)') = Cardinality(Users(r)) + 1
        BY <4>1, UsersFinite, FS_AddElement
      <4>3. vm_count'[r] = vm_count[r] + 1
        BY <2>3, <2>4, <3>1 DEF TypeOK
      <4>. QED
        BY <1>b, <2>3, <4>2, <4>3, UsersFinite DEF VmCounted
    <3>2. CASE r # vm
      <4>1. Users(r)' = Users(r)
        BY <2>5, <2>6, <2>7, <3>2 DEF Users
      <4>2. vm_count'[r] = vm_count[r]
        BY <2>3, <2>4, <3>2 DEF TypeOK
      <4>. QED
        BY <1>b, <2>3, <4>1, <4>2 DEF VmCounted
    <3>. QED
      BY <3>1, <3>2
  <2>. QED
    BY <1>a, <2>8
<1>2. ASSUME NEW delay \in Delays, TimerAtNoMemory(delay) PROVE VmLivesAsLongAsUsed'
  BY <1>2 DEF TimerAtNoMemory, VmLivesAsLongAsUsed, Pending, Running
<1>3. ASSUME NEW t \in Timers, Expires(t) PROVE VmLivesAsLongAsUsed'
  <2>1. t \in Pending /\ Handler(t, FALSE) /\ requests' = requests
    BY <1>3 DEF Expires
  <2>. QED
    BY <2>1, HandlerChooses, HandledVms
<1>4. ASSUME NEW t \in Timers, AbortNext(t) PROVE VmLivesAsLongAsUsed'
  <2>1. t \in Pending /\ Handler(t, TRUE) /\ requests' = requests
    BY <1>4 DEF AbortNext, TypeOK, InTree, Pending
  <2>. QED
    BY <2>1, HandlerChooses, HandledVms
<1>5. ASSUME Yields PROVE VmLivesAsLongAsUsed'
  BY <1>5 DEF Yields, VmLivesAsLongAsUsed, Pending, Running
<1>6. ASSUME NEW x \in Requests \cup Timers, Resumes(x) PROVE VmLivesAsLongAsUsed'
  BY <1>6 DEF Resumes, VmLivesAsLongAsUsed, Pending, Running
<1>7. ASSUME RequestEnds PROVE VmLivesAsLongAsUsed'
  <2>1. /\ cpu \in requests /\ requests' = requests \ {cpu} /\ cpu \in Requests
        /\ vm_count' = [vm_count EXCEPT ![cpu] = @ - 1]
    BY <1>7 DEF RequestEnds, TypeOK
  <2>2. ASSUME NEW r \in Requests PROVE VmCounted(r)'
    <3>1. Users(r)' = Users(r)
      BY <1>7 DEF RequestEnds, Users, Pending, Running
    <3>2. vm_count'[r] = IF r = cpu THEN vm_count[r] - 1 ELSE vm_count[r]
      BY <2>1 DEF TypeOK
    <3>. QED
      BY <1>b, <2>1, <3>1, <3>2, UsersFinite DEF VmCounted
  <2>. QED
    BY <1>a, <2>2
<1>8. ASSUME CallbackEnds PROVE VmLivesAsLongAsUsed'
  <2>1. PICK t, vm : t = cpu /\ vm = tctx[cpu].vm
    OBVIOUS
  <2>2. /\ t \in Running /\ requests' = requests
        /\ vm_count' = [vm_count EXCEPT ![vm] = @ - 1]
        /\ tctx' = [tctx EXCEPT ![t] = Unset(AnyRequest)]
    BY <1>8, <2>1 DEF CallbackEnds
  <2>3. /\ t \in Timers /\ t \notin Pending
        /\ Pending' = Pending /\ Running' = Running \ {t}
    BY <1>8, <2>1, EndedSets
  <2>4. vm \in Requests
    BY <2>1, <2>3 DEF TypeOK
  <2>5. \A u \in Timers \ {t} : tctx'[u].vm = tctx[u].vm
    BY <2>2, <2>3 DEF TypeOK
  <2>6. Pending \subseteq Timers /\ Running \subseteq Timers
    BY DEF Pending, Running
  <2>7. ASSUME NEW r \in Requests PROVE VmCounted(r)'
    <3>1. Users(r)' = Users(r) \ {t}
      BY <2>3, <2>5, <2>6 DEF Users
    <3>2. t \in Users(r) <=> r = vm
      BY <2>1, <2>2 DEF Users
    <3>3. Cardinality(Users(r)') = Cardinality(Users(r)) - IF r = vm THEN 1 ELSE 0
      <4>1. /\ IsFiniteSet(Users(r)) /\ Cardinality(Users(r)) \in Nat
            /\ Cardinality(Users(r) \ {t}) = IF t \in Users(r) THEN Cardinality(Users(r)) - 1
                                             ELSE Cardinality(Users(r))
        BY UsersFinite, FS_RemoveElement
      <4>. QED
        BY <3>1, <3>2, <4>1
    <3>4. vm_count'[r] = vm_count[r] - IF r = vm THEN 1 ELSE 0
      BY <2>2, <2>4 DEF TypeOK
    <3>. QED
      BY <1>b, <2>2, <3>3, <3>4, UsersFinite DEF VmCounted
  <2>. QED
    BY <1>a, <2>7
<1>9. ASSUME Quit PROVE VmLivesAsLongAsUsed'
  BY <1>9 DEF Quit, VmLivesAsLongAsUsed, Pending, Running
<1>10. CASE UNCHANGED vars
  BY <1>10 DEF vars, VmLivesAsLongAsUsed, Pending, Running
<1>. QED
  BY <1>1, <1>2, <1>3, <1>4, <1>5, <1>6, <1>7, <1>8, <1>9, <1>10 DEF Next

\* A timer's pool and its reference to the virtual machine are given back once, on
\* every path, if a free connection and the memory of a cleanup are always there:
\* the two failures after which the code does not.
THEOREM LeaksSafe ==
    "connection" \notin Failures /\ "cleanup" \notin Failures => (Spec => []NothingLeaks)
<1>. SUFFICES ASSUME "connection" \notin Failures, "cleanup" \notin Failures
              PROVE  Spec => []NothingLeaks
  OBVIOUS
<1>1. Init => TypeOK /\ PoolsHaveOwners /\ VmLivesAsLongAsUsed
  BY InitType, InitPoolsVms
<1>2. TypeOK /\ PoolsHaveOwners /\ VmLivesAsLongAsUsed /\ [Next]_vars
        => (TypeOK /\ PoolsHaveOwners /\ VmLivesAsLongAsUsed)'
  BY StepType, StepPools, StepVms
<1>3. PoolsHaveOwners /\ VmLivesAsLongAsUsed => NothingLeaks
  BY DEF NothingLeaks
<1>. QED
  BY <1>1, <1>2, <1>3, PTL DEF Spec

\* The virtual machine of a request lives as long as it is used, also where no
\* connection is free.
THEOREM VmsSafe == "cleanup" \notin Failures => (Spec => []VmLivesAsLongAsUsed)
<1>. SUFFICES ASSUME "cleanup" \notin Failures PROVE Spec => []VmLivesAsLongAsUsed
  OBVIOUS
<1>1. Init => TypeOK /\ VmLivesAsLongAsUsed
  BY InitType, InitPoolsVms
<1>2. TypeOK /\ VmLivesAsLongAsUsed /\ [Next]_vars => (TypeOK /\ VmLivesAsLongAsUsed)'
  BY StepType, StepVms
<1>. QED
  BY <1>1, <1>2, PTL DEF Spec

----------------------------------------------------------------------------
(* Premature calls.  Before the worker exits, the tree has the timers with *)
(* a delay; after, the abort loop has yet to call exactly those: it has    *)
(* collected the whole tree (which takes the count of pending timers to be *)
(* right), and a timer created later has no delay.                         *)

ExitInv ==
    /\ ~ngx_exiting => /\ to_abort = {} /\ watcher # "freed"
                       /\ \A t \in InTree : tctx[t].delay > 0
    /\ ngx_exiting => \A t \in InTree : t \in to_abort <=> tctx[t].delay > 0
    /\ watcher = "none" => Pending = {}
    /\ \A t \in Pending : tctx[t].every => tctx[t].delay > 0

LEMMA InitExit == Init => ExitInv
BY DEF Init, ExitInv, Pending, InTree

\* The handler puts no timer in the tree that it should not.
LEMMA HandledExit ==
    ASSUME TypeOK, ExitInv, NEW t \in Pending, NEW premature, NEW copy, NEW outcome,
           Chosen(t, copy, outcome), Handled(t, premature, copy, outcome),
           to_abort' = to_abort \ {t}, UNCHANGED <<watcher, ngx_exiting>>
    PROVE  ExitInv'
<1>1. /\ Pending' = (Pending \ {t}) \cup copy /\ InTree' = (InTree \ {t}) \cup copy
  BY HandledSets
<1>2. /\ t \in Timers /\ copy \subseteq Timers /\ t \notin copy
      /\ Pending \subseteq Timers /\ InTree \subseteq Pending
  BY DEF Chosen, Unused, Pending, InTree
<1>3. \A u \in Timers \ {t} : tctx'[u] = IF u \in copy THEN tctx[t] ELSE tctx[u]
  BY DEF Handled
<1>4. copy # {} => ~ngx_exiting /\ tctx[t].every
  BY DEF Chosen, Recurs
<1>5. watcher' = "none" => Pending' = {}
  BY DEF ExitInv
<1>6. \A u \in Pending' : tctx'[u].every => tctx'[u].delay > 0
  BY <1>1, <1>2, <1>3 DEF ExitInv
<1>7. ASSUME ~ngx_exiting'
      PROVE  /\ to_abort' = {} /\ watcher' # "freed"
             /\ \A u \in InTree' : tctx'[u].delay > 0
  BY <1>1, <1>2, <1>3, <1>4, <1>7 DEF ExitInv
<1>8. ASSUME ngx_exiting', NEW u \in InTree'
      PROVE  u \in to_abort' <=> tctx'[u].delay > 0
  BY <1>1, <1>2, <1>3, <1>4, <1>8 DEF ExitInv
<1>. QED
  BY <1>5, <1>6, <1>7, <1>8 DEF ExitInv

\* The traversal of the tree finds every timer in it.
LEMMA AllCollected ==
    ASSUME TypeOK, CountsWithinLimits, NEW S \in Collected
    PROVE  S = InTree
<1>1. S \subseteq InTree /\ InTree \subseteq Pending
  BY DEF Collected, InTree, Pending
<1>2. CASE Cardinality(S) = pending_timers
  <2>1. Cardinality(S) = Cardinality(Pending) /\ S \in SUBSET Pending
    BY <1>1, <1>2 DEF CountsWithinLimits
  <2>2. S = Pending
    BY <2>1, Finite, FS_Subset
  <2>. QED
    BY <1>1, <2>2
<1>. QED
  BY <1>2 DEF Collected

LEMMA StepExit ==
    TypeOK /\ CountsWithinLimits /\ ExitInv /\ [Next]_vars => ExitInv'
<1>. SUFFICES ASSUME TypeOK, CountsWithinLimits, ExitInv, [Next]_vars PROVE ExitInv'
  OBVIOUS
<1>. USE DEF counts
<1>1. ASSUME NEW delay \in Delays, NEW every \in BOOLEAN, TimerAt(delay, every)
      PROVE  ExitInv'
  <2>1. PICK t : Created(t, delay, every)
    BY <1>1 DEF TimerAt, Created
  <2>2. /\ every => delay > 0
        /\ ~(ngx_exiting /\ delay > 0)
        /\ watcher' = IF watcher = "none" THEN "open" ELSE watcher
        /\ UNCHANGED <<ngx_exiting, to_abort>>
    BY <1>1 DEF TimerAt, MayCreate, Watch
  <2>3. /\ t \in Timers /\ t \notin Pending
        /\ Pending' = Pending \cup {t}
        /\ InTree' = IF delay = 0 /\ ~ngx_exiting THEN InTree ELSE InTree \cup {t}
    BY <2>1, CreatedSets
  <2>4. /\ tctx'[t].delay = delay /\ tctx'[t].every = every
        /\ \A u \in Timers \ {t} : tctx'[u] = tctx[u]
    <3>1. PICK c : c = [Unset(vm_of(cpu)) EXCEPT !.delay = delay, !.every = every]
      OBVIOUS
    <3>2. c.delay = delay /\ c.every = every
      BY <3>1 DEF Unset
    <3>3. tctx' = [tctx EXCEPT ![t] = c]
      BY <2>1, <3>1 DEF Created
    <3>. QED
      BY <2>3, <3>2, <3>3 DEF TypeOK
  <2>5. /\ Pending \subseteq Timers /\ InTree \subseteq Pending /\ to_abort \subseteq InTree
    BY DEF Pending, InTree, TypeOK
  <2>6. watcher' # "none" /\ (~ngx_exiting => watcher' # "freed")
    BY <2>2 DEF ExitInv
  <2>7. \A u \in Pending' : tctx'[u].every => tctx'[u].delay > 0
    BY <2>2, <2>3, <2>4, <2>5 DEF ExitInv
  <2>8. ~ngx_exiting => to_abort' = {} /\ \A u \in InTree' : tctx'[u].delay > 0
    BY <2>2, <2>3, <2>4, <2>5 DEF ExitInv, Delays
  <2>9. ngx_exiting => \A u \in InTree' : u \in to_abort' <=> tctx'[u].delay > 0
    BY <2>2, <2>3, <2>4, <2>5 DEF ExitInv, Delays
  <2>. QED
    BY <2>2, <2>6, <2>7, <2>8, <2>9 DEF ExitInv
<1>2. ASSUME NEW delay \in Delays, TimerAtNoMemory(delay) PROVE ExitInv'
  BY <1>2 DEF TimerAtNoMemory, ExitInv, Watch, Pending, InTree
<1>3. ASSUME NEW t \in Timers, Expires(t) PROVE ExitInv'
  <2>1. /\ t \in Pending /\ Handler(t, FALSE) /\ to_abort' = to_abort \ {t}
        /\ UNCHANGED <<watcher, ngx_exiting>>
    BY <1>3 DEF Expires, LoopTurns
  <2>. QED
    BY <2>1, HandlerChooses, HandledExit
<1>4. ASSUME NEW t \in Timers, AbortNext(t) PROVE ExitInv'
  <2>1. /\ t \in Pending /\ Handler(t, TRUE) /\ to_abort' = to_abort \ {t}
        /\ UNCHANGED <<watcher, ngx_exiting>>
    BY <1>4 DEF AbortNext, TypeOK, InTree, Pending
  <2>. QED
    BY <2>1, HandlerChooses, HandledExit
<1>5. ASSUME Yields PROVE ExitInv'
  BY <1>5 DEF Yields, ExitInv, Pending, InTree
<1>6. ASSUME NEW x \in Requests \cup Timers, Resumes(x) PROVE ExitInv'
  BY <1>6 DEF Resumes, ExitInv, Pending, InTree
<1>7. ASSUME RequestEnds PROVE ExitInv'
  BY <1>7 DEF RequestEnds, ExitInv, Pending, InTree
<1>8. ASSUME CallbackEnds PROVE ExitInv'
  <2>1. /\ cpu \in Timers /\ cpu \notin Pending
        /\ Pending' = Pending /\ InTree' = InTree
    BY <1>8, EndedSets
  <2>2. \A u \in Pending : tctx'[u] = tctx[u]
    BY <1>8, <2>1 DEF CallbackEnds, TypeOK, Pending
  <2>3. InTree \subseteq Pending
    BY DEF Pending, InTree
  <2>. QED
    BY <1>8, <2>1, <2>2, <2>3 DEF CallbackEnds, ExitInv
<1>9. ASSUME Quit PROVE ExitInv'
  <2>1. /\ ~ngx_exiting /\ ngx_exiting' /\ Pending' = Pending /\ InTree' = InTree
        /\ tctx' = tctx
        /\ watcher' = IF watcher = "open" THEN "freed" ELSE watcher
        /\ to_abort' \in IF watcher = "open" THEN Collected ELSE {{}}
    BY <1>9 DEF Quit, Pending, InTree
  <2>2. to_abort' = InTree
    <3>1. CASE watcher = "open"
      BY <2>1, <3>1, AllCollected
    <3>2. CASE watcher # "open"
      BY <2>1, <3>2 DEF ExitInv, TypeOK, InTree, Pending
    <3>. QED
      BY <3>1, <3>2
  <2>. QED
    BY <2>1, <2>2 DEF ExitInv
<1>10. CASE UNCHANGED vars
  BY <1>10 DEF vars, ExitInv, Pending, InTree
<1>. QED
  BY <1>1, <1>2, <1>3, <1>4, <1>5, <1>6, <1>7, <1>8, <1>9, <1>10 DEF Next

\* A callback is premature if and only if the worker exits and its delay had not
\* passed, whatever is created while the worker exits.
THEOREM PrematureSafe == Spec => PrematureIffNotExpired
<1>. DEFINE A == \A t \in Timers :
                   where[t] = "tree" /\ where'[t] = "running" =>
                     (tctx'[t].premature <=> ngx_exiting /\ tctx[t].delay > 0)
<1>1. Init => TypeOK /\ CountsWithinLimits /\ ExitInv
  BY InitType, InitCounts, InitExit
<1>2. TypeOK /\ CountsWithinLimits /\ ExitInv /\ [Next]_vars
        => (TypeOK /\ CountsWithinLimits /\ ExitInv)'
  BY StepType, StepCounts, StepExit
<1>3. TypeOK /\ ExitInv /\ [Next]_vars => [A]_vars
  <2>. SUFFICES ASSUME TypeOK, ExitInv, Next, NEW t \in Timers,
                       where[t] = "tree", where'[t] = "running"
                PROVE  tctx'[t].premature <=> ngx_exiting /\ tctx[t].delay > 0
    OBVIOUS
  <2>1. tctx[t] \in Tctx /\ t \in InTree /\ t \in Pending
    BY DEF TypeOK, Tctx, InTree, Pending
  <2>2. ASSUME NEW u \in Pending, NEW premature \in BOOLEAN, Handler(u, premature)
        PROVE  u = t /\ tctx'[t].premature = premature
    <3>1. PICK copy, outcome : Chosen(u, copy, outcome) /\ Handled(u, premature, copy, outcome)
      BY <2>2, HandlerChooses
    <3>2. u = t /\ outcome = "runs"
      BY <3>1 DEF Handled
    <3>3. tctx'[t] = [tctx[t] EXCEPT !.premature = premature]
      BY <3>1, <3>2 DEF Handled
    <3>. QED
      BY <2>1, <3>2, <3>3 DEF Tctx
  <2>3. CASE \E u \in Timers : Expires(u)
    <3>1. PICK u \in Pending : Handler(u, FALSE) /\ to_abort = {}
      BY <2>3 DEF Expires, LoopTurns
    <3>2. tctx'[t].premature = FALSE
      BY <2>2, <3>1
    <3>3. ~(ngx_exiting /\ tctx[t].delay > 0)
      BY <2>1, <3>1 DEF ExitInv
    <3>. QED
      BY <3>2, <3>3
  <2>4. CASE \E u \in Timers : AbortNext(u)
    <3>1. PICK u \in to_abort : Handler(u, TRUE)
      BY <2>4 DEF AbortNext
    <3>2. u \in Pending
      BY <3>1 DEF TypeOK, InTree, Pending
    <3>3. u = t /\ tctx'[t].premature = TRUE
      BY <2>2, <3>1, <3>2
    <3>4. ngx_exiting /\ tctx[t].delay > 0
      BY <2>1, <3>1, <3>3 DEF ExitInv
    <3>. QED
      BY <3>3, <3>4
  <2>5. where' # where
    OBVIOUS
  <2>6. CASE \E delay \in Delays, every \in BOOLEAN : TimerAt(delay, every)
    <3>1. PICK u, delay, every : Created(u, delay, every)
      BY <2>6 DEF TimerAt, Created
    <3>. QED
      BY <3>1 DEF Created, TypeOK, Unused
  <2>7. CASE CallbackEnds
    BY <2>7 DEF CallbackEnds, TypeOK
  <2>. QED
    BY <2>3, <2>4, <2>5, <2>6, <2>7
       DEF Next, TimerAtNoMemory, Yields, Resumes, RequestEnds, Quit
<1>. QED
  BY <1>1, <1>2, <1>3, PTL DEF Spec, PrematureIffNotExpired

=============================================================================
