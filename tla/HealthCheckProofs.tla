------------------------- MODULE HealthCheckProofs -------------------------
(***************************************************************************)
(* Proofs about HealthCheck, for any sets of workers and peers, any Fall   *)
(* and Rise, a lock that may expire at any time and workers that may die   *)
(* at any point.                                                           *)
(***************************************************************************)
EXTENDS HealthCheck, TLAPS

----------------------------------------------------------------------------
(* Counters that stop at Limit, and may be absent.                         *)

LEMMA LimitBounds == Limit \in Nat /\ Limit >= Fall /\ Limit >= Rise /\ Limit >= 2
<1> DEFINE S == {Fall, Rise, 2}
<1>1. \E x \in S : \A y \in S : x >= y
  BY FallRiseAssumption
<1>2. Max(S) \in S /\ \A y \in S : Max(S) >= y
  BY <1>1 DEF Max
<1>. QED
  BY <1>2, FallRiseAssumption DEF Limit

LEMMA IncrBounds ==
    ASSUME NEW n \in 0..Limit
    PROVE  /\ Incr(n) \in 1..Limit
           /\ Incr(n) = 1 <=> n = 0
           /\ \A m \in 0..Limit : n <= m => Incr(n) <= Incr(m)
BY LimitBounds DEF Incr

\* A counter that is absent counts nothing.
Value(n) == IF n = Absent THEN 0 ELSE n

LEMMA ValueBounds ==
    ASSUME NEW n \in Absent..Limit
    PROVE  Value(n) \in 0..Limit
BY LimitBounds DEF Value, Absent

LEMMA ResultsBounds ==
    ASSUME NEW ctx \in Ctx
    PROVE  /\ Results(ctx) = Incr(Value(ctx.read))
           /\ Results(ctx) \in 1..Limit
           /\ Counted(ctx, ctx.read) = Results(ctx)
           /\ \A n \in Absent..Limit :
                 ctx.read # Absent => Incr(n) \in Absent..Limit
<1>1. ctx.read \in Absent..Limit
  BY DEF Ctx
<1>2. Value(ctx.read) \in 0..Limit
  BY <1>1, ValueBounds
<1>3. Results(ctx) = Incr(Value(ctx.read))
  BY <1>1, LimitBounds DEF Results, Value, Incr, Absent
<1>4. Results(ctx) \in 1..Limit
  BY <1>2, <1>3, IncrBounds
<1>5. \A n \in Absent..Limit : Incr(n) \in Absent..Limit
  BY LimitBounds DEF Incr, Absent
<1>. QED
  BY <1>3, <1>4, <1>5 DEF Counted, Results

----------------------------------------------------------------------------
(* What each action makes of the context of the worker that takes it.      *)

Moves(w, c) == /\ worker[w] \in Ctx /\ c \in Ctx
               /\ worker' \in [Workers -> Ctx]
               /\ worker'[w] = c
               /\ \A v \in Workers \ {w} : worker'[v] = worker[v]

\* The part of the context that outlives a cycle stays.
Keeps(c, d) ==
  c.version = d.version /\ c.new_version = d.new_version /\ c.down = d.down

SameResult(c, d) == c.peer = d.peer /\ c.failed = d.failed /\ c.read = d.read

LEMMA OneMoves ==
    ASSUME TypeOK, NEW w \in Workers, NEW c \in Ctx,
           worker' = [worker EXCEPT ![w] = c]
    PROVE  Moves(w, c)
BY DEF TypeOK, Moves

LEMMA NewCtxTyped == NewCtx \in Ctx /\ FitsCycle(NewCtx, 0)
BY LimitBounds DEF NewCtx, Ctx, PCs, CheckPCs, FitsCycle, Absent

LEMMA BeginCycleMoves ==
    ASSUME TypeOK, NEW w \in Workers, BeginCycle(w)
    PROVE  \E c \in Ctx :
             /\ Moves(w, c) /\ FitsCycle(c, ver) /\ Keeps(c, worker[w])
             /\ \/ worker[w].version < ver /\ c.pc = "upgrade"
                   /\ c.todo = Peers /\ c.seen = ver
                \/ c.pc = "lock"
<1> DEFINE c == [worker[w] EXCEPT !.pc = IF Newer(w) THEN "upgrade" ELSE "lock",
                    !.todo = IF Newer(w) THEN Peers ELSE {},
                    !.seen = IF Newer(w) THEN ver ELSE 0]
<1>1. worker' = [worker EXCEPT ![w] = c]
  BY DEF BeginCycle
<1>2. worker[w] \in Ctx /\ FitsCycle(worker[w], ver) /\ ver \in Nat
  BY DEF TypeOK
<1>3. c \in Ctx
  BY <1>2 DEF Ctx, PCs
<1>4. FitsCycle(c, ver) /\ Keeps(c, worker[w])
  BY <1>2 DEF Ctx, FitsCycle, Keeps
<1>5. \/ worker[w].version < ver /\ c.pc = "upgrade" /\ c.todo = Peers /\ c.seen = ver
      \/ c.pc = "lock"
  BY <1>2 DEF Ctx, Newer
<1>. HIDE DEF c
<1>. QED
  BY <1>1, <1>3, <1>4, <1>5, OneMoves

LEMMA UpgradePeerMoves ==
    ASSUME TypeOK, NEW w \in Workers, UpgradePeer(w)
    PROVE  \E p \in worker[w].todo, c \in Ctx :
             /\ Moves(w, c) /\ FitsCycle(c, ver) /\ p \in Peers
             /\ c.pc = "upgrade" /\ worker[w].pc = "upgrade"
             /\ c.version = worker[w].version /\ c.seen = worker[w].seen
             /\ c.todo = worker[w].todo \ {p}
             /\ \A q \in Peers : q \in c.down <=>
                   IF q = p THEN q \in isDown ELSE q \in worker[w].down
<1>1. PICK p \in worker[w].todo : worker' = [worker EXCEPT ![w] = Upgraded(@, p)]
  BY DEF UpgradePeer
<1> DEFINE c == Upgraded(worker[w], p)
<1>2. worker' = [worker EXCEPT ![w] = c]
  BY <1>1
<1>3. worker[w] \in Ctx /\ FitsCycle(worker[w], ver) /\ worker[w].pc = "upgrade"
  BY DEF TypeOK, UpgradePeer
<1>4. p \in Peers
  BY <1>3 DEF Ctx
<1>5. c \in Ctx
  BY <1>3, <1>4 DEF Ctx, Upgraded
<1>6. /\ c.pc = "upgrade" /\ c.version = worker[w].version
      /\ c.seen = worker[w].seen /\ c.todo = worker[w].todo \ {p}
      /\ c.down = IF p \in isDown THEN worker[w].down \cup {p}
                                  ELSE worker[w].down \ {p}
  BY <1>3 DEF Ctx, Upgraded
<1>. HIDE DEF c
<1>7. FitsCycle(c, ver)
  BY <1>3, <1>6 DEF FitsCycle
<1>8. \A q \in Peers : q \in c.down <=>
         IF q = p THEN q \in isDown ELSE q \in worker[w].down
  BY <1>6
<1>. QED
  BY <1>2, <1>3, <1>4, <1>5, <1>6, <1>7, <1>8, OneMoves

LEMMA UpgradeDoneMoves ==
    ASSUME TypeOK, NEW w \in Workers, UpgradeDone(w)
    PROVE  \E c \in Ctx :
             /\ Moves(w, c) /\ FitsCycle(c, ver)
             /\ c.pc = "lock" /\ worker[w].pc = "upgrade" /\ worker[w].todo = {}
             /\ c.version = worker[w].seen /\ c.down = worker[w].down
<1> DEFINE c == [worker[w] EXCEPT !.pc = "lock", !.version = worker[w].seen,
                                  !.seen = 0]
<1>1. worker' = [worker EXCEPT ![w] = c]
  BY DEF UpgradeDone
<1>2. /\ worker[w] \in Ctx /\ FitsCycle(worker[w], ver) /\ ver \in Nat
      /\ worker[w].pc = "upgrade" /\ worker[w].todo = {}
  BY DEF TypeOK, UpgradeDone
<1>3. c \in Ctx
  BY <1>2 DEF Ctx, PCs
<1>4. /\ FitsCycle(c, ver) /\ c.pc = "lock"
      /\ c.version = worker[w].seen /\ c.down = worker[w].down
  BY <1>2 DEF Ctx, FitsCycle
<1>. HIDE DEF c
<1>. QED
  BY <1>1, <1>2, <1>3, <1>4, OneMoves

LEMMA GetLockMoves ==
    ASSUME TypeOK, NEW w \in Workers, GetLock(w)
    PROVE  \E c \in Ctx :
             /\ Moves(w, c) /\ FitsCycle(c, ver) /\ Keeps(c, worker[w])
             /\ c.pc = IF locked THEN "publish" ELSE "check"
<1> DEFINE c == [worker[w] EXCEPT !.pc = IF locked THEN "publish" ELSE "check",
                                  !.todo = IF locked THEN {} ELSE Peers]
<1>1. worker' = [worker EXCEPT ![w] = c]
  BY DEF GetLock
<1>2. worker[w] \in Ctx /\ FitsCycle(worker[w], ver)
  BY DEF TypeOK
<1>3. c \in Ctx
  BY <1>2 DEF Ctx, PCs, CheckPCs
<1>4. /\ FitsCycle(c, ver) /\ Keeps(c, worker[w])
      /\ c.pc = IF locked THEN "publish" ELSE "check"
  BY <1>2 DEF Ctx, FitsCycle, Keeps, CheckPCs
<1>. HIDE DEF c
<1>. QED
  BY <1>1, <1>3, <1>4, OneMoves

\* Which counter of p a result goes to, and the run of results it continues.
Own(p, failed) == IF failed THEN nok[p] ELSE ok[p]
Other(p, failed) == IF failed THEN ok[p] ELSE nok[p]
Run(p, failed) == IF streak[p].failed = failed THEN streak[p].length ELSE 0

LEMMA CheckPeerMoves ==
    ASSUME TypeOK, NEW w \in Workers, CheckPeer(w)
    PROVE  \E p \in Peers, failed \in BOOLEAN, c \in Ctx :
             /\ Moves(w, c) /\ FitsCycle(c, ver) /\ Keeps(c, worker[w])
             /\ c.pc = "count" /\ worker[w].pc = "check"
             /\ c.peer = p /\ c.failed = failed /\ c.read = Own(p, failed)
             /\ Own(p, failed) \in Absent..Limit /\ Run(p, failed) \in 0..Limit
             /\ streak' = [streak EXCEPT ![p] =
                             [failed |-> failed, length |-> Incr(Run(p, failed))]]
<1>1. PICK p \in worker[w].todo, failed \in BOOLEAN :
         /\ worker' = [worker EXCEPT ![w] =
                         Counting(worker[w], p, failed, Own(p, failed))]
         /\ streak' = [streak EXCEPT ![p] =
                         [failed |-> failed, length |-> Incr(Run(p, failed))]]
  BY DEF CheckPeer, Own, Run
<1> DEFINE c == Counting(worker[w], p, failed, Own(p, failed))
<1>2. worker[w] \in Ctx /\ FitsCycle(worker[w], ver) /\ worker[w].pc = "check"
  BY DEF TypeOK, CheckPeer
<1>3. p \in Peers
  BY <1>2 DEF Ctx
<1>4. Own(p, failed) \in Absent..Limit /\ Run(p, failed) \in 0..Limit
  BY <1>3, LimitBounds DEF TypeOK, Own, Run
<1>5. /\ c.pc = "count" /\ c.peer = p /\ c.failed = failed
      /\ c.read = Own(p, failed) /\ Keeps(c, worker[w])
      /\ c.seen = worker[w].seen
  BY <1>2 DEF Ctx, Counting, Keeps
<1>6. c \in Ctx
  BY <1>2, <1>3, <1>4 DEF Ctx, PCs, CheckPCs, Counting
<1>. HIDE DEF c
<1>7. FitsCycle(c, ver)
  BY <1>2, <1>3, <1>5 DEF FitsCycle, Keeps, CheckPCs
<1>8. Moves(w, c)
  <2>. worker' = [worker EXCEPT ![w] = c]
    BY <1>1 DEF c
  <2>. QED
    BY <1>6, OneMoves
<1>. QED
  BY <1>1, <1>2, <1>3, <1>4, <1>5, <1>6, <1>7, <1>8

LEMMA SkipPeerMoves ==
    ASSUME TypeOK, NEW w \in Workers, SkipPeer(w)
    PROVE  \E c \in Ctx :
             /\ Moves(w, c) /\ FitsCycle(c, ver) /\ Keeps(c, worker[w])
             /\ c.pc = "check" /\ worker[w].pc = "check"
<1>1. PICK p \in worker[w].todo : worker' = [worker EXCEPT ![w].todo = @ \ {p}]
  BY DEF SkipPeer
<1> DEFINE c == [worker[w] EXCEPT !.todo = @ \ {p}]
<1>2. worker' = [worker EXCEPT ![w] = c]
  BY <1>1
<1>3. worker[w] \in Ctx /\ FitsCycle(worker[w], ver) /\ worker[w].pc = "check"
  BY DEF TypeOK, SkipPeer
<1>4. c \in Ctx /\ FitsCycle(c, ver) /\ Keeps(c, worker[w]) /\ c.pc = "check"
  BY <1>3 DEF Ctx, FitsCycle, Keeps, CheckPCs
<1>. HIDE DEF c
<1>. QED
  BY <1>2, <1>3, <1>4, OneMoves

LEMMA CountMoves ==
    ASSUME TypeOK, NEW w \in Workers, Count(w)
    PROVE  \E c \in Ctx :
             /\ Moves(w, c) /\ FitsCycle(c, ver) /\ Keeps(c, worker[w])
             /\ c.pc = IF Results(worker[w]) = 1 THEN "reset" ELSE "turn"
             /\ worker[w].pc = "count" /\ SameResult(c, worker[w])
<1> DEFINE c == [worker[w] EXCEPT !.pc = IF Results(worker[w]) = 1 THEN "reset"
                                         ELSE "turn"]
<1>1. worker' = [worker EXCEPT ![w] = c]
  BY DEF Count
<1>2. worker[w] \in Ctx /\ FitsCycle(worker[w], ver) /\ worker[w].pc = "count"
  BY DEF TypeOK, Count
<1>3. c \in Ctx
  BY <1>2 DEF Ctx, PCs, CheckPCs
<1>4. /\ FitsCycle(c, ver) /\ Keeps(c, worker[w])
      /\ c.pc = IF Results(worker[w]) = 1 THEN "reset" ELSE "turn"
      /\ SameResult(c, worker[w])
  BY <1>2 DEF Ctx, FitsCycle, Keeps, CheckPCs, SameResult
<1>. HIDE DEF c
<1>. QED
  BY <1>1, <1>2, <1>3, <1>4, OneMoves

LEMMA ResetMoves ==
    ASSUME TypeOK, NEW w \in Workers, Reset(w)
    PROVE  \E c \in Ctx :
             /\ Moves(w, c) /\ FitsCycle(c, ver) /\ Keeps(c, worker[w])
             /\ c.pc = "turn" /\ worker[w].pc = "reset"
             /\ SameResult(c, worker[w])
<1> DEFINE c == [worker[w] EXCEPT !.pc = "turn"]
<1>1. worker' = [worker EXCEPT ![w] = c]
  BY DEF Reset
<1>2. worker[w] \in Ctx /\ FitsCycle(worker[w], ver) /\ worker[w].pc = "reset"
  BY DEF TypeOK, Reset
<1>3. c \in Ctx
  BY <1>2 DEF Ctx, PCs, CheckPCs
<1>4. /\ FitsCycle(c, ver) /\ Keeps(c, worker[w])
      /\ c.pc = "turn" /\ SameResult(c, worker[w])
  BY <1>2 DEF Ctx, FitsCycle, Keeps, CheckPCs, SameResult
<1>. HIDE DEF c
<1>. QED
  BY <1>1, <1>2, <1>3, <1>4, OneMoves

\* Turn records a state of its peer and keeps it, or changes neither.
LEMMA TurnMoves ==
    ASSUME TypeOK, NEW w \in Workers, Turn(w)
    PROVE  \E p \in Peers, c \in Ctx :
             /\ Moves(w, c) /\ FitsCycle(c, ver)
             /\ c.pc = "check" /\ worker[w].pc = "turn" /\ p = worker[w].peer
             /\ c.version = worker[w].version
             /\ \/ /\ author' = [author EXCEPT ![p] = w] /\ isDown' \subseteq Peers
                   /\ p \in c.down <=> p \in isDown'
                   /\ \A q \in Peers \ {p} : /\ q \in c.down <=> q \in worker[w].down
                                             /\ q \in isDown' <=> q \in isDown
                   /\ \/ TurnsDown(worker[w]) /\ isDown' = isDown \cup {p}
                      \/ TurnsUp(worker[w]) /\ isDown' = isDown \ {p}
                \/ author' = author /\ isDown' = isDown /\ Keeps(c, worker[w])
<1> DEFINE ctx == worker[w]
           p == ctx.peer
<1>1. /\ ctx \in Ctx /\ FitsCycle(ctx, ver) /\ ctx.pc = "turn" /\ p \in Peers
      /\ isDown \subseteq Peers
  BY DEF TypeOK, Turn, FitsCycle
<1>2. ctx.down \subseteq Peers /\ ctx.new_version \in BOOLEAN
  BY <1>1 DEF Ctx
<1>3. ASSUME NEW down \in SUBSET Peers, NEW new \in BOOLEAN,
             worker' = [worker EXCEPT ![w] = Turned(ctx, down, new)]
      PROVE  \E c \in Ctx :
               /\ Moves(w, c) /\ FitsCycle(c, ver) /\ c.pc = "check"
               /\ c.version = ctx.version /\ c.down = down /\ c.new_version = new
  <2> DEFINE c == Turned(ctx, down, new)
  <2>1. /\ c.pc = "check" /\ c.version = ctx.version /\ c.seen = ctx.seen
        /\ c.down = down /\ c.new_version = new
    BY <1>1 DEF Ctx, Turned
  <2>a. Absent \in Absent..Limit
    BY LimitBounds DEF Absent
  <2>2. c \in Ctx
    BY <1>1, <1>3, <2>a DEF Ctx, PCs, CheckPCs, Turned
  <2>. HIDE DEF c
  <2>3. FitsCycle(c, ver)
    BY <1>1, <2>1 DEF FitsCycle, CheckPCs
  <2>4. worker' = [worker EXCEPT ![w] = c]
    BY <1>3 DEF c
  <2>. QED
    BY <2>1, <2>2, <2>3, <2>4, OneMoves
<1>4. CASE TurnsDown(ctx)
  <2>1. ~TurnsUp(ctx)
    BY <1>4 DEF TurnsUp, TurnsDown
  <2>2. /\ worker' = [worker EXCEPT ![w] = Turned(ctx, ctx.down \cup {p}, TRUE)]
        /\ isDown' = isDown \cup {p} /\ author' = [author EXCEPT ![p] = w]
    BY <1>4, <2>1 DEF Turn
  <2>3. ctx.down \cup {p} \in SUBSET Peers
    BY <1>1, <1>2
  <2>4. PICK c \in Ctx :
          /\ Moves(w, c) /\ FitsCycle(c, ver) /\ c.pc = "check"
          /\ c.version = ctx.version /\ c.down = ctx.down \cup {p}
    BY <1>3, <2>2, <2>3
  <2>. QED
    BY <1>1, <1>4, <2>2, <2>4
<1>5. CASE TurnsUp(ctx)
  <2>1. ~TurnsDown(ctx)
    BY <1>5 DEF TurnsUp, TurnsDown
  <2>2. /\ worker' = [worker EXCEPT ![w] = Turned(ctx, ctx.down \ {p}, TRUE)]
        /\ isDown' = isDown \ {p} /\ author' = [author EXCEPT ![p] = w]
    BY <1>5, <2>1 DEF Turn
  <2>3. ctx.down \ {p} \in SUBSET Peers
    BY <1>1, <1>2
  <2>4. PICK c \in Ctx :
          /\ Moves(w, c) /\ FitsCycle(c, ver) /\ c.pc = "check"
          /\ c.version = ctx.version /\ c.down = ctx.down \ {p}
    BY <1>3, <2>2, <2>3
  <2>. QED
    BY <1>1, <1>5, <2>2, <2>4
<1>6. CASE ~TurnsDown(ctx) /\ ~TurnsUp(ctx)
  <2>1. /\ worker' = [worker EXCEPT ![w] = Turned(ctx, ctx.down, ctx.new_version)]
        /\ isDown' = isDown /\ author' = author
    BY <1>6 DEF Turn
  <2>2. PICK c \in Ctx :
          /\ Moves(w, c) /\ FitsCycle(c, ver) /\ c.pc = "check"
          /\ c.version = ctx.version /\ c.down = ctx.down
          /\ c.new_version = ctx.new_version
    BY <1>2, <1>3, <2>1
  <2>. QED
    BY <1>1, <2>1, <2>2 DEF Keeps
<1>. QED
  BY <1>4, <1>5, <1>6

LEMMA ChecksDoneMoves ==
    ASSUME TypeOK, NEW w \in Workers, ChecksDone(w)
    PROVE  \E c \in Ctx :
             /\ Moves(w, c) /\ FitsCycle(c, ver) /\ Keeps(c, worker[w])
             /\ c.pc = "publish" /\ worker[w].pc = "check"
<1> DEFINE c == [worker[w] EXCEPT !.pc = "publish"]
<1>1. worker' = [worker EXCEPT ![w] = c]
  BY DEF ChecksDone
<1>2. /\ worker[w] \in Ctx /\ FitsCycle(worker[w], ver)
      /\ worker[w].pc = "check" /\ worker[w].todo = {}
  BY DEF TypeOK, ChecksDone
<1>3. c \in Ctx /\ FitsCycle(c, ver) /\ Keeps(c, worker[w]) /\ c.pc = "publish"
  BY <1>2 DEF Ctx, PCs, FitsCycle, Keeps
<1>. HIDE DEF c
<1>. QED
  BY <1>1, <1>2, <1>3, OneMoves

LEMMA PublishMoves ==
    ASSUME TypeOK, NEW w \in Workers, Publish(w)
    PROVE  \E c \in Ctx :
             /\ Moves(w, c) /\ FitsCycle(c, ver + 1)
             /\ c.pc = "idle" /\ worker[w].pc = "publish"
             /\ c.version = ver + 1 /\ c.down = worker[w].down
<1> DEFINE c == [worker[w] EXCEPT !.version = ver + 1, !.new_version = FALSE,
                                  !.pc = "idle"]
<1>1. worker' = [worker EXCEPT ![w] = c]
  BY DEF Publish
<1>2. /\ worker[w] \in Ctx /\ FitsCycle(worker[w], ver) /\ ver \in Nat
      /\ worker[w].pc = "publish"
  BY DEF TypeOK, Publish
<1>a. ver + 1 \in Nat
  BY <1>2
<1>3. c \in Ctx
  BY <1>2, <1>a DEF Ctx, PCs
<1>4. /\ c.pc = "idle" /\ c.version = ver + 1 /\ c.down = worker[w].down
      /\ c.todo = worker[w].todo /\ c.seen = worker[w].seen
  BY <1>2 DEF Ctx
<1>5. worker[w].seen \in Nat /\ worker[w].todo = {}
  BY <1>2 DEF Ctx, FitsCycle, CheckPCs
<1>. HIDE DEF c
<1>6. FitsCycle(c, ver + 1)
  BY <1>2, <1>4, <1>5 DEF FitsCycle
<1>. QED
  BY <1>1, <1>2, <1>3, <1>4, <1>6, OneMoves

LEMMA NothingToPublishMoves ==
    ASSUME TypeOK, NEW w \in Workers, NothingToPublish(w)
    PROVE  \E c \in Ctx :
             /\ Moves(w, c) /\ FitsCycle(c, ver) /\ Keeps(c, worker[w])
             /\ c.pc = "idle" /\ worker[w].pc = "publish"
<1> DEFINE c == [worker[w] EXCEPT !.pc = "idle"]
<1>1. worker' = [worker EXCEPT ![w] = c]
  BY DEF NothingToPublish
<1>2. worker[w] \in Ctx /\ FitsCycle(worker[w], ver) /\ worker[w].pc = "publish"
  BY DEF TypeOK, NothingToPublish
<1>3. c \in Ctx /\ FitsCycle(c, ver) /\ Keeps(c, worker[w]) /\ c.pc = "idle"
  BY <1>2 DEF Ctx, PCs, FitsCycle, Keeps, CheckPCs
<1>. HIDE DEF c
<1>. QED
  BY <1>1, <1>2, <1>3, OneMoves

LEMMA RespawnMoves ==
    ASSUME TypeOK, NEW w \in Workers, Respawn(w)
    PROVE  \E c \in Ctx :
             /\ Moves(w, c) /\ FitsCycle(c, ver)
             /\ c.pc = "idle" /\ c.version = 0 /\ c.down = {}
<1>1. worker' = [worker EXCEPT ![w] = NewCtx]
  BY DEF Respawn
<1>2. /\ NewCtx.pc = "idle" /\ NewCtx.version = 0 /\ NewCtx.down = {}
      /\ NewCtx.seen = 0 /\ NewCtx.todo = {}
  BY DEF NewCtx
<1>. HIDE DEF NewCtx
<1>3. FitsCycle(NewCtx, ver)
  BY <1>2 DEF FitsCycle, TypeOK
<1>. QED
  BY <1>1, <1>2, <1>3, NewCtxTyped, OneMoves

----------------------------------------------------------------------------
(* Types.                                                                  *)

LEMMA InitTyped == Init => TypeOK
<1>. SUFFICES ASSUME Init PROVE TypeOK
  OBVIOUS
<1>1. worker \in [Workers -> Ctx] /\ \A w \in Workers : FitsCycle(worker[w], ver)
  <2>. HIDE DEF NewCtx
  <2>. QED
    BY NewCtxTyped DEF Init
<1>2. 0 \in 0..Limit /\ Absent \in Absent..Limit
  BY LimitBounds DEF Absent
<1>3. ok \in [Peers -> Absent..Limit] /\ nok \in [Peers -> Absent..Limit]
  BY <1>2 DEF Init
<1>4. streak \in [Peers -> [failed: BOOLEAN, length: 0..Limit]]
  BY <1>2 DEF Init
<1>5. isDown \subseteq Peers /\ ver \in Nat /\ locked \in BOOLEAN
  BY DEF Init
<1>6. respawns \in 0..MaxRespawns
  BY BoundsAssumption DEF Init
<1>7. /\ author \in [Peers -> Workers \cup {Nobody, Dead}]
      /\ skipped \in [Workers -> BOOLEAN] /\ mishaps \subseteq {"overrun", "death"}
  BY DEF Init
<1>. QED
  BY <1>1, <1>3, <1>4, <1>5, <1>6, <1>7 DEF TypeOK

\* What a step of one worker keeps of the types of all contexts.
LEMMA FitsKept ==
    ASSUME TypeOK, NEW w \in Workers, NEW c, Moves(w, c), FitsCycle(c, ver'),
           ver' \in Nat, ver' >= ver
    PROVE  /\ worker' \in [Workers -> Ctx]
           /\ \A v \in Workers : FitsCycle(worker'[v], ver')
<1>1. ASSUME NEW v \in Workers \ {w} PROVE FitsCycle(worker[v], ver')
  <2>1. worker[v] \in Ctx /\ FitsCycle(worker[v], ver) /\ ver \in Nat
    BY DEF TypeOK
  <2>. QED
    BY <2>1 DEF FitsCycle, Ctx
<1>. QED
  BY <1>1 DEF Moves

\* The actions that change nothing but a context, the lock and counters.
LEMMA TypedKept ==
    ASSUME TypeOK, NEW w \in Workers, NEW c, Moves(w, c), FitsCycle(c, ver),
           ok' \in [Peers -> Absent..Limit], nok' \in [Peers -> Absent..Limit],
           locked' \in BOOLEAN,
           UNCHANGED <<isDown, ver, respawns, streak, author, mishaps>>,
           skipped' \in [Workers -> BOOLEAN]
    PROVE  TypeOK'
<1>1. ver \in Nat /\ ver' = ver
  BY DEF TypeOK
<1>2. /\ worker' \in [Workers -> Ctx]
      /\ \A v \in Workers : FitsCycle(worker'[v], ver')
  BY <1>1, FitsKept
<1>. QED
  BY <1>1, <1>2 DEF TypeOK

LEMMA StepTyped == TypeOK /\ [Next]_vars => TypeOK'
<1>. SUFFICES ASSUME TypeOK, [Next]_vars PROVE TypeOK'
  OBVIOUS
<1>. USE DEF dict, history
<1>a. /\ ok \in [Peers -> Absent..Limit] /\ nok \in [Peers -> Absent..Limit]
      /\ locked \in BOOLEAN /\ ver \in Nat /\ skipped \in [Workers -> BOOLEAN]
  BY DEF TypeOK
<1>1. ASSUME NEW w \in Workers, BeginCycle(w) PROVE TypeOK'
  BY <1>1, <1>a, BeginCycleMoves, TypedKept DEF BeginCycle
<1>2. ASSUME NEW w \in Workers, UpgradePeer(w) PROVE TypeOK'
  BY <1>2, <1>a, UpgradePeerMoves, TypedKept DEF UpgradePeer
<1>3. ASSUME NEW w \in Workers, UpgradeDone(w) PROVE TypeOK'
  BY <1>3, <1>a, UpgradeDoneMoves, TypedKept DEF UpgradeDone
<1>4. ASSUME NEW w \in Workers, GetLock(w) PROVE TypeOK'
  BY <1>4, <1>a, GetLockMoves, TypedKept DEF GetLock
<1>5. ASSUME NEW w \in Workers, CheckPeer(w) PROVE TypeOK'
  <2>1. PICK p \in Peers, failed \in BOOLEAN, c \in Ctx :
           /\ Moves(w, c) /\ FitsCycle(c, ver) /\ Run(p, failed) \in 0..Limit
           /\ streak' = [streak EXCEPT ![p] =
                            [failed |-> failed, length |-> Incr(Run(p, failed))]]
    BY <1>5, CheckPeerMoves
  <2>2. Incr(Run(p, failed)) \in 0..Limit
    BY <2>1, IncrBounds, LimitBounds
  <2>3. streak' \in [Peers -> [failed: BOOLEAN, length: 0..Limit]]
    BY <2>1, <2>2 DEF TypeOK
  <2>4. UNCHANGED <<ok, nok, isDown, ver, locked, respawns, author, skipped, mishaps>>
    BY <1>5 DEF CheckPeer
  <2>5. /\ worker' \in [Workers -> Ctx]
        /\ \A v \in Workers : FitsCycle(worker'[v], ver')
    BY <1>a, <2>1, <2>4, FitsKept
  <2>. QED
    BY <2>3, <2>4, <2>5 DEF TypeOK
<1>6. ASSUME NEW w \in Workers, SkipPeer(w) PROVE TypeOK'
  BY <1>6, <1>a, SkipPeerMoves, TypedKept DEF SkipPeer
<1>7. ASSUME NEW w \in Workers, Count(w) PROVE TypeOK'
  <2>1. worker[w] \in Ctx
    BY DEF TypeOK
  <2>2. \A n \in Absent..Limit : Counted(worker[w], n) \in Absent..Limit
    BY <2>1, ResultsBounds, LimitBounds DEF Counted, Absent
  <2>3. ok' \in [Peers -> Absent..Limit] /\ nok' \in [Peers -> Absent..Limit]
    BY <1>7, <1>a, <2>2 DEF Count
  <2>. QED
    BY <1>7, <1>a, <2>3, CountMoves, TypedKept DEF Count
<1>8. ASSUME NEW w \in Workers, Reset(w) PROVE TypeOK'
  <2>1. \A n \in Absent..Limit : ResetCounter(n) \in Absent..Limit
    BY LimitBounds DEF ResetCounter, Absent
  <2>2. ok' \in [Peers -> Absent..Limit] /\ nok' \in [Peers -> Absent..Limit]
    BY <1>8, <1>a, <2>1 DEF Reset
  <2>. QED
    BY <1>8, <1>a, <2>2, ResetMoves, TypedKept DEF Reset
<1>9. ASSUME NEW w \in Workers, Turn(w) PROVE TypeOK'
  <2>1. PICK p \in Peers, c \in Ctx :
           /\ Moves(w, c) /\ FitsCycle(c, ver)
           /\ \/ author' = [author EXCEPT ![p] = w] /\ isDown' \subseteq Peers
              \/ author' = author /\ isDown' = isDown
    BY <1>9, TurnMoves
  <2>2. UNCHANGED <<ok, nok, ver, locked, respawns, streak, skipped, mishaps>>
    BY <1>9 DEF Turn
  <2>3. isDown' \subseteq Peers /\ author' \in [Peers -> Workers \cup {Nobody, Dead}]
    BY <2>1 DEF TypeOK
  <2>4. /\ worker' \in [Workers -> Ctx]
        /\ \A v \in Workers : FitsCycle(worker'[v], ver')
    BY <1>a, <2>1, <2>2, FitsKept
  <2>. QED
    BY <2>2, <2>3, <2>4 DEF TypeOK
<1>10. ASSUME NEW w \in Workers, ChecksDone(w) PROVE TypeOK'
  BY <1>10, <1>a, ChecksDoneMoves, TypedKept DEF ChecksDone
<1>11. ASSUME NEW w \in Workers, Publish(w) PROVE TypeOK'
  <2>1. PICK c \in Ctx : Moves(w, c) /\ FitsCycle(c, ver + 1)
    BY <1>11, PublishMoves
  <2>2. UNCHANGED <<ok, nok, isDown, locked, respawns, streak, mishaps>> /\ ver' = ver + 1
    BY <1>11 DEF Publish
  <2>3. /\ author' \in [Peers -> Workers \cup {Nobody, Dead}]
        /\ skipped' \in [Workers -> BOOLEAN]
    BY <1>11, <1>a DEF Publish
  <2>4. /\ worker' \in [Workers -> Ctx]
        /\ \A v \in Workers : FitsCycle(worker'[v], ver')
    BY <1>a, <2>1, <2>2, FitsKept
  <2>. QED
    BY <1>a, <2>2, <2>3, <2>4 DEF TypeOK
<1>12. ASSUME NEW w \in Workers, NothingToPublish(w) PROVE TypeOK'
  BY <1>12, <1>a, NothingToPublishMoves, TypedKept DEF NothingToPublish
<1>13. ASSUME NEW w \in Workers, Respawn(w) PROVE TypeOK'
  <2>1. PICK c \in Ctx : Moves(w, c) /\ FitsCycle(c, ver)
    BY <1>13, RespawnMoves
  <2>2. UNCHANGED <<ok, nok, isDown, ver, locked, streak>>
    BY <1>13 DEF Respawn
  <2>3. /\ author' \in [Peers -> Workers \cup {Nobody, Dead}]
        /\ skipped' \in [Workers -> BOOLEAN]
        /\ mishaps' \subseteq {"overrun", "death"}
    BY <1>13 DEF Respawn, Noted, TypeOK
  <2>4. respawns' \in 0..MaxRespawns
    BY <1>13, BoundsAssumption DEF Respawn, TypeOK
  <2>5. /\ worker' \in [Workers -> Ctx]
        /\ \A v \in Workers : FitsCycle(worker'[v], ver')
    BY <1>a, <2>1, <2>2, FitsKept
  <2>. QED
    BY <2>2, <2>3, <2>4, <2>5 DEF TypeOK
<1>14. ASSUME LockExpires PROVE TypeOK'
  BY <1>14 DEF LockExpires, Noted, TypeOK
<1>15. CASE UNCHANGED vars
  BY <1>15 DEF vars, TypeOK
<1>. QED
  BY <1>1, <1>2, <1>3, <1>4, <1>5, <1>6, <1>7, <1>8, <1>9, <1>10, <1>11, <1>12,
     <1>13, <1>14, <1>15 DEF Next, Cycle

\* Types, whatever outlasts the lock and whoever dies: in particular no worker
\* is ahead of the dictionary's version, and none leaves a cycle with a peer
\* it has neither checked nor skipped (check_peers).
THEOREM TypeSafe == Spec => []TypeOK
<1>1. Init => TypeOK
  BY InitTyped
<1>2. TypeOK /\ [Next]_vars => TypeOK'
  BY StepTyped
<1>. QED
  BY <1>1, <1>2, PTL DEF Spec

----------------------------------------------------------------------------
(* The lock.  Who checks holds it, unless it expired meanwhile.            *)

LockInv ==
  /\ \A v, w \in Workers : Checking(v) /\ Checking(w) => v = w
  /\ \A w \in Workers : Checking(w) => locked

LEMMA InitLock == Init => LockInv
<1>1. NewCtx.pc \notin CheckPCs
  BY DEF NewCtx, CheckPCs
<1>. HIDE DEF NewCtx
<1>. QED
  BY <1>1 DEF Init, LockInv, Checking

\* A step by which w does not begin to check.
LEMMA LockKept ==
    ASSUME LockInv, NEW w \in Workers, NEW c, Moves(w, c), locked' = locked,
           c.pc \in CheckPCs => worker[w].pc \in CheckPCs
    PROVE  LockInv'
<1>1. \A v \in Workers : worker'[v].pc \in CheckPCs => worker[v].pc \in CheckPCs
  BY DEF Moves
<1>. QED
  BY <1>1 DEF LockInv, Checking

(* Mishaps are not forgotten, so that a step after which there is none     *)
(* comes after none.                                                       *)
LEMMA MishapsGrow == TypeOK /\ [Next]_vars => mishaps \subseteq mishaps'
BY DEF TypeOK, Next, Cycle, vars, history, BeginCycle, UpgradePeer, UpgradeDone, GetLock,
       CheckPeer, SkipPeer, Count, Reset, Turn, ChecksDone, Publish,
       NothingToPublish, Respawn, LockExpires, Noted

LEMMA StepLock ==
    TypeOK /\ LockInv /\ [Next]_vars /\ "overrun" \notin mishaps' => LockInv'
<1>. SUFFICES ASSUME TypeOK, LockInv, [Next]_vars, "overrun" \notin mishaps'
              PROVE  LockInv'
  OBVIOUS
<1>. USE DEF dict, CheckPCs
<1>1. ASSUME NEW w \in Workers, BeginCycle(w) PROVE LockInv'
  BY <1>1, BeginCycleMoves, LockKept DEF BeginCycle
<1>2. ASSUME NEW w \in Workers, UpgradePeer(w) PROVE LockInv'
  BY <1>2, UpgradePeerMoves, LockKept DEF UpgradePeer
<1>3. ASSUME NEW w \in Workers, UpgradeDone(w) PROVE LockInv'
  BY <1>3, UpgradeDoneMoves, LockKept DEF UpgradeDone
<1>4. ASSUME NEW w \in Workers, GetLock(w) PROVE LockInv'
  <2>1. PICK c : Moves(w, c) /\ c.pc = IF locked THEN "publish" ELSE "check"
    BY <1>4, GetLockMoves
  <2>2. locked'
    BY <1>4 DEF GetLock
  <2>3. \A v \in Workers \ {w} : Checking(v)' => Checking(v)
    BY <2>1 DEF Moves, Checking
  <2>4. CASE locked
    <3>1. ~Checking(w)'
      BY <2>1, <2>4 DEF Moves, Checking
    <3>. QED
      BY <2>2, <2>3, <3>1 DEF LockInv
  <2>5. CASE ~locked
    BY <2>2, <2>3, <2>5 DEF LockInv
  <2>. QED
    BY <2>4, <2>5
<1>5. ASSUME NEW w \in Workers, CheckPeer(w) PROVE LockInv'
  BY <1>5, CheckPeerMoves, LockKept DEF CheckPeer
<1>6. ASSUME NEW w \in Workers, SkipPeer(w) PROVE LockInv'
  BY <1>6, SkipPeerMoves, LockKept DEF SkipPeer
<1>7. ASSUME NEW w \in Workers, Count(w) PROVE LockInv'
  BY <1>7, CountMoves, LockKept DEF Count
<1>8. ASSUME NEW w \in Workers, Reset(w) PROVE LockInv'
  BY <1>8, ResetMoves, LockKept DEF Reset
<1>9. ASSUME NEW w \in Workers, Turn(w) PROVE LockInv'
  BY <1>9, TurnMoves, LockKept DEF Turn
<1>10. ASSUME NEW w \in Workers, ChecksDone(w) PROVE LockInv'
  BY <1>10, ChecksDoneMoves, LockKept DEF ChecksDone
<1>11. ASSUME NEW w \in Workers, Publish(w) PROVE LockInv'
  BY <1>11, PublishMoves, LockKept DEF Publish
<1>12. ASSUME NEW w \in Workers, NothingToPublish(w) PROVE LockInv'
  BY <1>12, NothingToPublishMoves, LockKept DEF NothingToPublish
<1>13. ASSUME NEW w \in Workers, Respawn(w) PROVE LockInv'
  BY <1>13, RespawnMoves, LockKept DEF Respawn
<1>14. ASSUME LockExpires PROVE LockInv'
  <2>1. \A w \in Workers : ~Checking(w)
    BY <1>14 DEF LockExpires, Noted
  <2>. QED
    BY <1>14, <2>1 DEF LockExpires, LockInv, Checking
<1>15. CASE UNCHANGED vars
  BY <1>15 DEF vars, LockInv, Checking
<1>. QED
  BY <1>1, <1>2, <1>3, <1>4, <1>5, <1>6, <1>7, <1>8, <1>9, <1>10, <1>11, <1>12,
     <1>13, <1>14, <1>15 DEF Next, Cycle

\* Two workers never check the peers at the same time until the lock expires
\* under a check, and whoever dies (get_lock).
THEOREM OneCheckerSafe == Spec => []OneChecker
<1>. DEFINE Inv == "overrun" \notin mishaps => LockInv
<1>1. Init => TypeOK /\ Inv
  BY InitTyped, InitLock
<1>2. TypeOK /\ Inv /\ [Next]_vars => (TypeOK /\ Inv)'
  BY StepTyped, StepLock, MishapsGrow
<1>3. Inv => OneChecker
  BY DEF LockInv, OneChecker
<1>. HIDE DEF Inv
<1>. QED
  BY <1>1, <1>2, <1>3, PTL DEF Spec

----------------------------------------------------------------------------
(* Agreement.  A worker knows what it recorded itself.  One that has the   *)
(* current version knows every published state, unless it got the version  *)
(* by publishing over another one; and while it reads the states of the    *)
(* current version, it knows all but those left to read.                   *)

Published(p) == author[p] = Nobody

AgreeInv ==
  /\ ver = 0 => \A p \in Peers : Published(p) => p \notin isDown
  /\ \A w \in Workers : worker[w].pc = "upgrade" => worker[w].version < worker[w].seen
  /\ \A w \in Workers, p \in Peers : author[p] = w => Knows(w, p)
  /\ \A w \in Workers : worker[w].version = ver /\ ~skipped[w] =>
       \A p \in Peers : Published(p) => Knows(w, p)
  /\ \A w \in Workers : worker[w].pc = "upgrade" /\ worker[w].seen = ver =>
       \A p \in Peers \ worker[w].todo : Published(p) => Knows(w, p)

LEMMA InitAgree == Init => AgreeInv
<1>1. NewCtx.pc = "idle" /\ NewCtx.down = {}
  BY DEF NewCtx
<1>. HIDE DEF NewCtx
<1>. QED
  BY <1>1, NobodyAssumption DEF Init, AgreeInv, Knows

\* A step of w that records, publishes and reads nothing.
LEMMA AgreeKept ==
    ASSUME TypeOK, AgreeInv, NEW w \in Workers, NEW c, Moves(w, c),
           Keeps(c, worker[w]),
           UNCHANGED <<isDown, ver, author, skipped>>,
           c.pc = "upgrade" => c.version < c.seen /\ c.todo = Peers
    PROVE  AgreeInv'
<1>1. \A v \in Workers, p \in Peers : Knows(v, p)' <=> Knows(v, p)
  BY DEF Moves, Keeps, Knows
<1>2. \A p \in Peers : Published(p)' <=> Published(p)
  BY DEF Published
<1>3. \A v \in Workers : worker'[v].version = worker[v].version
  BY DEF Moves, Keeps
<1>4. \A v \in Workers : worker'[v].pc = "upgrade" =>
         worker'[v].version < worker'[v].seen
  BY DEF Moves, AgreeInv
<1>5. \A v \in Workers : worker'[v].pc = "upgrade" /\ worker'[v].seen = ver =>
         \A p \in Peers \ worker'[v].todo : Published(p) => Knows(v, p)
  BY DEF Moves, AgreeInv
<1>6. /\ ver' = 0 => \A p \in Peers : Published(p)' => p \notin isDown'
      /\ \A v \in Workers, p \in Peers : author'[p] = v => Knows(v, p)'
      /\ \A v \in Workers : worker'[v].version = ver' /\ ~skipped'[v] =>
           \A p \in Peers : Published(p)' => Knows(v, p)'
  BY <1>1, <1>2, <1>3 DEF AgreeInv
<1>7. \A v \in Workers : worker'[v].pc = "upgrade" /\ worker'[v].seen = ver' =>
         \A p \in Peers \ worker'[v].todo : Published(p)' => Knows(v, p)'
  BY <1>1, <1>2, <1>5
<1>. QED
  BY <1>4, <1>6, <1>7 DEF AgreeInv

LEMMA UpgradePeerAgrees ==
    ASSUME TypeOK, AgreeInv, NEW w \in Workers, UpgradePeer(w)
    PROVE  AgreeInv'
<1>1. PICK p \in worker[w].todo, c \in Ctx :
         /\ Moves(w, c) /\ FitsCycle(c, ver) /\ p \in Peers
         /\ c.pc = "upgrade" /\ worker[w].pc = "upgrade"
         /\ c.version = worker[w].version /\ c.seen = worker[w].seen
         /\ c.todo = worker[w].todo \ {p}
         /\ \A q \in Peers : q \in c.down <=>
               IF q = p THEN q \in isDown ELSE q \in worker[w].down
  BY UpgradePeerMoves
<1>2. UNCHANGED <<isDown, ver, author, skipped>>
  BY DEF UpgradePeer, dict, history
<1>3. worker'[w] = c /\ \A v \in Workers \ {w} : worker'[v] = worker[v]
  BY <1>1 DEF Moves
<1>4. \A v \in Workers, q \in Peers : Knows(v, q) => Knows(v, q)'
  BY <1>1, <1>2, <1>3 DEF Knows
<1>5. Knows(w, p)'
  BY <1>1, <1>2, <1>3 DEF Knows
<1>6. \A q \in Peers : Published(q)' <=> Published(q)
  BY <1>2 DEF Published
<1>7. \A v \in Workers : /\ worker'[v].version = worker[v].version
                         /\ worker'[v].seen = worker[v].seen
                         /\ worker'[v].pc = worker[v].pc
  BY <1>1, <1>3
<1>8. \A v \in Workers : \A q \in Peers \ worker'[v].todo :
         q \in Peers \ worker[v].todo \/ (v = w /\ q = p)
  BY <1>1, <1>3
<1>9. \A v \in Workers : worker'[v].pc = "upgrade" /\ worker'[v].seen = ver' =>
         \A q \in Peers \ worker'[v].todo : Published(q)' => Knows(v, q)'
  BY <1>2, <1>4, <1>5, <1>6, <1>7, <1>8 DEF AgreeInv
<1>10. /\ ver' = 0 => \A q \in Peers : Published(q)' => q \notin isDown'
       /\ \A v \in Workers : worker'[v].pc = "upgrade" =>
             worker'[v].version < worker'[v].seen
  BY <1>2, <1>6, <1>7 DEF AgreeInv
<1>11. /\ \A v \in Workers, q \in Peers : author'[q] = v => Knows(v, q)'
       /\ \A v \in Workers : worker'[v].version = ver' /\ ~skipped'[v] =>
            \A q \in Peers : Published(q)' => Knows(v, q)'
  BY <1>2, <1>4, <1>6, <1>7 DEF AgreeInv
<1>. QED
  BY <1>9, <1>10, <1>11 DEF AgreeInv

LEMMA UpgradeDoneAgrees ==
    ASSUME TypeOK, AgreeInv, NEW w \in Workers, UpgradeDone(w)
    PROVE  AgreeInv'
<1>1. PICK c \in Ctx :
         /\ Moves(w, c)
         /\ c.pc = "lock" /\ worker[w].pc = "upgrade" /\ worker[w].todo = {}
         /\ c.version = worker[w].seen /\ c.down = worker[w].down
  BY UpgradeDoneMoves
<1>2. /\ UNCHANGED <<isDown, ver, author>>
      /\ \A v \in Workers \ {w} : skipped'[v] = skipped[v]
  BY DEF UpgradeDone, dict, TypeOK
<1>3. worker'[w] = c /\ \A v \in Workers \ {w} : worker'[v] = worker[v]
  BY <1>1 DEF Moves
<1>4. \A v \in Workers, q \in Peers : Knows(v, q)' <=> Knows(v, q)
  BY <1>1, <1>2, <1>3 DEF Knows
<1>5. \A q \in Peers : Published(q)' <=> Published(q)
  BY <1>2 DEF Published
<1>6. worker[w].seen = ver => \A q \in Peers : Published(q) => Knows(w, q)
  BY <1>1 DEF AgreeInv
<1>7. /\ ver' = 0 => \A q \in Peers : Published(q)' => q \notin isDown'
      /\ \A v \in Workers, q \in Peers : author'[q] = v => Knows(v, q)'
  BY <1>2, <1>4, <1>5 DEF AgreeInv
<1>8. \A v \in Workers : worker'[v].pc = "upgrade" =>
         v # w /\ worker'[v].version < worker'[v].seen
  BY <1>1, <1>3 DEF AgreeInv
<1>9. \A v \in Workers : worker'[v].version = ver' /\ ~skipped'[v] =>
         \A q \in Peers : Published(q)' => Knows(v, q)'
  BY <1>1, <1>2, <1>3, <1>4, <1>5, <1>6 DEF AgreeInv
<1>10. \A v \in Workers : worker'[v].pc = "upgrade" /\ worker'[v].seen = ver' =>
         \A q \in Peers \ worker'[v].todo : Published(q)' => Knows(v, q)'
  BY <1>2, <1>3, <1>4, <1>5, <1>8 DEF AgreeInv
<1>. QED
  BY <1>7, <1>8, <1>9, <1>10 DEF AgreeInv

LEMMA TurnAgrees ==
    ASSUME TypeOK, AgreeInv, NEW w \in Workers, Turn(w)
    PROVE  AgreeInv'
<1>1. PICK p \in Peers, c \in Ctx :
         /\ Moves(w, c) /\ c.pc = "check" /\ c.version = worker[w].version
         /\ \/ /\ author' = [author EXCEPT ![p] = w]
               /\ p \in c.down <=> p \in isDown'
               /\ \A q \in Peers \ {p} : /\ q \in c.down <=> q \in worker[w].down
                                         /\ q \in isDown' <=> q \in isDown
            \/ author' = author /\ isDown' = isDown /\ Keeps(c, worker[w])
  BY TurnMoves
<1>2. ver' = ver /\ skipped' = skipped
  BY DEF Turn
<1>3. CASE author' = author /\ isDown' = isDown /\ Keeps(c, worker[w])
  BY <1>1, <1>2, <1>3, AgreeKept
<1>4. CASE /\ author' = [author EXCEPT ![p] = w]
           /\ p \in c.down <=> p \in isDown'
           /\ \A q \in Peers \ {p} : /\ q \in c.down <=> q \in worker[w].down
                                     /\ q \in isDown' <=> q \in isDown
  <2>1. worker'[w] = c /\ \A v \in Workers \ {w} : worker'[v] = worker[v]
    BY <1>1 DEF Moves
  <2>2. author'[p] = w /\ \A q \in Peers \ {p} : author'[q] = author[q]
    BY <1>4 DEF TypeOK
  <2>3. w # Nobody
    BY NobodyAssumption
  <2>4. \A q \in Peers : Published(q)' => Published(q) /\ q # p
    BY <2>2, <2>3 DEF Published
  <2>5. \A v \in Workers, q \in Peers \ {p} : Knows(v, q)' <=> Knows(v, q)
    BY <1>4, <2>1 DEF Knows
  <2>6. Knows(w, p)'
    BY <1>4, <2>1 DEF Knows
  <2>7. \A v \in Workers : worker'[v].version = worker[v].version
    BY <1>1, <2>1
  <2>8. \A v \in Workers : worker'[v].pc = "upgrade" => worker'[v] = worker[v]
    BY <1>1, <2>1
  <2>9. /\ ver' = 0 => \A q \in Peers : Published(q)' => q \notin isDown'
        /\ \A v \in Workers, q \in Peers : author'[q] = v => Knows(v, q)'
    BY <1>2, <1>4, <2>2, <2>4, <2>5, <2>6 DEF AgreeInv
  <2>10. \A v \in Workers : worker'[v].version = ver' /\ ~skipped'[v] =>
           \A q \in Peers : Published(q)' => Knows(v, q)'
    BY <1>2, <2>4, <2>5, <2>7 DEF AgreeInv
  <2>11. \A v \in Workers : worker'[v].pc = "upgrade" =>
           worker'[v].version < worker'[v].seen
    BY <2>8 DEF AgreeInv
  <2>12. \A v \in Workers : worker'[v].pc = "upgrade" /\ worker'[v].seen = ver' =>
           \A q \in Peers \ worker'[v].todo : Published(q)' => Knows(v, q)'
    BY <1>2, <2>4, <2>5, <2>8 DEF AgreeInv
  <2>. QED
    BY <2>9, <2>10, <2>11, <2>12 DEF AgreeInv
<1>. QED
  BY <1>1, <1>3, <1>4

LEMMA PublishAgrees ==
    ASSUME TypeOK, AgreeInv, NEW w \in Workers, Publish(w)
    PROVE  AgreeInv'
<1>1. PICK c \in Ctx :
         /\ Moves(w, c) /\ c.pc = "idle"
         /\ c.version = ver + 1 /\ c.down = worker[w].down
  BY PublishMoves
<1>2. /\ isDown' = isDown /\ ver' = ver + 1 /\ ver \in Nat
      /\ \A p \in Peers : author'[p] = Nobody
      /\ skipped'[w] <=> \/ skipped[w] \/ worker[w].version # ver
                         \/ \E p \in Peers : author[p] \notin {Nobody, w}
  BY DEF Publish, TypeOK
<1>3. worker'[w] = c /\ \A v \in Workers \ {w} : worker'[v] = worker[v]
  BY <1>1 DEF Moves
<1>4. \A v \in Workers \ {w} : /\ worker[v].version <= ver /\ worker[v].seen <= ver
                               /\ worker[v].version \in Nat /\ worker[v].seen \in Nat
  <2>1. \A v \in Workers : worker[v] \in Ctx /\ FitsCycle(worker[v], ver)
    BY DEF TypeOK
  <2>. QED
    BY <2>1 DEF FitsCycle, Ctx
<1>5. \A v \in Workers \ {w} : worker'[v].version # ver' /\ worker'[v].seen # ver'
  BY <1>2, <1>3, <1>4
<1>6. ~skipped'[w] => \A p \in Peers : Knows(w, p)'
  <2>1. SUFFICES ASSUME ~skipped'[w], NEW p \in Peers PROVE Knows(w, p)
    BY <1>1, <1>2, <1>3 DEF Knows
  <2>2. ~skipped[w] /\ worker[w].version = ver /\ author[p] \in {Nobody, w}
    BY <1>2, <2>1
  <2>. QED
    BY <2>2 DEF AgreeInv, Published
<1>7. /\ ver' # 0 /\ \A v \in Workers, p \in Peers : author'[p] # v
  BY <1>2, NobodyAssumption
<1>8. \A v \in Workers : worker'[v].pc = "upgrade" =>
         v # w /\ worker'[v].version < worker'[v].seen
  BY <1>1, <1>3 DEF AgreeInv
<1>9. \A v \in Workers : worker'[v].version = ver' /\ ~skipped'[v] =>
         \A p \in Peers : Knows(v, p)'
  BY <1>5, <1>6
<1>10. \A v \in Workers : ~(worker'[v].pc = "upgrade" /\ worker'[v].seen = ver')
  BY <1>5, <1>8
<1>. QED
  BY <1>7, <1>8, <1>9, <1>10 DEF AgreeInv

LEMMA RespawnAgrees ==
    ASSUME TypeOK, AgreeInv, NEW w \in Workers, Respawn(w)
    PROVE  AgreeInv'
<1>1. PICK c \in Ctx : Moves(w, c) /\ c.pc = "idle" /\ c.version = 0 /\ c.down = {}
  BY RespawnMoves
<1>2. /\ UNCHANGED <<isDown, ver>>
      /\ \A p \in Peers : author'[p] = IF author[p] = w THEN Dead ELSE author[p]
      /\ \A v \in Workers \ {w} : skipped'[v] = skipped[v]
  BY DEF Respawn, dict, TypeOK
<1>3. worker'[w] = c /\ \A v \in Workers \ {w} : worker'[v] = worker[v]
  BY <1>1 DEF Moves
<1>4. \A p \in Peers : /\ Published(p)' => Published(p)
                       /\ author'[p] # w
                       /\ \A v \in Workers : author'[p] = v => author[p] = v
  BY <1>2, NobodyAssumption DEF Published
<1>5. \A v \in Workers \ {w}, p \in Peers : Knows(v, p)' <=> Knows(v, p)
  BY <1>2, <1>3 DEF Knows
<1>6. worker'[w].version = ver' => \A p \in Peers : Published(p)' => Knows(w, p)'
  BY <1>1, <1>2, <1>3, <1>4 DEF AgreeInv, Knows
<1>7. /\ ver' = 0 => \A p \in Peers : Published(p)' => p \notin isDown'
      /\ \A v \in Workers, p \in Peers : author'[p] = v => Knows(v, p)'
  BY <1>2, <1>4, <1>5 DEF AgreeInv
<1>8. \A v \in Workers : worker'[v].pc = "upgrade" =>
         v # w /\ worker'[v].version < worker'[v].seen
  BY <1>1, <1>3 DEF AgreeInv
<1>9. \A v \in Workers : worker'[v].version = ver' /\ ~skipped'[v] =>
         \A p \in Peers : Published(p)' => Knows(v, p)'
  BY <1>2, <1>3, <1>4, <1>5, <1>6 DEF AgreeInv
<1>10. \A v \in Workers : worker'[v].pc = "upgrade" /\ worker'[v].seen = ver' =>
         \A p \in Peers \ worker'[v].todo : Published(p)' => Knows(v, p)'
  BY <1>2, <1>3, <1>4, <1>5, <1>8 DEF AgreeInv
<1>. QED
  BY <1>7, <1>8, <1>9, <1>10 DEF AgreeInv

LEMMA StepAgree == TypeOK /\ AgreeInv /\ [Next]_vars => AgreeInv'
<1>. SUFFICES ASSUME TypeOK, AgreeInv, [Next]_vars PROVE AgreeInv'
  OBVIOUS
<1>. USE DEF dict, history
<1>1. ASSUME NEW w \in Workers, BeginCycle(w) PROVE AgreeInv'
  <2>1. PICK c \in Ctx :
           /\ Moves(w, c) /\ Keeps(c, worker[w])
           /\ \/ worker[w].version < ver /\ c.pc = "upgrade"
                 /\ c.todo = Peers /\ c.seen = ver
              \/ c.pc = "lock"
    BY <1>1, BeginCycleMoves
  <2>2. c.pc = "upgrade" => c.version < c.seen /\ c.todo = Peers
    BY <2>1 DEF Keeps
  <2>. QED
    BY <1>1, <2>1, <2>2, AgreeKept DEF BeginCycle
<1>2. ASSUME NEW w \in Workers, UpgradePeer(w) PROVE AgreeInv'
  BY <1>2, UpgradePeerAgrees
<1>3. ASSUME NEW w \in Workers, UpgradeDone(w) PROVE AgreeInv'
  BY <1>3, UpgradeDoneAgrees
<1>4. ASSUME NEW w \in Workers, GetLock(w) PROVE AgreeInv'
  BY <1>4, GetLockMoves, AgreeKept DEF GetLock
<1>5. ASSUME NEW w \in Workers, CheckPeer(w) PROVE AgreeInv'
  <2>1. PICK c \in Ctx : Moves(w, c) /\ Keeps(c, worker[w]) /\ c.pc = "count"
    BY <1>5, CheckPeerMoves
  <2>2. UNCHANGED <<isDown, ver, author, skipped>>
    BY <1>5 DEF CheckPeer
  <2>. QED
    BY <2>1, <2>2, AgreeKept
<1>6. ASSUME NEW w \in Workers, SkipPeer(w) PROVE AgreeInv'
  BY <1>6, SkipPeerMoves, AgreeKept DEF SkipPeer
<1>7. ASSUME NEW w \in Workers, Count(w) PROVE AgreeInv'
  BY <1>7, CountMoves, AgreeKept DEF Count
<1>8. ASSUME NEW w \in Workers, Reset(w) PROVE AgreeInv'
  BY <1>8, ResetMoves, AgreeKept DEF Reset
<1>9. ASSUME NEW w \in Workers, Turn(w) PROVE AgreeInv'
  BY <1>9, TurnAgrees
<1>10. ASSUME NEW w \in Workers, ChecksDone(w) PROVE AgreeInv'
  BY <1>10, ChecksDoneMoves, AgreeKept DEF ChecksDone
<1>11. ASSUME NEW w \in Workers, Publish(w) PROVE AgreeInv'
  BY <1>11, PublishAgrees
<1>12. ASSUME NEW w \in Workers, NothingToPublish(w) PROVE AgreeInv'
  BY <1>12, NothingToPublishMoves, AgreeKept DEF NothingToPublish
<1>13. ASSUME NEW w \in Workers, Respawn(w) PROVE AgreeInv'
  BY <1>13, RespawnAgrees
<1>14. ASSUME LockExpires PROVE AgreeInv'
  BY <1>14 DEF LockExpires, AgreeInv, Knows, Published
<1>15. CASE UNCHANGED vars
  BY <1>15 DEF vars, AgreeInv, Knows, Published
<1>. QED
  BY <1>1, <1>2, <1>3, <1>4, <1>5, <1>6, <1>7, <1>8, <1>9, <1>10, <1>11, <1>12,
     <1>13, <1>14, <1>15 DEF Next, Cycle

\* A worker that has the current version knows every published state, however
\* the workers' cycles interleave, overrun and break off, unless it published
\* over a version or a state it had not read (check_peers_updates, do_check).
THEOREM AgreementSafe == Spec => []CurrentWorkersAgree
<1>1. Init => TypeOK /\ AgreeInv
  BY InitTyped, InitAgree
<1>2. TypeOK /\ AgreeInv /\ [Next]_vars => (TypeOK /\ AgreeInv)'
  BY StepTyped, StepAgree
<1>3. AgreeInv => CurrentWorkersAgree
  BY DEF AgreeInv, CurrentWorkersAgree, Published
<1>. QED
  BY <1>1, <1>2, <1>3, PTL DEF Spec

----------------------------------------------------------------------------
(* Runs of results.  The counters of a peer tell its last results and how  *)
(* many in a row were like them; while a worker counts a result, which     *)
(* nobody else does then, they are behind.                                 *)

OwnValue(p, failed) == Value(Own(p, failed))
OtherValue(p, failed) == Value(Other(p, failed))

InRun(c) ==
  /\ c.failed = streak[c.peer].failed
  /\ Results(c) <= streak[c.peer].length

Uncounted(c) ==
  /\ c.read = Own(c.peer, c.failed)
  /\ Results(c) = 1 \/ OtherValue(c.peer, c.failed) = 0

Unreset(c) == OwnValue(c.peer, c.failed) <= streak[c.peer].length

UpToDate(p) == /\ OtherValue(p, streak[p].failed) = 0
               /\ OwnValue(p, streak[p].failed) <= streak[p].length

StreakInv ==
  /\ \A p \in Peers :
       (\A w \in Workers : worker[w].pc \in {"count", "reset"} => worker[w].peer # p)
         => UpToDate(p)
  /\ \A w \in Workers : worker[w].pc \in {"count", "reset", "turn"} => InRun(worker[w])
  /\ \A w \in Workers : worker[w].pc = "count" => Uncounted(worker[w])
  /\ \A w \in Workers : worker[w].pc = "reset" => Unreset(worker[w])

LEMMA InitStreak == Init => StreakInv
<1>. SUFFICES ASSUME Init PROVE StreakInv
  OBVIOUS
<1>1. \A w \in Workers : worker[w].pc = "idle"
  <2>. NewCtx.pc = "idle"
    BY DEF NewCtx
  <2>. HIDE DEF NewCtx
  <2>. QED
    BY DEF Init
<1>2. \A p \in Peers : UpToDate(p)
  BY DEF Init, UpToDate, OwnValue, OtherValue, Own, Other, Value, Absent
<1>. QED
  BY <1>1, <1>2 DEF StreakInv

\* A step that counts nothing.
LEMMA StreakKept ==
    ASSUME StreakInv, NEW w \in Workers, NEW c, Moves(w, c),
           worker[w].pc \notin {"count", "reset"},
           c.pc \notin {"count", "reset", "turn"},
           UNCHANGED <<ok, nok, streak>>
    PROVE  StreakInv'
<1>. USE DEF InRun, Uncounted, Unreset, UpToDate, OwnValue, OtherValue, Own, Other
<1>1. \A v \in Workers : worker'[v].pc \in {"count", "reset", "turn"} =>
                            worker'[v] = worker[v]
  BY DEF Moves
<1>2. \A v \in Workers : worker'[v].pc \in {"count", "reset"}
                           <=> worker[v].pc \in {"count", "reset"}
  BY DEF Moves
<1>3. ASSUME NEW p \in Peers,
             \A v \in Workers : worker'[v].pc \in {"count", "reset"} =>
                                   worker'[v].peer # p
      PROVE  UpToDate(p)'
  <2>1. \A v \in Workers : worker[v].pc \in {"count", "reset"} => worker[v].peer # p
    BY <1>1, <1>2, <1>3
  <2>2. UpToDate(p)
    BY <2>1 DEF StreakInv
  <2>. QED
    BY <2>2
<1>4. ASSUME NEW v \in Workers, worker'[v].pc \in {"count", "reset", "turn"}
      PROVE  InRun(worker[v])'
  BY <1>1, <1>4 DEF StreakInv
<1>5. ASSUME NEW v \in Workers, worker'[v].pc = "count"
      PROVE  Uncounted(worker[v])'
  BY <1>1, <1>5 DEF StreakInv
<1>6. ASSUME NEW v \in Workers, worker'[v].pc = "reset"
      PROVE  Unreset(worker[v])'
  BY <1>1, <1>6 DEF StreakInv
<1>. QED
  BY <1>3, <1>4, <1>5, <1>6 DEF StreakInv

\* Only one worker counts, so that the others have nothing to do with the
\* counters (LockInv).
LEMMA OthersIdle ==
    ASSUME LockInv, NEW w \in Workers, Checking(w), NEW c, Moves(w, c)
    PROVE  \A v \in Workers \ {w} :
              worker[v].pc \notin CheckPCs /\ worker'[v] = worker[v]
BY DEF LockInv, Checking, Moves

LEMMA CheckPeerStreak ==
    ASSUME TypeOK, LockInv, StreakInv, NEW w \in Workers, CheckPeer(w)
    PROVE  StreakInv'
<1>1. PICK p \in Peers, failed \in BOOLEAN, c \in Ctx :
         /\ Moves(w, c)
         /\ c.pc = "count" /\ worker[w].pc = "check"
         /\ c.peer = p /\ c.failed = failed /\ c.read = Own(p, failed)
         /\ Own(p, failed) \in Absent..Limit /\ Run(p, failed) \in 0..Limit
         /\ streak' = [streak EXCEPT ![p] =
                         [failed |-> failed, length |-> Incr(Run(p, failed))]]
  BY CheckPeerMoves
<1>2. UNCHANGED <<ok, nok>>
  BY DEF CheckPeer, dict
<1>3. \A v \in Workers \ {w} : worker[v].pc \notin CheckPCs /\ worker'[v] = worker[v]
  BY <1>1, OthersIdle DEF Checking, CheckPCs
<1>4. worker'[w] = c
  BY <1>1 DEF Moves
<1>5. \A q \in Peers : UpToDate(q)
  BY <1>1, <1>3 DEF StreakInv, CheckPCs
<1>6. /\ streak'[p].failed = failed /\ streak'[p].length = Incr(Run(p, failed))
      /\ \A q \in Peers \ {p} : streak'[q] = streak[q]
      /\ streak[p].failed \in BOOLEAN
  BY <1>1 DEF TypeOK
<1>7. OwnValue(p, failed) \in 0..Limit
  BY <1>1, ValueBounds DEF OwnValue
<1>8. /\ OwnValue(p, failed) <= Run(p, failed)
      /\ OwnValue(p, failed) = 0 \/ OtherValue(p, failed) = 0
  <2>1. CASE streak[p].failed = failed
    BY <1>5, <1>7, <2>1 DEF UpToDate, Run
  <2>2. CASE streak[p].failed # failed
    <3>1. OwnValue(p, failed) = 0
      BY <1>5, <1>6, <2>2 DEF UpToDate, OwnValue, OtherValue, Own, Other
    <3>. QED
      BY <1>1, <3>1
  <2>. QED
    BY <2>1, <2>2
<1>9. Results(c) = Incr(OwnValue(p, failed))
  BY <1>1, ResultsBounds DEF OwnValue
<1>10. /\ Results(c) <= Incr(Run(p, failed))
       /\ Results(c) = 1 \/ OtherValue(p, failed) = 0
  BY <1>1, <1>7, <1>8, <1>9, IncrBounds
<1>11. \A q \in Peers \ {p} : UpToDate(q)'
  BY <1>2, <1>5, <1>6 DEF UpToDate, OwnValue, OtherValue, Own, Other
<1>12. InRun(c)'
  BY <1>1, <1>6, <1>10 DEF InRun
<1>13. Uncounted(c)'
  BY <1>1, <1>2, <1>10 DEF Uncounted, OtherValue, Own, Other
<1>14. \A v \in Workers : worker'[v].pc \in {"count", "reset", "turn"} => v = w
  BY <1>3 DEF CheckPCs
<1>15. /\ InRun(worker[w])' /\ Uncounted(worker[w])'
       /\ worker'[w].pc = "count" /\ worker'[w].peer = p
  BY <1>1, <1>4, <1>12, <1>13
     DEF InRun, Uncounted, Results, OwnValue, OtherValue, Own, Other
<1>. QED
  BY <1>11, <1>14, <1>15 DEF StreakInv

LEMMA CountStreak ==
    ASSUME TypeOK, LockInv, StreakInv, NEW w \in Workers, Count(w)
    PROVE  StreakInv'
<1>1. PICK c \in Ctx :
         /\ Moves(w, c)
         /\ c.pc = IF Results(worker[w]) = 1 THEN "reset" ELSE "turn"
         /\ worker[w].pc = "count" /\ SameResult(c, worker[w])
  BY CountMoves
<1>2. PICK p, failed : p = c.peer /\ failed = c.failed
  OBVIOUS
<1>3. worker[w] \in Ctx /\ worker[w].peer = p /\ worker[w].failed = failed
  BY <1>1, <1>2 DEF TypeOK, SameResult
<1>4. p \in Peers /\ failed \in BOOLEAN /\ streak' = streak
  BY <1>1, <1>3 DEF TypeOK, FitsCycle, Ctx, Count, history
<1>5. Results(c) = Results(worker[w])
  BY <1>1 DEF SameResult, Results
<1>6. InRun(worker[w]) /\ Uncounted(worker[w])
  BY <1>1 DEF StreakInv
<1>7. InRun(c)'
  BY <1>1, <1>4, <1>5, <1>6 DEF InRun, SameResult, Results
<1>8. Own(p, failed)' = Results(c) /\ Other(p, failed)' = Other(p, failed)
  <2>1. Counted(worker[w], Own(p, failed)) = Results(worker[w])
    BY <1>3, <1>6, ResultsBounds DEF Uncounted
  <2>2. CASE failed
    <3>1. nok' = [nok EXCEPT ![p] = Counted(worker[w], nok[p])] /\ ok' = ok
      BY <1>3, <2>2 DEF Count
    <3>. QED
      BY <1>4, <1>5, <2>1, <2>2, <3>1 DEF TypeOK, Own, Other
  <2>3. CASE ~failed
    <3>1. ok' = [ok EXCEPT ![p] = Counted(worker[w], ok[p])] /\ nok' = nok
      BY <1>3, <2>3 DEF Count
    <3>. QED
      BY <1>4, <1>5, <2>1, <2>3, <3>1 DEF TypeOK, Own, Other
  <2>. QED
    BY <1>4, <2>2, <2>3
<1>9. \A q \in Peers \ {p} : ok'[q] = ok[q] /\ nok'[q] = nok[q]
  BY <1>3, <1>4 DEF Count, TypeOK
<1>10. \A v \in Workers \ {w} : worker[v].pc \notin CheckPCs /\ worker'[v] = worker[v]
  BY <1>1, OthersIdle DEF Checking, CheckPCs
<1>11. worker'[w] = c
  BY <1>1 DEF Moves
<1>12. \A q \in Peers \ {p} : UpToDate(q)
  BY <1>3, <1>10 DEF StreakInv, CheckPCs
<1>13. \A q \in Peers \ {p} : UpToDate(q)'
  BY <1>4, <1>9, <1>12 DEF UpToDate, OwnValue, OtherValue, Own, Other
<1>14. Results(c) \in 1..Limit
  BY ResultsBounds
<1>15. OwnValue(p, failed)' = Results(c) /\ OwnValue(p, failed)' <= streak'[p].length
  <2>1. OwnValue(p, failed)' = Results(c)
    BY <1>8, <1>14, LimitBounds DEF OwnValue, Value, Absent
  <2>. QED
    BY <1>2, <1>7, <2>1 DEF InRun, Results
<1>16. c.pc = "reset" => Unreset(c)'
  BY <1>2, <1>15 DEF Unreset
<1>17. c.pc # "reset" => UpToDate(p)'
  <2>1. SUFFICES ASSUME c.pc # "reset" PROVE UpToDate(p)'
    OBVIOUS
  <2>2. OtherValue(p, failed) = 0
    BY <1>1, <1>3, <1>6, <2>1 DEF Uncounted
  <2>3. OtherValue(p, failed)' = 0
    BY <1>8, <2>2 DEF OtherValue
  <2>4. streak'[p].failed = failed
    BY <1>2, <1>7 DEF InRun
  <2>. QED
    BY <1>15, <2>3, <2>4 DEF UpToDate
<1>18. \A v \in Workers : worker'[v].pc \in {"count", "reset", "turn"} => v = w
  BY <1>10 DEF CheckPCs
<1>19. /\ InRun(worker[w])' /\ worker'[w].pc # "count" /\ worker'[w].peer = p
       /\ worker'[w].pc = "reset" => Unreset(worker[w])'
       /\ worker'[w].pc # "reset" => UpToDate(p)'
  BY <1>1, <1>2, <1>7, <1>11, <1>16, <1>17
     DEF InRun, Unreset, Results, OwnValue, Own
<1>. QED
  BY <1>13, <1>18, <1>19 DEF StreakInv

LEMMA ResetStreak ==
    ASSUME TypeOK, LockInv, StreakInv, NEW w \in Workers, Reset(w)
    PROVE  StreakInv'
<1>1. PICK c \in Ctx :
         /\ Moves(w, c) /\ c.pc = "turn" /\ worker[w].pc = "reset"
         /\ SameResult(c, worker[w])
  BY ResetMoves
<1>2. PICK p, failed : p = c.peer /\ failed = c.failed
  OBVIOUS
<1>3. worker[w] \in Ctx /\ worker[w].peer = p /\ worker[w].failed = failed
  BY <1>1, <1>2 DEF TypeOK, SameResult
<1>4. p \in Peers /\ failed \in BOOLEAN /\ streak' = streak
  BY <1>1, <1>3 DEF TypeOK, FitsCycle, Ctx, Reset, history
<1>5. InRun(worker[w]) /\ Unreset(worker[w])
  BY <1>1 DEF StreakInv
<1>6. InRun(c)'
  BY <1>1, <1>4, <1>5 DEF InRun, SameResult, Results
<1>7. /\ Other(p, failed)' = ResetCounter(Other(p, failed))
      /\ Own(p, failed)' = Own(p, failed)
  <2>1. CASE failed
    <3>1. ok' = [ok EXCEPT ![p] = ResetCounter(ok[p])] /\ nok' = nok
      BY <1>3, <2>1 DEF Reset
    <3>. QED
      BY <1>4, <2>1, <3>1 DEF TypeOK, Own, Other
  <2>2. CASE ~failed
    <3>1. nok' = [nok EXCEPT ![p] = ResetCounter(nok[p])] /\ ok' = ok
      BY <1>3, <2>2 DEF Reset
    <3>. QED
      BY <1>4, <2>2, <3>1 DEF TypeOK, Own, Other
  <2>. QED
    BY <1>4, <2>1, <2>2
<1>8. \A q \in Peers \ {p} : ok'[q] = ok[q] /\ nok'[q] = nok[q]
  BY <1>3, <1>4 DEF Reset, TypeOK
<1>9. \A v \in Workers \ {w} : worker[v].pc \notin CheckPCs /\ worker'[v] = worker[v]
  BY <1>1, OthersIdle DEF Checking, CheckPCs
<1>10. worker'[w] = c
  BY <1>1 DEF Moves
<1>11. \A q \in Peers \ {p} : UpToDate(q)
  BY <1>3, <1>9 DEF StreakInv, CheckPCs
<1>12. \A q \in Peers \ {p} : UpToDate(q)'
  BY <1>4, <1>8, <1>11 DEF UpToDate, OwnValue, OtherValue, Own, Other
<1>13. OtherValue(p, failed)' = 0
  BY <1>7 DEF OtherValue, ResetCounter, Value, Absent
<1>14. OwnValue(p, failed)' <= streak'[p].length
  BY <1>3, <1>4, <1>5, <1>7 DEF OwnValue, Unreset
<1>15. UpToDate(p)'
  BY <1>2, <1>6, <1>13, <1>14 DEF UpToDate, InRun
<1>16. \A v \in Workers : worker'[v].pc \in {"count", "reset", "turn"} => v = w
  BY <1>9 DEF CheckPCs
<1>17. InRun(worker[w])' /\ worker'[w].pc = "turn"
  BY <1>1, <1>6, <1>10 DEF InRun, Results
<1>. QED
  BY <1>12, <1>15, <1>16, <1>17 DEF StreakInv

LEMMA StepStreak ==
    TypeOK /\ LockInv /\ StreakInv /\ [Next]_vars /\ mishaps' = {} => StreakInv'
<1>. SUFFICES ASSUME TypeOK, LockInv, StreakInv, [Next]_vars, mishaps' = {}
              PROVE  StreakInv'
  OBVIOUS
<1>. USE DEF dict, history
<1>1. ASSUME NEW w \in Workers, BeginCycle(w) PROVE StreakInv'
  BY <1>1, BeginCycleMoves, StreakKept DEF BeginCycle
<1>2. ASSUME NEW w \in Workers, UpgradePeer(w) PROVE StreakInv'
  BY <1>2, UpgradePeerMoves, StreakKept DEF UpgradePeer
<1>3. ASSUME NEW w \in Workers, UpgradeDone(w) PROVE StreakInv'
  BY <1>3, UpgradeDoneMoves, StreakKept DEF UpgradeDone
<1>4. ASSUME NEW w \in Workers, GetLock(w) PROVE StreakInv'
  BY <1>4, GetLockMoves, StreakKept DEF GetLock
<1>5. ASSUME NEW w \in Workers, CheckPeer(w) PROVE StreakInv'
  BY <1>5, CheckPeerStreak
<1>6. ASSUME NEW w \in Workers, SkipPeer(w) PROVE StreakInv'
  BY <1>6, SkipPeerMoves, StreakKept DEF SkipPeer
<1>7. ASSUME NEW w \in Workers, Count(w) PROVE StreakInv'
  BY <1>7, CountStreak
<1>8. ASSUME NEW w \in Workers, Reset(w) PROVE StreakInv'
  BY <1>8, ResetStreak
<1>9. ASSUME NEW w \in Workers, Turn(w) PROVE StreakInv'
  BY <1>9, TurnMoves, StreakKept DEF Turn
<1>10. ASSUME NEW w \in Workers, ChecksDone(w) PROVE StreakInv'
  BY <1>10, ChecksDoneMoves, StreakKept DEF ChecksDone
<1>11. ASSUME NEW w \in Workers, Publish(w) PROVE StreakInv'
  BY <1>11, PublishMoves, StreakKept DEF Publish
<1>12. ASSUME NEW w \in Workers, NothingToPublish(w) PROVE StreakInv'
  BY <1>12, NothingToPublishMoves, StreakKept DEF NothingToPublish
<1>13. ASSUME NEW w \in Workers, Respawn(w) PROVE StreakInv'
  <2>1. worker[w].pc \notin {"count", "reset"} /\ UNCHANGED <<ok, nok, streak>>
    BY <1>13 DEF Respawn, Noted
  <2>. QED
    BY <1>13, <2>1, RespawnMoves, StreakKept
<1>14. ASSUME LockExpires PROVE StreakInv'
  BY <1>14 DEF LockExpires, StreakInv, UpToDate, InRun, Uncounted, Unreset,
               OwnValue, OtherValue, Own, Other
<1>15. CASE UNCHANGED vars
  BY <1>15 DEF vars, StreakInv, UpToDate, InRun, Uncounted, Unreset,
               OwnValue, OtherValue, Own, Other
<1>. QED
  BY <1>1, <1>2, <1>3, <1>4, <1>5, <1>6, <1>7, <1>8, <1>9, <1>10, <1>11, <1>12,
     <1>13, <1>14, <1>15 DEF Next, Cycle

\* What is recorded of a peer changes only when as many checks in a row as
\* configured had that result, whichever workers made them (peer_fail, peer_ok),
\* until the lock expires under a check or a worker dies before it has counted.
THEOREM TurnsSafe == Spec => TurnedInARow
<1>. DEFINE A == mishaps = {} =>
                   /\ \A p \in isDown' \ isDown : InARow(p, TRUE, Fall)
                   /\ \A p \in isDown \ isDown' : InARow(p, FALSE, Rise)
            Inv == mishaps = {} => LockInv /\ StreakInv
<1>1. Init => TypeOK /\ Inv
  BY InitTyped, InitLock, InitStreak
<1>2. TypeOK /\ Inv /\ [Next]_vars => (TypeOK /\ Inv)'
  BY StepTyped, StepLock, StepStreak, MishapsGrow
<1>3. TypeOK /\ Inv /\ [Next]_vars => [A]_isDown
  <2>. SUFFICES ASSUME TypeOK, mishaps = {}, StreakInv, [Next]_vars, isDown' # isDown
                PROVE  A
    OBVIOUS
  <2>1. PICK w \in Workers : Turn(w)
    BY DEF Next, Cycle, vars, dict, BeginCycle, UpgradePeer, UpgradeDone, GetLock,
           CheckPeer, SkipPeer, Count, Reset, ChecksDone, Publish,
           NothingToPublish, Respawn, LockExpires
  <2>. DEFINE ctx == worker[w]
  <2>2. PICK p \in Peers :
          /\ p = ctx.peer /\ ctx.pc = "turn"
          /\ \/ TurnsDown(ctx) /\ isDown' = isDown \cup {p}
             \/ TurnsUp(ctx) /\ isDown' = isDown \ {p}
    BY <2>1, TurnMoves
  <2>3. /\ ctx.failed = streak[p].failed
        /\ Results(ctx) <= streak[p].length
    BY <2>2 DEF StreakInv, InRun
  <2>4. /\ Results(ctx) \in Nat /\ streak[p].length \in Nat
        /\ ctx.failed \in BOOLEAN
    <3>1. ctx \in Ctx
      BY DEF TypeOK
    <3>2. Results(ctx) \in 1..Limit
      BY <3>1, ResultsBounds
    <3>. QED
      BY <3>1, <3>2, LimitBounds DEF TypeOK, Ctx
  <2>. HIDE DEF ctx
  <2>5. CASE TurnsDown(ctx) /\ isDown' = isDown \cup {p}
    <3>1. ctx.failed = TRUE /\ Results(ctx) >= Fall
      BY <2>4, <2>5 DEF TurnsDown
    <3>2. InARow(p, TRUE, Fall)
      BY <2>3, <2>4, <3>1, FallRiseAssumption DEF InARow
    <3>. QED
      BY <2>5, <3>2
  <2>6. CASE TurnsUp(ctx) /\ isDown' = isDown \ {p}
    <3>1. ctx.failed = FALSE /\ Results(ctx) >= Rise
      BY <2>4, <2>6 DEF TurnsUp
    <3>2. InARow(p, FALSE, Rise)
      BY <2>3, <2>4, <3>1, FallRiseAssumption DEF InARow
    <3>. QED
      BY <2>6, <3>2
  <2>. QED
    BY <2>2, <2>5, <2>6
<1>. QED
  BY <1>1, <1>2, <1>3, PTL DEF Spec, TurnedInARow
=============================================================================
