---------------------------- MODULE HealthCheck ----------------------------
(***************************************************************************)
(* lua-resty-upstream-healthcheck: every worker process runs a timer that  *)
(* performs one cycle per interval for an upstream.  The workers share     *)
(* counters, the peers' states and a version number in a dictionary, and   *)
(* each has its own copy of the states, which is what its balancer uses.   *)
(* A cycle brings the copy up to date when the version has grown, tries to *)
(* take the lock, whose holder checks the peers, and publishes a new       *)
(* version when the checks changed a state.  The lock is never released:   *)
(* it expires just before the interval is over, and nothing in the code    *)
(* relates the interval to the time a cycle takes.                         *)
(*                                                                         *)
(* One call on the dictionary is one step (it holds the zone's mutex), and *)
(* between two of them the other workers may do anything.  That the zone   *)
(* runs out of memory or is flushed is not modelled, nor is what makes a   *)
(* check succeed.                                                          *)
(***************************************************************************)
EXTENDS Integers, FiniteSets, FiniteSetsExt

CONSTANTS Workers,
          Peers,
          Fall, Rise,    \* checks in a row that turn a peer down, and up
          MaxVersion,    \* bound: versions published while peers change
          MaxRespawns,   \* bound: worker processes that die
          NoPeer, Nobody, Dead

ASSUME FallRiseAssumption == Fall \in Nat \ {0} /\ Rise \in Nat \ {0}
ASSUME BoundsAssumption == MaxVersion \in Nat /\ MaxRespawns \in Nat
ASSUME NobodyAssumption == Nobody # Dead /\ {Nobody, Dead} \cap Workers = {}

VARIABLES ok, nok,    \* the counters of each peer in the dictionary
          isDown,     \* the "d:" keys: peers recorded as down
          ver,        \* the "v:" key, 0 while there is none
          locked,     \* the "l:" key
          worker,     \* the ctx of each worker and where its cycle is
          respawns    \* worker processes that have died

(* History, for the properties only: of each peer its last result and how  *)
(* often in a row it came, and who recorded its state since a version was  *)
(* published (Dead, when that worker is gone); of each worker whether it   *)
(* has published over a version or a state that it had not read; and what  *)
(* has ever upset the counting: "overrun", when the lock expired under a   *)
(* check, and "death", when a worker died before it had counted a result.  *)
VARIABLES streak, author, skipped, mishaps

dict == <<ok, nok, isDown, ver, locked>>
history == <<streak, author, skipped, mishaps>>
vars == <<dict, worker, respawns, history>>

(* Counters are compared with 1, Fall and Rise only.  A key that does not  *)
(* exist is not a zero: the first result sets it to 1.                     *)
Absent == -1
Limit == Max({Fall, Rise, 2})
Incr(n) == IF n < Limit THEN n + 1 ELSE n

(* version and new_version are the ctx's, down its peers' states, seen the *)
(* version read at the start of the cycle; peer and read, what its counter *)
(* was, are local to the function that counts a result.                    *)
NewCtx == [pc |-> "idle", version |-> 0, new_version |-> FALSE, down |-> {},
           seen |-> 0, todo |-> {}, peer |-> NoPeer, failed |-> FALSE,
           read |-> Absent]

Init == /\ ok = [p \in Peers |-> Absent]
        /\ nok = [p \in Peers |-> Absent]
        /\ isDown = {}
        /\ ver = 0
        /\ locked = FALSE
        /\ worker = [w \in Workers |-> NewCtx]
        /\ respawns = 0
        /\ streak = [p \in Peers |-> [failed |-> FALSE, length |-> 0]]
        /\ author = [p \in Peers |-> Nobody]
        /\ skipped = [w \in Workers |-> FALSE]
        /\ mishaps = {}
----------------------------------------------------------------------------
(* check_peers_updates: a greater version than the worker's sends it to    *)
(* upgrade_peers_version.                                                  *)
Newer(w) == worker[w].version < ver

BeginCycle(w) ==
  /\ worker[w].pc = "idle"
  /\ worker' = [worker EXCEPT ![w].pc = IF Newer(w) THEN "upgrade" ELSE "lock",
                              ![w].todo = IF Newer(w) THEN Peers ELSE {},
                              ![w].seen = IF Newer(w) THEN ver ELSE 0]
  /\ UNCHANGED <<dict, respawns, history>>

(* Fault: learning that peers are down, but never that they are up again.  *)
UpgradedDownOnly(ctx, p) ==
  [ctx EXCEPT !.todo = @ \ {p},
              !.down = IF p \in isDown THEN @ \cup {p} ELSE @]

Upgraded(ctx, p) ==
  [ctx EXCEPT !.todo = @ \ {p},
              !.down = IF p \in isDown THEN @ \cup {p} ELSE @ \ {p}]

(* upgrade_peers_version: one state is read and taken over.                *)
UpgradePeer(w) ==
  /\ worker[w].pc = "upgrade"
  /\ \E p \in worker[w].todo :
       worker' = [worker EXCEPT ![w] = Upgraded(@, p)]
  /\ UNCHANGED <<dict, respawns, history>>

(* Fault: the version is read anew after the states.                       *)
UpgradeDoneRereads(w) ==
  /\ worker[w].pc = "upgrade"
  /\ worker[w].todo = {}
  /\ worker' = [worker EXCEPT ![w].pc = "lock", ![w].version = ver,
                              ![w].seen = 0]
  /\ skipped' = [skipped EXCEPT ![w] = FALSE]
  /\ UNCHANGED <<dict, respawns, streak, author, mishaps>>

(* The version that was read first is the worker's once all are read; a    *)
(* state read from a later version is read again with that version.        *)
UpgradeDone(w) ==
  /\ worker[w].pc = "upgrade"
  /\ worker[w].todo = {}
  /\ worker' = [worker EXCEPT ![w].pc = "lock", ![w].version = worker[w].seen,
                              ![w].seen = 0]
  /\ skipped' = [skipped EXCEPT ![w] = FALSE]
  /\ UNCHANGED <<dict, respawns, streak, author, mishaps>>

(* Fault: the key is looked at, but not added.                             *)
GetLockUnset(w) ==
  /\ worker[w].pc = "lock"
  /\ worker' = [worker EXCEPT ![w].pc = IF locked THEN "publish" ELSE "check",
                              ![w].todo = IF locked THEN {} ELSE Peers]
  /\ UNCHANGED <<dict, respawns, history>>

(* get_lock: dict:add fails while the key is there.                        *)
GetLock(w) ==
  /\ worker[w].pc = "lock"
  /\ worker' = [worker EXCEPT ![w].pc = IF locked THEN "publish" ELSE "check",
                              ![w].todo = IF locked THEN {} ELSE Peers]
  /\ locked' = TRUE
  /\ UNCHANGED <<ok, nok, isDown, ver, respawns, history>>

CheckPCs == {"check", "count", "reset", "turn"}
Checking(w) == worker[w].pc \in CheckPCs

Noted(kind, happens) == IF happens THEN mishaps \cup {kind} ELSE mishaps

(* The time to live of the lock ends, whatever the workers are doing: no   *)
(* code relates it to the time that checks take.                           *)
LockExpires ==
  /\ locked
  /\ locked' = FALSE
  /\ mishaps' = Noted("overrun", \E w \in Workers : Checking(w))
  /\ UNCHANGED <<ok, nok, isDown, ver, worker, respawns, streak, author, skipped>>

Counting(ctx, p, failed, n) ==
  [ctx EXCEPT !.pc = "count", !.peer = p, !.failed = failed, !.todo = @ \ {p},
              !.read = n]

(* check_peer, up to the first call on the dictionary in peer_ok or        *)
(* peer_fail: the result of the check, and the counter it is added to.     *)
(* Peers are checked in turn or by several light threads, and a result may *)
(* arrive in any order.  (Once MaxVersion is reached, results confirm the  *)
(* recorded states, so that a run stays finite.)                           *)
CheckPeer(w) ==
  /\ worker[w].pc = "check"
  /\ \E p \in worker[w].todo, failed \in BOOLEAN :
       /\ ver < MaxVersion \/ (failed <=> p \in isDown)
       /\ LET before == IF failed THEN nok[p] ELSE ok[p]
              run    == IF streak[p].failed = failed
                        THEN streak[p].length ELSE 0
          IN  /\ worker' = [worker EXCEPT ![w] = Counting(@, p, failed, before)]
              /\ streak' = [streak EXCEPT ![p] = [failed |-> failed,
                                                 length |-> Incr(run)]]
  /\ UNCHANGED <<dict, respawns, author, skipped, mishaps>>

(* A check that cannot create its socket counts as nothing.                *)
SkipPeer(w) ==
  /\ worker[w].pc = "check"
  /\ \E p \in worker[w].todo : worker' = [worker EXCEPT ![w].todo = @ \ {p}]
  /\ UNCHANGED <<dict, respawns, history>>

(* fails and succ: the number of results in a row, as the worker that read *)
(* the counter has it.                                                     *)
Results(ctx) == IF ctx.read = Absent THEN 1 ELSE Incr(ctx.read)

(* peer_fail and peer_ok: the counter is set to 1 if it was not there when *)
(* it was read, and incremented if it was.                                 *)
Counted(ctx, counter) == IF ctx.read = Absent THEN 1 ELSE Incr(counter)

Count(w) ==
  /\ worker[w].pc = "count"
  /\ LET ctx == worker[w]
     IN  \/ /\ ctx.failed
            /\ nok' = [nok EXCEPT ![ctx.peer] = Counted(ctx, @)]
            /\ UNCHANGED ok
         \/ /\ ~ctx.failed
            /\ ok' = [ok EXCEPT ![ctx.peer] = Counted(ctx, @)]
            /\ UNCHANGED nok
  /\ worker' = [worker EXCEPT ![w].pc = IF Results(worker[w]) = 1 THEN "reset"
                                        ELSE "turn"]
  /\ UNCHANGED <<isDown, ver, locked, respawns, history>>

(* Fault: a result leaves the other counter as it is.                      *)
NotReset(counter) == counter

(* The first result of a run resets the other counter, if there is one.    *)
ResetCounter(counter) == IF counter = Absent THEN Absent ELSE 0

Reset(w) ==
  /\ worker[w].pc = "reset"
  /\ LET ctx == worker[w]
     IN  \/ /\ ctx.failed
            /\ ok' = [ok EXCEPT ![ctx.peer] = ResetCounter(@)]
            /\ UNCHANGED nok
         \/ /\ ~ctx.failed
            /\ nok' = [nok EXCEPT ![ctx.peer] = ResetCounter(@)]
            /\ UNCHANGED ok
  /\ worker' = [worker EXCEPT ![w].pc = "turn"]
  /\ UNCHANGED <<isDown, ver, locked, respawns, history>>

TurnsDown(ctx) ==
  ctx.failed /\ ctx.peer \notin ctx.down /\ Results(ctx) >= Fall
TurnsUp(ctx) ==
  ~ctx.failed /\ ctx.peer \in ctx.down /\ Results(ctx) >= Rise

(* The context after a result is counted, with the states and the mark it  *)
(* leaves.                                                                 *)
Turned(ctx, down, new_version) ==
  [ctx EXCEPT !.pc = "check", !.peer = NoPeer, !.failed = FALSE,
              !.read = Absent, !.down = down, !.new_version = new_version]

(* set_peer_down_globally changes the worker's state, remembers that there *)
(* is a version to publish, and records the state in the dictionary.       *)
Turn(w) ==
  /\ worker[w].pc = "turn"
  /\ LET ctx == worker[w]
         p   == ctx.peer
     IN  \/ /\ TurnsDown(ctx)
            /\ worker' = [worker EXCEPT ![w] = Turned(@, @.down \cup {p}, TRUE)]
            /\ isDown' = isDown \cup {p}
            /\ author' = [author EXCEPT ![p] = w]
         \/ /\ TurnsUp(ctx)
            /\ worker' = [worker EXCEPT ![w] = Turned(@, @.down \ {p}, TRUE)]
            /\ isDown' = isDown \ {p}
            /\ author' = [author EXCEPT ![p] = w]
         \/ /\ ~TurnsDown(ctx) /\ ~TurnsUp(ctx)
            /\ worker' = [worker EXCEPT ![w] = Turned(@, @.down, @.new_version)]
            /\ UNCHANGED <<isDown, author>>
  /\ UNCHANGED <<ok, nok, ver, locked, respawns, streak, skipped, mishaps>>

(* Fault: the light threads that check the other peers are not waited for. *)
ChecksLeft(w) ==
  /\ worker[w].pc = "check"
  /\ worker' = [worker EXCEPT ![w].pc = "publish"]
  /\ UNCHANGED <<dict, respawns, history>>

ChecksDone(w) ==
  /\ worker[w].pc = "check"
  /\ worker[w].todo = {}
  /\ worker' = [worker EXCEPT ![w].pc = "publish"]
  /\ UNCHANGED <<dict, respawns, history>>

(* The end of do_check.  Only the add and the increment of the key itself  *)
(* touch it, so they are one step.  The worker takes over what incr makes  *)
(* of the version, and with it versions of others that it has not read.    *)
Publish(w) ==
  /\ worker[w].pc = "publish"
  /\ worker[w].new_version
  /\ ver' = ver + 1
  /\ worker' = [worker EXCEPT ![w].version = ver + 1, ![w].new_version = FALSE,
                              ![w].pc = "idle"]
  /\ skipped' = [skipped EXCEPT ![w] =
                    @ \/ worker[w].version # ver
                      \/ \E p \in Peers : author[p] \notin {Nobody, w}]
  /\ author' = [p \in Peers |-> Nobody]
  /\ UNCHANGED <<ok, nok, isDown, locked, respawns, streak, mishaps>>

NothingToPublish(w) ==
  /\ worker[w].pc = "publish"
  /\ ~worker[w].new_version
  /\ worker' = [worker EXCEPT ![w].pc = "idle"]
  /\ UNCHANGED <<dict, respawns, history>>

(* A worker process dies at any point, and the one that replaces it starts *)
(* a checker of its own, with the states as configured and version 0.      *)
Respawn(w) ==
  /\ respawns < MaxRespawns
  /\ respawns' = respawns + 1
  /\ worker' = [worker EXCEPT ![w] = NewCtx]
  /\ author' = [p \in Peers |-> IF author[p] = w THEN Dead ELSE author[p]]
  /\ skipped' = [skipped EXCEPT ![w] = FALSE]
  /\ mishaps' = Noted("death", worker[w].pc \in {"count", "reset"})
  /\ UNCHANGED <<dict, streak>>

Cycle(w) == \/ BeginCycle(w) \/ UpgradePeer(w) \/ UpgradeDone(w)
            \/ GetLock(w) \/ CheckPeer(w) \/ SkipPeer(w) \/ Count(w)
            \/ Reset(w) \/ Turn(w) \/ ChecksDone(w) \/ Publish(w) \/ NothingToPublish(w)

Next == \/ \E w \in Workers : Cycle(w) \/ Respawn(w)
        \/ LockExpires

Spec == Init /\ [][Next]_vars

(* The timer of each worker goes on firing, and its cycle goes on: every   *)
(* wait inside it has a timeout.                                           *)
FairSpec == Spec /\ \A w \in Workers : WF_vars(Cycle(w))
----------------------------------------------------------------------------
PCs == {"idle", "upgrade", "lock", "publish"} \cup CheckPCs

Ctx == [pc: PCs, version: Nat, new_version: BOOLEAN, down: SUBSET Peers,
        seen: Nat, todo: SUBSET Peers, peer: Peers \cup {NoPeer},
        failed: BOOLEAN, read: Absent..Limit]

FitsCycle(ctx, v) ==
  /\ ctx.version <= v /\ ctx.seen <= v
  /\ ctx.pc \in {"count", "reset", "turn"} => ctx.peer \in Peers
  /\ ctx.todo # {} => ctx.pc \in {"upgrade"} \cup CheckPCs

(* Types.  In particular a worker is never ahead of the dictionary, leaves *)
(* no peer out of a cycle but by skipping it (check_peers waits for all    *)
(* light threads), and knows the peer whose result it counts.              *)
TypeOK ==
  /\ ok \in [Peers -> Absent..Limit] /\ nok \in [Peers -> Absent..Limit]
  /\ isDown \subseteq Peers
  /\ ver \in Nat
  /\ locked \in BOOLEAN
  /\ worker \in [Workers -> Ctx]
  /\ \A w \in Workers : FitsCycle(worker[w], ver)
  /\ respawns \in 0..MaxRespawns
  /\ streak \in [Peers -> [failed: BOOLEAN, length: 0..Limit]]
  /\ author \in [Peers -> Workers \cup {Nobody, Dead}]
  /\ skipped \in [Workers -> BOOLEAN]
  /\ mishaps \subseteq {"overrun", "death"}

(* The lock keeps two workers from checking the peers at the same time     *)
(* (get_lock), as long as it has never expired while its holder was        *)
(* checking, and also when a holder dies.                                  *)
OneChecker == "overrun" \notin mishaps =>
                \A v, w \in Workers : Checking(v) /\ Checking(w) => v = w

Knows(w, p) == p \in worker[w].down <=> p \in isDown

(* A worker that has the current version has the published states, however *)
(* its reads interleave with the checks of others that outlast the lock,   *)
(* and whoever dies.  It can be wrong only when it got the version by      *)
(* publishing over one that it had not read (do_check); a state recorded   *)
(* since the version is known to nobody but its author.                    *)
CurrentWorkersAgree ==
  \A w \in Workers : worker[w].version = ver /\ ~skipped[w] =>
    \A p \in Peers : author[p] \in {Nobody, w} => Knows(w, p)

InARow(p, failed, n) == streak[p].failed = failed /\ streak[p].length >= n

(* A peer is recorded as down only after Fall checks in a row failed, and  *)
(* as up again only after Rise in a row succeeded, although the checks are *)
(* spread over the workers (peer_fail, peer_ok): unless two of them have   *)
(* counted at the same time, or one has died before it had counted.        *)
TurnedInARow ==
  [][mishaps = {} => /\ \A p \in isDown' \ isDown : InARow(p, TRUE, Fall)
                     /\ \A p \in isDown \ isDown' : InARow(p, FALSE, Rise)]_isDown

(* Every worker learns of every state: it does not keep its own for ever   *)
(* while another one is recorded (upgrade_peers_version), except after it  *)
(* published over a version it had not read, and except for a state whose  *)
(* author died before it published.                                        *)
WorkersLearn ==
  \A w \in Workers, p \in Peers :
    []<>(Knows(w, p) \/ skipped[w] \/ author[p] = Dead)
=============================================================================
