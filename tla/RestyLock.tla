----------------------------- MODULE RestyLock -----------------------------
(***************************************************************************)
(* resty.lock: a lock with a lease, shared by all worker processes, built  *)
(* on one entry of an lua_shared_dict (lua-resty-lock's lock.lua on top of *)
(* ShdictCore).  Taking the lock is dict:add with an expiration time,      *)
(* waiting is polling with ngx.sleep, releasing is dict:delete.            *)
(*                                                                         *)
(* Time.  Only differences of times matter to the code, so the true time   *)
(* is always Base and a Tick moves every other time stamp one unit into    *)
(* the past.  A worker sees the time it last cached.                       *)
(***************************************************************************)
EXTENDS ShdictCore

CONSTANTS
    Lockers,               \* a locker is a light thread with an object of its own
    Home,                  \* Home[l]: the worker process l runs in
    LockKey,               \* the key everybody locks; other keys are other locks
    NoLocker,
    Exptime, Timeout, Step, MaxStep,   \* the options of resty.lock:new
    Base, MaxLag           \* bound: how far a worker's cached time lags

ASSUME LockAssumption ==
    /\ LockKey \in Keys /\ NoLocker \notin Lockers /\ IsFiniteSet(Lockers)
    /\ Home \in [Lockers -> Workers]
    /\ {Exptime, Timeout, Step, MaxStep, MaxLag} \subseteq Nat
    /\ Exptime > 0 /\ 0 < Step /\ Step <= Timeout /\ MaxStep > 0
    /\ Base \in Nat /\ Base > MaxLag + 1

VARIABLES
    memo,                  \* memo[w]: lock.lua's table of references
    pc,                    \* pc[l]: "none" (no object), "idle" or "sleeping"
    key_id, dict_id,       \* the fields of l's cdata
    timeout, step, wake,   \* the locals of a lock() that sleeps, its timer
    owner,                 \* history: whose add made the entry of LockKey
    lease,                 \* history: when the lease of l ends, 0 if it has none
    disturbed              \* history: somebody tampered with a foreign lease

lockVars == <<dict, clock, memo, pc, key_id, dict_id, timeout, step, wake, owner,
          lease, disturbed>>

waiting == <<timeout, step, wake>>

Locked == [type |-> "boolean", len |-> 1]

LockInit ==
    /\ dict = Empty
    /\ clock = [w \in Workers |-> Base]
    /\ memo = [w \in Workers |-> [free |-> <<>>, refs |-> <<>>]]
    /\ pc = [l \in Lockers |-> "none"]
    /\ key_id = [l \in Lockers |-> 0]
    /\ dict_id = [l \in Lockers |-> 0]
    /\ timeout = [l \in Lockers |-> 0]
    /\ step = [l \in Lockers |-> 0]
    /\ wake = [l \in Lockers |-> 0]
    /\ owner = NoLocker
    /\ lease = [l \in Lockers |-> 0]
    /\ disturbed = FALSE

----------------------------------------------------------------------------
(* Time.                                                                   *)

Earlier(t) == IF t > 1 THEN t - 1 ELSE t

Tick ==
    /\ \A w \in Workers : clock[w] > Base - MaxLag
    /\ clock' = [w \in Workers |-> clock[w] - 1]
    /\ dict' = [dict EXCEPT !.tree = [k \in Keys |->
                   IF dict.tree[k] = NoEntry THEN NoEntry
                   ELSE [dict.tree[k] EXCEPT !.expires = Earlier(dict.tree[k].expires)]]]
    /\ wake' = [l \in Lockers |-> Earlier(wake[l])]
    /\ lease' = [l \in Lockers |-> IF lease[l] - 1 <= Base THEN 0 ELSE lease[l] - 1]
    /\ UNCHANGED <<memo, pc, key_id, dict_id, timeout, step, owner, disturbed>>

WorkerUpdatesTime(w) ==
    /\ clock[w] # Base
    /\ clock' = [clock EXCEPT ![w] = Base]
    /\ UNCHANGED <<dict, memo, pc, key_id, dict_id, waiting, owner, lease,
                   disturbed>>

----------------------------------------------------------------------------
(* memo: references to values, with a list of the slots that are free.     *)

Slot(m) == IF m.free # <<>> THEN Head(m.free) ELSE Len(m.refs) + 1

\* Fault: a slot taken from the free list stays on it.
ref_obj_keeps_free(m, val) ==
    IF m.free # <<>> THEN [m EXCEPT !.refs = [m.refs EXCEPT ![Slot(m)] = val]]
                     ELSE [free |-> <<>>, refs |-> Append(m.refs, val)]

ref_obj(m, val) ==
    IF m.free # <<>> THEN [free |-> Tail(m.free), refs |-> [m.refs EXCEPT ![Slot(m)] = val]]
                     ELSE [free |-> <<>>, refs |-> Append(m.refs, val)]

unref_obj(m, ref) == [free |-> <<ref>> \o m.free, refs |-> [m.refs EXCEPT ![ref] = "free"]]

----------------------------------------------------------------------------
(* The methods.                                                            *)

Now(l) == clock[Home[l]]

New(l) ==
    /\ pc[l] = "none"
    /\ pc' = [pc EXCEPT ![l] = "idle"]
    /\ dict_id' = [dict_id EXCEPT ![l] = Slot(memo[Home[l]])]
    /\ memo' = [memo EXCEPT ![Home[l]] = ref_obj(@, "dict")]
    /\ UNCHANGED <<dict, clock, key_id, waiting, owner, lease, disturbed>>

\* Faults: the wrong method, no expiration time.
TrySet(l) == Store(dict, "set", LockKey, Locked, Exptime, Now(l))
TryAddForever(l) == Store(dict, "add", LockKey, Locked, 0, Now(l))

TryAdd(l) == Store(dict, "add", LockKey, Locked, Exptime, Now(l))

\* dict:add succeeded: the object remembers the key.
Acquires(l) ==
    /\ key_id' = [key_id EXCEPT ![l] = Slot(memo[Home[l]])]
    /\ memo' = [memo EXCEPT ![Home[l]] = ref_obj(@, "key")]
    /\ owner' = l
    /\ lease' = [lease EXCEPT ![l] = Now(l) + Exptime]

StopsWaiting(l) == /\ pc' = [pc EXCEPT ![l] = "idle"]
                   /\ timeout' = [timeout EXCEPT ![l] = 0]
                   /\ step' = [step EXCEPT ![l] = 0]
                   /\ wake' = [wake EXCEPT ![l] = 0]

Sleeps(l, left, for) == /\ pc' = [pc EXCEPT ![l] = "sleeping"]
                        /\ timeout' = [timeout EXCEPT ![l] = left]
                        /\ step' = [step EXCEPT ![l] = for]
                        /\ wake' = [wake EXCEPT ![l] = Now(l) + for]

\* The first try.  Answers of add other than success and "exists" end the
\* call at once.
LockNow(l) ==
    /\ pc[l] = "idle" /\ key_id[l] = 0
    /\ \E add \in {TryAdd(l)} :
         /\ dict' = add.dict
         /\ add.res # "exists"
         /\ IF add.res = "ok" THEN Acquires(l)
                              ELSE UNCHANGED <<key_id, memo, owner, lease>>
    /\ UNCHANGED <<clock, pc, dict_id, waiting, disturbed>>

LockWaits(l) ==
    /\ pc[l] = "idle" /\ key_id[l] = 0
    /\ \E add \in {TryAdd(l)} : add.res = "exists" /\ dict' = add.dict
    /\ Timeout > 0
    /\ Sleeps(l, Timeout, Step)
    /\ UNCHANGED <<clock, memo, key_id, dict_id, owner, lease, disturbed>>

\* The steps grow by the ratio, and are cut to what is left of the timeout.
NextStep(l, left) == Min({Max({1, step[l] * 2}), left, MaxStep})

\* What is left of the timeout after the sleep that is over.
Left(l) == timeout[l] - step[l]

Due(l) == pc[l] = "sleeping" /\ Now(l) >= wake[l]

\* ngx.sleep is over and lock() tries again; unless somebody else still has the
\* lock and there is time left to sleep, it returns.
LockRetries(l) ==
    /\ Due(l)
    /\ \E add \in {TryAdd(l)}, left \in {Left(l)} :
         /\ dict' = add.dict
         /\ IF add.res = "ok" THEN Acquires(l)
                              ELSE UNCHANGED <<key_id, memo, owner, lease>>
         /\ IF add.res = "exists" /\ left > 0
              THEN Sleeps(l, left, NextStep(l, left))
              ELSE StopsWaiting(l)
    /\ UNCHANGED <<clock, dict_id, disturbed>>

\* l deletes the entry of the lock, whoever added it.
DeletesEntry(l) ==
    /\ dict' = Delete(dict, LockKey, Now(l)).dict
    /\ disturbed' = (disturbed \/ (dict.tree[LockKey] # NoEntry /\ owner # l))
    /\ owner' = NoLocker

Unlock(l) ==
    /\ pc[l] = "idle" /\ key_id[l] > 0
    /\ memo' = [memo EXCEPT ![Home[l]] = unref_obj(@, key_id[l])]
    /\ DeletesEntry(l)
    /\ key_id' = [key_id EXCEPT ![l] = 0]
    /\ lease' = [lease EXCEPT ![l] = 0]
    /\ UNCHANGED <<clock, pc, dict_id, waiting>>

\* lock:expire(time) replaces the entry if there is one.
ExpireLock(l, time) ==
    /\ pc[l] = "idle" /\ key_id[l] > 0
    /\ LET a == Store(dict, "replace", LockKey, Locked, time, Now(l)) IN
         /\ dict' = a.dict
         /\ lease' = [lease EXCEPT ![l] = IF a.res = "ok" THEN Now(l) + time ELSE @]
         /\ disturbed' = (disturbed \/ (a.res = "ok" /\ owner # l))
    /\ UNCHANGED <<clock, memo, pc, key_id, dict_id, waiting, owner>>

\* The object becomes garbage; its __gc releases a lock it still holds.
GcLock(l) ==
    /\ pc[l] = "idle"
    /\ pc' = [pc EXCEPT ![l] = "none"]
    /\ dict_id' = [dict_id EXCEPT ![l] = 0]
    /\ key_id' = [key_id EXCEPT ![l] = 0]
    /\ memo' = [memo EXCEPT ![Home[l]] =
                   unref_obj(IF key_id[l] > 0 THEN unref_obj(@, key_id[l]) ELSE @,
                             dict_id[l])]
    /\ IF key_id[l] > 0 THEN DeletesEntry(l)
                        ELSE UNCHANGED <<dict, disturbed, owner>>
    /\ lease' = [lease EXCEPT ![l] = 0]
    /\ UNCHANGED <<clock, waiting>>

----------------------------------------------------------------------------
(* The environment.                                                        *)

Of(w, f, default) == [l \in Lockers |-> IF Home[l] = w THEN default ELSE f[l]]

\* A worker process dies and is started again: its Lua VM is gone, the shared
\* memory is not.
Crash(w) ==
    /\ \E l \in Lockers : Home[l] = w /\ pc[l] # "none"
    /\ memo' = [memo EXCEPT ![w] = [free |-> <<>>, refs |-> <<>>]]
    /\ pc' = Of(w, pc, "none")
    /\ key_id' = Of(w, key_id, 0) /\ dict_id' = Of(w, dict_id, 0)
    /\ timeout' = Of(w, timeout, 0) /\ step' = Of(w, step, 0)
    /\ wake' = Of(w, wake, 0) /\ lease' = Of(w, lease, 0)
    /\ UNCHANGED <<dict, clock, owner, disturbed>>

\* Somebody takes a lock on another key in the same zone, which may be too
\* small for all of them: add evicts.
OtherLock(w, k) ==
    /\ k # LockKey
    /\ dict' = Store(dict, "add", k, Locked, Exptime, clock[w]).dict
    /\ disturbed' = (disturbed \/ (/\ dict.tree[LockKey] # NoEntry
                                   /\ ~HasExpired(dict.tree[LockKey], clock[w])
                                   /\ dict'.tree[LockKey] = NoEntry))
    /\ UNCHANGED <<clock, memo, pc, key_id, dict_id, waiting, owner, lease>>

LockerNext(l) ==
    \/ New(l) \/ LockNow(l) \/ LockWaits(l) \/ LockRetries(l)
    \/ Unlock(l) \/ ExpireLock(l, Exptime) \/ GcLock(l)

LockNext ==
    \/ Tick
    \/ \E w \in Workers : \/ WorkerUpdatesTime(w) \/ Crash(w)
                          \/ \E k \in Keys : OtherLock(w, k)
    \/ \E l \in Lockers : LockerNext(l)

(***************************************************************************)
(* Time passes, workers turn their event loops, and timers that are due    *)
(* fire.  A sleeper that is due stays due until LockRetries takes it, so   *)
(* that "not due again and again" is weak fairness of LockRetries.         *)
(***************************************************************************)
Fairness == /\ WF_lockVars(Tick)
            /\ \A w \in Workers : WF_lockVars(WorkerUpdatesTime(w))
            /\ \A l \in Lockers : []<>~Due(l)

LockSpec == LockInit /\ [][LockNext]_lockVars
FairLockSpec == LockSpec /\ Fairness

----------------------------------------------------------------------------
Times == 0..(Base + Exptime)

LockTypeOK ==
    /\ \A k \in Present(dict) : dict.tree[k].expires \in Times
    /\ clock \in [Workers -> (Base - MaxLag)..Base]
    /\ pc \in [Lockers -> {"none", "idle", "sleeping"}]
    /\ key_id \in [Lockers -> Nat] /\ dict_id \in [Lockers -> Nat]
    /\ timeout \in [Lockers -> 0..Timeout]
    /\ step \in [Lockers -> 0..Max({Step, MaxStep})]
    /\ wake \in [Lockers -> Nat]
    /\ owner \in Lockers \cup {NoLocker}
    /\ lease \in [Lockers -> Times]
    /\ disturbed \in BOOLEAN

\* l believes it holds the lock, and its lease is not over by the true time.
HoldsValidly(l) == key_id[l] > 0 /\ lease[l] > Base

\* Mutual exclusion across processes whose clocks disagree, for as long as no
\* object deletes or renews a lease that is not its own and no valid entry was
\* evicted: two objects never hold the lock with valid leases, and a valid
\* lease is protected by the entry its owner added.
MutualExclusion ==
    ~disturbed =>
        \A l \in Lockers : HoldsValidly(l) =>
            /\ owner = l
            /\ dict.tree[LockKey] # NoEntry
            /\ dict.tree[LockKey].expires = lease[l]

\* Handles are never shared: each live handle of a worker (the key and the zone
\* of each object) has a slot of its own that still holds what was put there,
\* so unlock and __gc delete the right key from the right zone (ref_obj).
HandlesDistinct ==
    \A w \in Workers :
        LET keys == {l \in Lockers : Home[l] = w /\ key_id[l] > 0}
            dicts == {l \in Lockers : Home[l] = w /\ dict_id[l] > 0}
            m == memo[w]
        IN  /\ \A l \in keys : m.refs[key_id[l]] = "key"
            /\ \A l \in dicts : m.refs[dict_id[l]] = "dict"
            /\ \A l1, l2 \in keys : key_id[l1] = key_id[l2] => l1 = l2
            /\ \A l1, l2 \in dicts : dict_id[l1] = dict_id[l2] => l1 = l2
            /\ Cardinality(keys) + Cardinality(dicts) + Len(m.free) = Len(m.refs)

HandlesSound == LockTypeOK /\ HandlesDistinct

\* README of lua-resty-lock: "deadlock won't happen even when the worker process
\* holding the lock crashes".  An entry no object owns is over some time.
Orphan == /\ dict.tree[LockKey] # NoEntry
          /\ ~HasExpired(dict.tree[LockKey], Base)
          /\ \A l \in Lockers : key_id[l] = 0
OrphanReleased == Orphan ~> ~Orphan

\* Every lock() returns, with the lock or with "timeout".
LockReturns == \A l \in Lockers : pc[l] = "sleeping" ~> pc[l] # "sleeping"

\* Neither a crash of the owner nor the waiting loop keeps anybody for ever.
NobodyStuck == OrphanReleased /\ LockReturns
=============================================================================
