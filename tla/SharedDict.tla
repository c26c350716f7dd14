----------------------------- MODULE SharedDict -----------------------------
(***************************************************************************)
(* An lua_shared_dict zone used by the worker processes of one nginx.      *)
(* Each call runs under the zone's mutex, so a call is one step; but       *)
(*   - a worker tells the time by the clock it cached at the start of its  *)
(*     event loop turn, so workers disagree about what has expired, and    *)
(*   - lpush and rpush read the length they return after they unlocked.    *)
(***************************************************************************)
EXTENDS ShdictCore

CONSTANTS NoPush,
          StartTime, MaxTime,  \* bound: the milliseconds of one behaviour
          MaxPending,          \* bound: pushes that have not returned
          TTLs                 \* exptime arguments, 0 = never expires

ASSUME DictAssumption == /\ StartTime \in Nat \ {0, 1} /\ MaxTime \in Nat
                         /\ StartTime <= MaxTime
                         /\ MaxPending \in Nat
                         /\ TTLs \subseteq Nat /\ IsFiniteSet(TTLs) /\ TTLs # {}

VARIABLE pend      \* pend[w]: a push of w that unlocked but has not returned

vars == <<dict, clock, pend>>

Init == /\ dict = Empty
        /\ clock = [w \in Workers |-> StartTime]
        /\ pend = [w \in Workers |-> NoPush]

StoreOps == {"set", "safe_set", "add", "safe_add", "replace"}

----------------------------------------------------------------------------
UpdateTime(w) == /\ clock[w] < MaxTime
                 /\ clock' = [clock EXCEPT ![w] = @ + 1]
                 /\ UNCHANGED <<dict, pend>>

\* Worker w makes a call whose effect and answer are a.
Call(w, a) == /\ pend[w] = NoPush
              /\ dict' = a.dict
              /\ UNCHANGED <<clock, pend>>

StoreCall(w) == \E op \in StoreOps, k \in Keys, v \in Values, ttl \in TTLs :
                    Call(w, Store(dict, op, k, v, ttl, clock[w]))
DeleteCall(w) == \E k \in Keys : Call(w, Delete(dict, k, clock[w]))
IncrCall(w) == \E k \in Keys, hasInit \in BOOLEAN, ttl \in TTLs :
                    Call(w, Incr(dict, k, hasInit, ttl, clock[w]))
GetCall(w) == \E k \in Keys : Call(w, Get(dict, k, clock[w]))
GetStaleCall(w) == \E k \in Keys : Call(w, GetStale(dict, k, clock[w]))
LlenCall(w) == \E k \in Keys : Call(w, Llen(dict, k, clock[w]))
PopCall(w) == \E k \in Keys : Call(w, Pop(dict, k, clock[w]))
FlushExpiredCall(w) == \E n \in 0..1 : Call(w, FlushExpired(dict, n, clock[w]))
FlushAllCall(w) == Call(w, FlushAll(dict, clock[w]))
SetExpireCall(w) == \E k \in Keys, ttl \in TTLs :
                    Call(w, SetExpire(dict, k, ttl, clock[w]))

\* A push that succeeds has unlocked the mutex but not read sd->value_len yet.
PushCall(w, k) ==
    /\ pend[w] = NoPush
    /\ Cardinality({u \in Workers : pend[u] # NoPush}) < MaxPending
    /\ LET a == Push(dict, k, clock[w]) IN
         /\ dict' = a.dict
         /\ pend' = [pend EXCEPT ![w] =
                        IF a.res = "ok" THEN [key |-> k, len |-> a.dict.tree[k].len]
                                        ELSE NoPush]
    /\ UNCHANGED clock

\* What the unlocked read may find: the length the list has by now, or, when
\* the node has been freed, whatever its memory holds.
ReadsOf(k) == IF dict.tree[k] # NoEntry /\ dict.tree[k].type = "list"
              THEN {dict.tree[k].len} ELSE 0..Capacity

PushReturns(w, n) == /\ pend[w] # NoPush
                     /\ n \in ReadsOf(pend[w].key)
                     /\ pend' = [pend EXCEPT ![w] = NoPush]
                     /\ UNCHANGED <<dict, clock>>

Next == \E w \in Workers :
            \/ UpdateTime(w)
            \/ StoreCall(w) \/ DeleteCall(w) \/ IncrCall(w)
            \/ GetCall(w) \/ GetStaleCall(w) \/ LlenCall(w) \/ SetExpireCall(w)
            \/ PopCall(w) \/ FlushExpiredCall(w) \/ FlushAllCall(w)
            \/ \E k \in Keys : PushCall(w, k)
            \/ \E n \in 0..Capacity : PushReturns(w, n)

Spec == Init /\ [][Next]_vars

----------------------------------------------------------------------------
TypeOK ==
    /\ \A k \in Present(dict) :
         /\ dict.tree[k].type \in Types
         /\ dict.tree[k].len \in 0..Capacity
         /\ dict.tree[k].expires \in 0..(MaxTime + Max(TTLs))
    /\ dict.lru \in Seq(Keys)
    /\ dict.used \in 0..Capacity
    /\ clock \in [Workers -> StartTime..MaxTime]
    /\ pend \in [Workers -> {NoPush} \cup [key : Keys, len : 1..Capacity]]

\* The tree and the queue hold the same nodes, whichever of the many places
\* that unlink a node was taken; no memory leaks and none is freed twice, list
\* elements included; and a list that is visible has an element, so that the "bad lua list length"
\* error of lpop and rpop cannot occur.
ZoneConsistent ==
    /\ Range(dict.lru) = Present(dict)
    /\ Len(dict.lru) = Cardinality(Present(dict))
    /\ dict.used = MapThenSumSet(LAMBDA k : Size(dict.tree[k]), Keys)
    /\ \A k \in Present(dict) : dict.tree[k].len > 0

Alive(D, k, now) == D.tree[k] # NoEntry /\ ~HasExpired(D.tree[k], now)

\* Call a of key k leaves every unexpired item of another key as it is.
SparesOthers(a, k, now) ==
    \A j \in Keys \ {k} : Alive(dict, j, now) => a.dict.tree[j] = dict.tree[j]

\* safe_set, safe_add, lpush, rpush and every call that stores nothing spare
\* the unexpired items of all other keys, however full the zone is: README of
\* ngx_lua, "never overrides the (least recently used) unexpired items".
GentleCallsSpareOthers ==
    \A w \in Workers, k \in Keys : LET now == clock[w] IN
        /\ \A op \in {"safe_set", "safe_add"}, v \in Values, ttl \in TTLs :
              SparesOthers(Store(dict, op, k, v, ttl, now), k, now)
        /\ SparesOthers(Incr(dict, k, FALSE, 0, now), k, now)
        /\ SparesOthers(Delete(dict, k, now), k, now)
        /\ SparesOthers(Get(dict, k, now), k, now)
        /\ SparesOthers(Llen(dict, k, now), k, now)
        /\ SparesOthers(Push(dict, k, now), k, now)
        /\ SparesOthers(Pop(dict, k, now), k, now)
        /\ SparesOthers(FlushExpired(dict, 0, now), k, now)

\* When call a of key k drops an unexpired item of another key it reports
\* forcible, and everything used less recently than that item has gone too.
EvictsOldestFirst(a, k, now) ==
    \A i \in DOMAIN dict.lru : LET j == dict.lru[i] IN
        (j # k /\ Alive(dict, j, now) /\ a.dict.tree[j] = NoEntry) =>
            /\ a.forcible
            /\ \A m \in (i + 1)..Len(dict.lru) :
                  dict.lru[m] # k => a.dict.tree[dict.lru[m]] = NoEntry

\* Eviction by set, add, replace and incr is announced and in LRU order.
EvictionIsLRU ==
    \A w \in Workers, k \in Keys, ttl \in TTLs : LET now == clock[w] IN
        /\ \A op \in {"set", "add", "replace"}, v \in Values :
              EvictsOldestFirst(Store(dict, op, k, v, ttl, now), k, now)
        /\ EvictsOldestFirst(Incr(dict, k, TRUE, ttl, now), k, now)

\* README of ngx_lua on lpush: "Returns the number of elements in the list
\* after the push operation."
PushReturnsLength ==
    [][\A w \in Workers : \A n \in 0..Capacity :
            PushReturns(w, n) => n = pend[w].len]_vars
=============================================================================
