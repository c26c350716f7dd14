----------------------------- MODULE ShdictCore -----------------------------
(***************************************************************************)
(* What one call does to an lua_shared_dict zone while it holds the zone's *)
(* mutex: ngx_http_lua_shdict.c as operators on a dictionary.  A           *)
(* dictionary is a record [tree, lru, used]: tree is the red-black tree    *)
(* (what it holds for a key, or NoEntry), lru the queue the same nodes are *)
(* linked in, most recently used first, and used the memory the slab       *)
(* allocator has handed out.  Every operator that stands for a call        *)
(* returns what it makes of the dictionary together with its answer.  The  *)
(* modules that extend this one share the zone and the workers' clocks.    *)
(*                                                                         *)
(* A value is abstracted to its type and its length: the code compares and *)
(* allocates lengths and never looks inside a string.  Values are copied   *)
(* under the mutex, so their contents can be neither torn nor mixed up.    *)
(***************************************************************************)
EXTENDS Integers, Sequences, SequencesExt, FiniteSets, FiniteSetsExt

CONSTANTS Workers,   \* the worker processes that use the zone
          Keys,
          NoEntry,
          Capacity   \* units of memory the slab allocator can hand out

VARIABLES dict,      \* the zone: [tree, lru, used]
          clock      \* clock[w]: the time ngx_timeofday() gives worker w

Types == {"string", "number", "boolean", "list"}

ASSUME CoreAssumption ==
    /\ IsFiniteSet(Keys) /\ Capacity \in Nat \ {0}
    /\ NoEntry \notin [type : Types, len : Nat, expires : Nat]

\* "list" counts its elements in len (sd->value_len); a number is 8 bytes long
\* and so is some string, which is what the two lengths 1 and 2 stand for.
Scalar(type, len, expires) == [type |-> type, len |-> len, expires |-> expires]
EmptyList == [type |-> "list", len |-> 0, expires |-> 0]

Values == [type : {"string"}, len : 1..2] \cup [type : {"number"}, len : {1}]

Empty == [tree |-> [k \in Keys |-> NoEntry], lru |-> <<>>, used |-> 0]

Present(D) == {k \in Keys : D.tree[k] # NoEntry}

----------------------------------------------------------------------------
(* Memory (the slab allocator of nginx, external).                         *)

\* A list node and each of its elements are allocations of their own.
Size(e) == IF e = NoEntry THEN 0 ELSE IF e.type = "list" THEN 1 + e.len ELSE e.len

Fits(D, size) == D.used + size <= Capacity

----------------------------------------------------------------------------
(* The tree and the queue.                                                 *)

WithoutKey(q, k) == RemoveFirst(q, k)

ToHead(D, k) == [D EXCEPT !.lru = <<k>> \o WithoutKey(D.lru, k)]

\* A node is unlinked from both and its memory, list elements included, freed.
RemoveKey(D, k) == [tree |-> [D.tree EXCEPT ![k] = NoEntry],
                    lru |-> WithoutKey(D.lru, k),
                    used |-> D.used - Size(D.tree[k])]

\* Fault: the node that is overwritten is not freed.
PutEntryLeaks(D, k, e) ==
    ToHead([D EXCEPT !.tree[k] = e, !.used = @ + Size(e)], k)

PutEntry(D, k, e) ==
    ToHead([tree |-> [D.tree EXCEPT ![k] = e], lru |-> D.lru,
            used |-> D.used - Size(D.tree[k]) + Size(e)], k)

\* ngx_http_lua_shdict_lookup tells three cases apart; at the very millisecond
\* an entry expires it is still found.
Lookup(D, k, now) ==
    IF D.tree[k] = NoEntry THEN "declined"
    ELSE IF D.tree[k].expires # 0 /\ D.tree[k].expires < now THEN "done"
    ELSE "ok"

\* ... and makes an entry it found alive the most recently used one.
LookedUp(D, k, now) == IF Lookup(D, k, now) = "ok" THEN ToHead(D, k) ELSE D

\* What expire, flush_expired and get_keys call expired: one millisecond
\* before lookup does.
HasExpired(e, now) == e.expires # 0 /\ e.expires <= now

----------------------------------------------------------------------------
(* ngx_http_lua_shdict_expire.                                             *)

DropTailIfExpired(D, now) ==
    IF D.lru # <<>> /\ HasExpired(D.tree[Last(D.lru)], now)
    THEN RemoveKey(D, Last(D.lru)) ELSE D

\* expire(ctx, 1): at most two expired entries, and only from the tail.
ExpireSome(D, now) == DropTailIfExpired(DropTailIfExpired(D, now), now)

\* Fault: the most recently used entry is the victim.
ExpireWrongEnd(D, now) ==
    IF D.lru = <<>> THEN D ELSE ExpireSome(RemoveKey(D, Head(D.lru)), now)

\* expire(ctx, 0): the tail by force, expired or not, and then the same.
ExpireByForce(D, now) ==
    IF D.lru = <<>> THEN D ELSE ExpireSome(RemoveKey(D, Last(D.lru)), now)

\* Up to 30 rounds of eviction, until an allocation of "size" succeeds.
AllocByForce(D, size, now) ==
    LET rounds == IF Len(D.lru) < 30 THEN Len(D.lru) ELSE 30
        after[i \in 0..rounds] ==
            IF i = 0 THEN D ELSE ExpireByForce(after[i - 1], now)
        enough == {i \in 1..rounds : Fits(after[i], size)}
    IN  [dict |-> after[IF enough = {} THEN rounds ELSE Min(enough)],
         ok |-> enough # {},
         forcible |-> rounds > 0]

----------------------------------------------------------------------------
(* The calls.                                                              *)

Answer(D, res) == [dict |-> D, res |-> res, forcible |-> FALSE]

Expires(ttl, now) == IF ttl > 0 THEN now + ttl ELSE 0

\* An entry of the same length is overwritten in place.
Reusable(D, k, len) == /\ D.tree[k] # NoEntry
                       /\ D.tree[k].type # "list"
                       /\ D.tree[k].len = len

\* Fault: the SAFE_STORE flag is ignored.
InsertNewUnsafe(D, k, e, safe, now) ==
    IF Fits(D, Size(e)) THEN Answer(PutEntry(D, k, e), "ok")
    ELSE LET a == AllocByForce(D, Size(e), now) IN
         [dict |-> IF a.ok THEN PutEntry(a.dict, k, e) ELSE a.dict,
          res |-> IF a.ok THEN "ok" ELSE "no memory",
          forcible |-> a.forcible]

\* Allocate a new node and link it, evicting others unless the call is safe.
InsertNew(D, k, e, safe, now) ==
    IF Fits(D, Size(e)) THEN Answer(PutEntry(D, k, e), "ok")
    ELSE IF safe THEN Answer(D, "no memory")
    ELSE LET a == AllocByForce(D, Size(e), now) IN
         [dict |-> IF a.ok THEN PutEntry(a.dict, k, e) ELSE a.dict,
          res |-> IF a.ok THEN "ok" ELSE "no memory",
          forcible |-> a.forcible]

\* A node of another length is freed before the new one is allocated.
Overwrite(D, k, e, safe, now) ==
    IF Reusable(D, k, e.len) THEN Answer(PutEntry(D, k, e), "ok")
    ELSE InsertNew(RemoveKey(D, k), k, e, safe, now)

\* set, safe_set, add, safe_add and replace.
Store(D0, op, k, v, ttl, now) ==
    LET D == ExpireSome(D0, now)
        rc == Lookup(D, k, now)
        e == Scalar(v.type, v.len, Expires(ttl, now))
        safe == op \in {"safe_set", "safe_add"}
    IN  IF op = "replace" /\ rc # "ok" THEN Answer(D, "not found")
        ELSE IF op \in {"add", "safe_add"} /\ rc = "ok"
             THEN Answer(LookedUp(D, k, now), "exists")
        ELSE Overwrite(LookedUp(D, k, now), k, e, safe, now)

\* delete is set with nil.
Delete(D, k, now) == Answer(RemoveKey(ExpireSome(D, now), k), "ok")

Incr(D0, k, hasInit, ttl, now) ==
    LET D == ExpireSome(D0, now)
        rc == Lookup(D, k, now)
        e == Scalar("number", 1, Expires(ttl, now))
    IN  IF rc = "ok"
        THEN Answer(ToHead(D, k),
                    IF D.tree[k].type = "number" THEN "ok" ELSE "not a number")
        ELSE IF ~hasInit THEN Answer(D, "not found")
        ELSE Overwrite(D, k, e, FALSE, now)

\* get and llen differ in the type they accept; get_stale expires nothing.
Get(D0, k, now) ==
    LET D == ExpireSome(D0, now) IN
    Answer(LookedUp(D, k, now),
           IF Lookup(D, k, now) # "ok" THEN "nil"
           ELSE IF D.tree[k].type = "list" THEN "value is a list" ELSE "ok")

GetStale(D, k, now) ==
    Answer(LookedUp(D, k, now),
           IF Lookup(D, k, now) = "declined" THEN "nil"
           ELSE IF D.tree[k].type = "list" THEN "value is a list"
           ELSE IF Lookup(D, k, now) = "done" THEN "stale" ELSE "ok")

Llen(D0, k, now) ==
    LET D == ExpireSome(D0, now) IN
    Answer(LookedUp(D, k, now),
           IF Lookup(D, k, now) # "ok" THEN "0"
           ELSE IF D.tree[k].type # "list" THEN "value not a list" ELSE "ok")

\* A list gets n elements more.
Longer(D, k, n) ==
    [tree |-> [D.tree EXCEPT ![k] = [D.tree[k] EXCEPT !.len = D.tree[k].len + n]],
     lru |-> D.lru, used |-> D.used + n]

\* lpush and rpush.  They never evict; a list whose first element finds no
\* memory is unlinked again.
PushElement(D, k) ==
    IF Fits(D, 1)
    THEN Answer(Longer(D, k, 1), "ok")
    ELSE Answer(IF D.tree[k].len = 0 THEN RemoveKey(D, k) ELSE D, "no memory")

Push(D0, k, now) ==
    LET D == ExpireSome(D0, now)
        rc == Lookup(D, k, now)
        reuse == rc = "done" /\ D.tree[k].type = "list"
        D1 == IF rc = "done" THEN RemoveKey(D, k) ELSE LookedUp(D, k, now)
    IN  IF rc = "ok"
        THEN IF D.tree[k].type = "list" THEN PushElement(D1, k)
             ELSE Answer(D1, "value not a list")
        ELSE IF reuse \/ Fits(D1, 1) THEN PushElement(PutEntry(D1, k, EmptyList), k)
        ELSE Answer(D1, "no memory")

\* Fault: an empty list stays behind.
PopLeavesEmpty(D0, k, now) ==
    LET D == LookedUp(ExpireSome(D0, now), k, now)
    IN  IF Lookup(D, k, now) # "ok" THEN Answer(D, "nil")
        ELSE IF D.tree[k].type # "list" THEN Answer(D, "value not a list")
        ELSE Answer([D EXCEPT !.tree[k].len = @ - 1, !.used = @ - 1], "ok")

\* lpop and rpop: the last element takes the list with it.
Pop(D0, k, now) ==
    LET D == LookedUp(ExpireSome(D0, now), k, now)
    IN  IF Lookup(D, k, now) # "ok" THEN Answer(D, "nil")
        ELSE IF D.tree[k].type # "list" THEN Answer(D, "value not a list")
        ELSE IF D.tree[k].len <= 0 THEN Answer(D, "bad lua list length")
        ELSE IF D.tree[k].len = 1 THEN Answer(RemoveKey(D, k), "ok")
        ELSE Answer(Longer(D, k, -1), "ok")

\* flush_expired(n), from the tail; n = 0 means all of them.
FlushExpired(D, n, now) ==
    LET len == Len(D.lru)
        after[i \in 0..len] ==
            IF i = 0 THEN [dict |-> D, freed |-> 0]
            ELSE LET was == after[i - 1]
                     k == D.lru[len + 1 - i]
                 IN  IF HasExpired(D.tree[k], now) /\ (n = 0 \/ was.freed < n)
                     THEN [dict |-> RemoveKey(was.dict, k), freed |-> was.freed + 1]
                     ELSE was
    IN  Answer(after[len].dict, "ok")

\* flush_all marks every entry as expired long ago and drops a few.
FlushAll(D, now) ==
    LET marked == [D EXCEPT !.tree = [k \in Keys |->
                      IF D.tree[k] = NoEntry THEN NoEntry
                      ELSE [D.tree[k] EXCEPT !.expires = 1]]]
    IN  Answer(ExpireByForce(marked, now), "ok")

\* expire(key, ttl) and ttl(key) find an entry whether it has expired or not
\* (ngx_http_lua_shdict_peek) and do not count as a use of it.
SetExpire(D, k, ttl, now) ==
    IF D.tree[k] = NoEntry THEN Answer(D, "not found")
    ELSE LET e == [D.tree[k] EXCEPT !.expires = Expires(ttl, now)]
         IN  Answer([D EXCEPT !.tree = [D.tree EXCEPT ![k] = e]], "ok")
=============================================================================
