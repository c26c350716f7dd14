----------------------------- MODULE SocketPool -----------------------------
(***************************************************************************)
(* The cosocket connection pools of one worker process                     *)
(* (ngx_http_lua_socket_tcp.c).  A pool counts the connections made for it *)
(* -- in use, being made, or idle in its cache -- and the connect          *)
(* operations queued for one.  A socket object belongs to one light        *)
(* thread, which calls connect, setkeepalive and close on it.  Everything  *)
(* runs in one event loop: an API call or an event handler is one step,    *)
(* and the event that resumes a queued connect is posted, so that other    *)
(* calls and handlers may run before it.                                   *)
(*                                                                         *)
(* Abstracted: sends and receives, TLS, DNS contents, allocation failures  *)
(* and failures to register an event.                                      *)
(***************************************************************************)
EXTENDS Integers, FiniteSets, SequencesExt

CONSTANTS Socks,     \* socket objects, each used by a light thread of its own
          Keys,      \* names of connection pools
          Conns,     \* connection structures (file descriptors)
          PoolSize,  \* the pool_size option
          Backlog,   \* the backlog option
          Options,   \* which options the program gives to connect
          Rekeys,    \* the program calls connect with a bad port
          None       \* no connection, or no pool

(* "none": no pool_size; "size": pool_size alone; "limit": both options.   *)
ASSUME OptionsAssumption == Options \subseteq {"none", "size", "limit"}
ASSUME SizeAssumption == PoolSize \in Nat \ {0} /\ Backlog \in Nat
ASSUME NamesAssumption ==
  IsFiniteSet(Socks) /\ None \notin Keys \cup Conns /\ Rekeys \in BOOLEAN

VARIABLES pool,   \* the ngx_http_lua_socket_pool_t of each key
          sock,   \* the socket objects
          open,   \* connections that are open
          phase   \* of the worker process

vars == <<pool, sock, open, phase>>

(* st is what the socket is doing, conn is u->peer.connection, spool is    *)
(* u->socket_pool (the pool that counts the socket) and key the object's   *)
(* SOCKET_KEY_INDEX.  connect clears u and sets the key first, so that a   *)
(* closed socket's spool and key are not read again.                       *)
States == {"closed", "queued", "resolving", "connecting", "open"}

ClosedSock == [st |-> "closed", conn |-> None, spool |-> None, key |-> None]
-----------------------------------------------------------------------------
(* A pool is listed while the table of pools in the Lua registry has it.   *)
NewPool(backlog) ==
  [listed |-> TRUE, backlog |-> backlog, connections |-> 0, cache |-> <<>>,
   wait_connect_op |-> <<>>, timed |-> {}, posted |-> {}, mismatched |-> FALSE]

NoPool == [NewPool(-1) EXCEPT !.listed = FALSE]

(* One more is counted, one less, and other idle connections.              *)
More(p) == [p EXCEPT !.connections = p.connections + 1]
Less(p) == [p EXCEPT !.connections = p.connections - 1]
Caching(p, cache) == [p EXCEPT !.cache = cache]

(* Fault: the event is posted only when the counter, which the queued      *)
(* operations are part of, shows room.                                     *)
ResumePostedIfRoom(p, op) ==
  [p EXCEPT !.timed = @ \ {op},
            !.posted = IF p.connections <= PoolSize THEN @ \cup {op} ELSE @]

(* The timer of a queued operation gives way to the event that resumes it. *)
ResumePosted(p, op) ==
  [p EXCEPT !.timed = p.timed \ {op}, !.posted = p.posted \cup {op}]

(* ngx_http_lua_socket_tcp_resume_conn_op: resume the first queued connect.*)
(* A negative counter is logged and reset (a debug build stops).           *)
ResumeConnOp(p) ==
  LET q == IF p.connections < 0
           THEN [p EXCEPT !.mismatched = TRUE, !.connections = 0] ELSE p
  IN  IF q.wait_connect_op = <<>> THEN q
                                  ELSE ResumePosted(q, Head(q.wait_connect_op))

(* The counter on the failure paths: one operation fewer, and a chance for *)
(* the next.                                                               *)
GaveUp(p) == ResumeConnOp(Less(p))

(* Fault: the pool is dropped when its cache is empty, users or not.       *)
ClosedOneEarly(p) ==
  IF p.cache = <<>>
  THEN [p EXCEPT !.connections = @ - 1, !.listed = FALSE]
  ELSE GaveUp(p)

(* The counter when a counted connection is closed                         *)
(* (ngx_http_lua_socket_tcp_finalize, keepalive_close_handler).            *)
ClosedOne(p) ==
  IF p.connections = 1
  THEN [p EXCEPT !.connections = 0, !.listed = FALSE]
  ELSE GaveUp(p)

(* The pools after a socket that pool ref counts, if any, has failed to    *)
(* connect, and after its connection is closed.                            *)
Uncounted(ps, ref) ==
  IF ref = None THEN ps ELSE [ps EXCEPT ![ref] = GaveUp(ps[ref])]

Released(ps, ref) ==
  IF ref = None THEN ps ELSE [ps EXCEPT ![ref] = ClosedOne(ps[ref])]

(* The pools with one for k, created with this backlog if there is none.   *)
WithPool(ps, k, backlog) ==
  IF ps[k].listed THEN ps ELSE [ps EXCEPT ![k] = NewPool(backlog)]

(* Fault: the operation leaves the queue, the event posted for it stays.   *)
DequeuedStillPosted(p, s) ==
  [p EXCEPT !.wait_connect_op = SelectSeq(@, LAMBDA t : t # s),
            !.timed = @ \ {s}]

(* A queued operation that leaves without being resumed.                   *)
Dequeued(p, s) ==
  [p EXCEPT !.wait_connect_op = RemoveFirst(p.wait_connect_op, s),
            !.timed = p.timed \ {s}, !.posted = p.posted \ {s}]

(* One that is resumed: the resume handler takes the head of the queue.    *)
TakenFromQueue(p, s) ==
  [p EXCEPT !.wait_connect_op = Tail(p.wait_connect_op),
            !.posted = p.posted \ {s}]

(* A newcomer to the queue, with its timer.                                *)
Queued(p, s) ==
  [p EXCEPT !.wait_connect_op = Append(p.wait_connect_op, s),
            !.timed = p.timed \cup {s}]
-----------------------------------------------------------------------------
Init == /\ pool = [k \in Keys |-> NoPool]
        /\ sock = [s \in Socks |-> ClosedSock]
        /\ open = {}
        /\ phase = "running"

(* ngx_get_connection takes a free connection; which one does not matter.  *)
Free(os) == CHOOSE c \in Conns : c \notin os

(* resolve_retval_handler: ngx_event_connect_peer connects at once, or has *)
(* begun to, or fails.  ps and os are the pools and the open connections   *)
(* so far; the pool of the socket u, if it has one, already counts it.     *)
ConnectPeer(s, u, ps, os) ==
  \/ /\ Conns \ os # {}
     /\ \E state \in {"connecting", "open"} :
          sock' = [sock EXCEPT ![s] = [u EXCEPT !.st = state,
                                                !.conn = Free(os)]]
     /\ open' = os \cup {Free(os)}
     /\ pool' = ps
  \/ /\ sock' = [sock EXCEPT ![s] = ClosedSock]
     /\ open' = os
     /\ pool' = Uncounted(ps, u.spool)

(* A host name is resolved first; an address is connected to.              *)
StartConnecting(s, u, ps, os) ==
  \/ /\ sock' = [sock EXCEPT ![s] = [u EXCEPT !.st = "resolving"]]
     /\ pool' = ps
     /\ open' = os
  \/ ConnectPeer(s, u, ps, os)

(* Fault: the idle connection handed out stays in the cache.               *)
KeepalivePeerStays(s, u, ps, os) ==
  /\ sock' = [sock EXCEPT ![s] = [u EXCEPT !.st = "open",
                                          !.conn = Head(ps[u.spool].cache)]]
  /\ pool' = ps
  /\ open' = os

(* ngx_http_lua_get_keepalive_peer, when the pool has an idle connection.  *)
KeepalivePeer(s, u, ps, os) ==
  /\ sock' = [sock EXCEPT ![s] = [u EXCEPT !.st = "open",
                                          !.conn = Head(ps[u.spool].cache)]]
  /\ pool' = [ps EXCEPT ![u.spool] = Caching(ps[u.spool], Tail(ps[u.spool].cache))]
  /\ open' = os

TooManyWaiting(s, ps, os) ==
  /\ sock' = [sock EXCEPT ![s] = ClosedSock]
  /\ pool' = ps
  /\ open' = os

QueueConnOp(s, u, ps, os) ==
  /\ sock' = [sock EXCEPT ![s] = [u EXCEPT !.st = "queued"]]
  /\ pool' = [ps EXCEPT ![u.spool] = Queued(ps[u.spool], s)]
  /\ open' = os

(* ngx_http_lua_socket_tcp_connect_helper.  An operation that has waited   *)
(* is not queued again, whatever the counter says.                         *)
ConnectHelper(s, u, ps, os, resuming) ==
  \/ u.spool = None /\ StartConnecting(s, u, ps, os)
  \/ /\ u.spool # None
     /\ ps[u.spool].cache # <<>>
     /\ KeepalivePeer(s, u, ps, os)
  \/ /\ u.spool # None
     /\ ps[u.spool].cache = <<>>
     /\ LET counted == [ps EXCEPT ![u.spool] = More(ps[u.spool])]
            total   == counted[u.spool].connections
            most    == PoolSize + ps[u.spool].backlog
            limited == ps[u.spool].backlog >= 0 /\ ~resuming
        IN  \/ limited /\ total > most /\ TooManyWaiting(s, ps, os)
            \/ /\ limited /\ total > PoolSize /\ total <= most
               /\ QueueConnOp(s, u, counted, os)
            \/ /\ limited => total <= PoolSize
               /\ StartConnecting(s, u, counted, os)
-----------------------------------------------------------------------------
(* ngx_http_lua_socket_tcp_connect.  A connection that the socket still    *)
(* has is closed first.                                                    *)
Connect(s) ==
  /\ phase # "down"
  /\ sock[s].st \in {"closed", "open"}
  /\ \E k \in Keys, option \in Options :
       LET ps0 == IF sock[s].st = "open"
                  THEN Released(pool, sock[s].spool) ELSE pool
           os  == open \ {sock[s].conn}
           ps  == CASE option = "none" -> ps0
                    [] option = "size" -> WithPool(ps0, k, -1)
                    [] option = "limit" -> WithPool(ps0, k, Backlog)
           u   == [ClosedSock EXCEPT !.key = k,
                                     !.spool = IF ps[k].listed THEN k ELSE None]
       IN  ConnectHelper(s, u, ps, os, FALSE)
  /\ UNCHANGED phase

(* A call of connect that names a pool and has a bad port number returns   *)
(* its error after the name has been stored in the socket object.          *)
ConnectBadPort(s) ==
  /\ Rekeys
  /\ sock[s].st = "open"
  /\ \E k \in Keys : sock' = [sock EXCEPT ![s].key = k]
  /\ UNCHANGED <<pool, open, phase>>

(* The resolver answers or gives up; a failure is answered through         *)
(* ngx_http_lua_socket_tcp_resume_helper, which uncounts the operation.    *)
Resolved(s) ==
  /\ sock[s].st = "resolving"
  /\ ConnectPeer(s, sock[s], pool, open)
  /\ UNCHANGED phase

Connected(s) ==
  /\ sock[s].st = "connecting"
  /\ sock' = [sock EXCEPT ![s].st = "open"]
  /\ UNCHANGED <<pool, open, phase>>

(* ngx_http_lua_socket_tcp_finalize of a socket that has a connection.     *)
Finalize(s) ==
  /\ sock' = [sock EXCEPT ![s] = ClosedSock]
  /\ open' = open \ {sock[s].conn}
  /\ pool' = Released(pool, sock[s].spool)
  /\ UNCHANGED phase

(* A refused connection, or the connect timeout.                           *)
ConnectFails(s) == sock[s].st = "connecting" /\ Finalize(s)

(* close, or the end of the request or of the socket object: the cleanup   *)
(* of the request and the collector finalize the socket too.               *)
Close(s) == sock[s].st = "open" /\ Finalize(s)

(* ngx_http_lua_socket_tcp_conn_op_timeout_handler.                        *)
ConnOpTimeout(s) ==
  /\ sock[s].st = "queued"
  /\ s \in pool[sock[s].spool].timed
  /\ pool' = [pool EXCEPT ![sock[s].spool] =
                Less(Dequeued(pool[sock[s].spool], s))]
  /\ sock' = [sock EXCEPT ![s] = ClosedSock]
  /\ UNCHANGED <<open, phase>>

(* ngx_http_lua_socket_tcp_conn_op_resume_handler takes the head of the    *)
(* queue and goes on with the operation its event belongs to.              *)
ConnOpResume(s) ==
  /\ sock[s].st = "queued"
  /\ s \in pool[sock[s].spool].posted
  /\ pool[sock[s].spool].wait_connect_op # <<>>
  /\ LET ps == [pool EXCEPT ![sock[s].spool] =
                  Less(TakenFromQueue(pool[sock[s].spool], s))]
     IN  ConnectHelper(s, sock[s], ps, open, TRUE)
  /\ UNCHANGED phase

(* The light thread that waits in connect is killed or its request ends:   *)
(* ngx_http_lua_tcp_queue_conn_op_cleanup, tcp_resolve_cleanup and         *)
(* coctx_cleanup.                                                          *)
KilledInQueue(s) ==
  /\ sock[s].st = "queued"
  /\ pool' = [pool EXCEPT ![sock[s].spool] =
                GaveUp(Dequeued(pool[sock[s].spool], s))]
  /\ sock' = [sock EXCEPT ![s] = ClosedSock]
  /\ UNCHANGED <<open, phase>>

KilledResolving(s) ==
  /\ sock[s].st = "resolving"
  /\ pool' = Uncounted(pool, sock[s].spool)
  /\ sock' = [sock EXCEPT ![s] = ClosedSock]
  /\ UNCHANGED <<open, phase>>

KilledConnecting(s) == sock[s].st = "connecting" /\ Finalize(s)

(* Fault: a connection that connect did not count is not counted here.     *)
SavedUncounted(s, ps, k) ==
  LET full == Len(ps[k].cache) = PoolSize
      kept == IF full THEN Front(ps[k].cache) ELSE ps[k].cache
      qs   == [ps EXCEPT ![k].cache = <<sock[s].conn>> \o kept]
  IN  IF full /\ sock[s].spool # None
      THEN [qs EXCEPT ![sock[s].spool].connections = @ - 1]
      ELSE qs

(* Fault: more idle connections are kept than the pool has items.          *)
SavedWithoutEviction(s, ps, k) ==
  LET qs == [ps EXCEPT ![k].cache = <<sock[s].conn>> \o @]
  IN  IF sock[s].spool = None THEN [qs EXCEPT ![k].connections = @ + 1] ELSE qs

(* The pools after the connection of s has been put at the head of the     *)
(* cache of k: the least recently used one is closed when no item is free, *)
(* and only a counted socket gives up a place for it.                      *)
Saved(s, ps, k) ==
  LET full    == Len(ps[k].cache) = PoolSize
      counted == sock[s].spool # None
      kept    == IF full THEN Front(ps[k].cache) ELSE ps[k].cache
      qs      == [ps EXCEPT ![k] = Caching(ps[k], <<sock[s].conn>> \o kept)]
      spool   == sock[s].spool
  IN  CASE full /\ counted -> [qs EXCEPT ![spool] = Less(qs[spool])]
        [] ~full /\ ~counted -> [qs EXCEPT ![k] = More(qs[k])]
        [] OTHER -> qs

Evicted(ps, k) ==
  IF Len(ps[k].cache) = PoolSize THEN {Last(ps[k].cache)} ELSE {}

(* ngx_http_lua_socket_tcp_setkeepalive.  When the peer has closed the     *)
(* connection or sent something, the saved connection is closed at once.   *)
SetKeepalive(s) ==
  /\ phase = "running"
  /\ sock[s].st = "open"
  /\ LET k     == sock[s].key
         ps    == WithPool(pool, k, -1)
         saved == Saved(s, ps, k)
         rest  == open \ Evicted(ps, k)
     IN  \/ /\ pool' = [saved EXCEPT ![k] = ResumeConnOp(saved[k])]
            /\ open' = rest
         \/ /\ pool' = [saved EXCEPT ![k] =
                          ClosedOne(Caching(saved[k], Tail(saved[k].cache)))]
            /\ open' = rest \ {sock[s].conn}
  /\ sock' = [sock EXCEPT ![s] = ClosedSock]
  /\ UNCHANGED phase

(* While the worker exits, setkeepalive closes the connection.             *)
SetKeepaliveExiting(s) ==
  phase = "exiting" /\ sock[s].st = "open" /\ Finalize(s)

(* ngx_http_lua_socket_keepalive_close_handler: an idle connection is      *)
(* closed by its peer, has unexpected data or reaches its idle timeout.    *)
KeepaliveClose(k) ==
  /\ \E i \in DOMAIN pool[k].cache :
       /\ pool' = [pool EXCEPT ![k] =
                     ClosedOne(Caching(pool[k], RemoveAt(pool[k].cache, i)))]
       /\ open' = open \ {pool[k].cache[i]}
  /\ UNCHANGED <<sock, phase>>

BeginExit ==
  /\ phase = "running"
  /\ phase' = "exiting"
  /\ UNCHANGED <<pool, sock, open>>

(* ngx_http_lua_cleanup_conn_pools, when the last user of the Lua VM has   *)
(* gone: no request is left.  The counters are not touched.                *)
CleanupConnPools ==
  /\ phase = "exiting"
  /\ \A s \in Socks : sock[s].st = "closed"
  /\ phase' = "down"
  /\ open' = open \ UNION {ToSet(pool[k].cache) : k \in Keys}
  /\ pool' = [k \in Keys |-> Caching(pool[k], <<>>)]
  /\ UNCHANGED sock

SockStep(s) ==
  \/ Connect(s) \/ ConnectBadPort(s) \/ Resolved(s) \/ Connected(s)
  \/ ConnectFails(s) \/ Close(s) \/ ConnOpTimeout(s) \/ ConnOpResume(s)
  \/ KilledInQueue(s) \/ KilledResolving(s) \/ KilledConnecting(s)
  \/ SetKeepalive(s) \/ SetKeepaliveExiting(s)

Next == \/ \E s \in Socks : SockStep(s)
        \/ \E k \in Keys : KeepaliveClose(k)
        \/ BeginExit
        \/ CleanupConnPools

Spec == Init /\ [][Next]_vars

(* The event loop fires the timer of a queued operation and runs the event *)
(* posted for it.                                                          *)
FairSpec ==
  Spec /\ \A s \in Socks : WF_vars(ConnOpTimeout(s)) /\ WF_vars(ConnOpResume(s))
-----------------------------------------------------------------------------
(* Types.  A cache is never longer than the pool's size.  A queue may be   *)
(* longer than the backlog, when a connect is queued after a close has     *)
(* posted the resume of the head, but not than size and backlog together.  *)
TypeOK ==
  /\ pool \in [Keys -> [listed: BOOLEAN, backlog: {-1, Backlog},
                        connections: Int, cache: BoundedSeq(Conns, PoolSize),
                        wait_connect_op: BoundedSeq(Socks, PoolSize + Backlog),
                        timed: SUBSET Socks, posted: SUBSET Socks,
                        mismatched: BOOLEAN]]
  /\ sock \in [Socks -> [st: States, conn: Conns \cup {None},
                         spool: Keys \cup {None}, key: Keys \cup {None}]]
  /\ open \subseteq Conns
  /\ phase \in {"running", "exiting", "down"}

Cached == UNION {ToSet(pool[k].cache) : k \in Keys}
Held == {sock[s].conn : s \in Socks} \ {None}

(* An open connection is a socket's or idle in one cache, and never two of *)
(* these: no connection leaks, is used after it is closed, or serves two   *)
(* users (setkeepalive, get_keepalive_peer, keepalive_close_handler).      *)
ConnectionsHaveOneOwner ==
  /\ Held \cup Cached = open
  /\ Held \cap Cached = {}
  /\ \A s, t \in Socks :
       sock[s].conn = sock[t].conn /\ sock[s].conn # None => s = t
  /\ \A k \in Keys : IsInjective(pool[k].cache)
  /\ \A j, k \in Keys :
       j # k => ToSet(pool[j].cache) \cap ToSet(pool[k].cache) = {}

(* The sockets that pool k counts.                                         *)
Counted(k) ==
  {s \in Socks : /\ sock[s].spool = k
               /\ sock[s].st \in {"resolving", "connecting", "open"}}

(* The counter of a pool, which the socket code increments and decrements  *)
(* in a dozen places, is the number of connections in use, being made, or  *)
(* idle, and of queued operations; the "count mismatched" error is never   *)
(* logged (or asserted).                                                   *)
CountsAgree ==
  \A k \in Keys :
    /\ phase # "down" =>
         pool[k].connections = Cardinality(Counted(k)) + Len(pool[k].cache)
                                 + Len(pool[k].wait_connect_op)
    /\ ~pool[k].mismatched

(* A pool that counts a connection or a queued operation stays in the      *)
(* registry: free_pool never takes it from under its users.                *)
PoolKeptWhileUsed ==
  \A k \in Keys :
    \/ pool[k].listed
    \/ /\ Counted(k) = {}
       /\ pool[k].cache = <<>>
       /\ pool[k].wait_connect_op = <<>>

(* The queue holds the sockets that wait in connect; each has its timer or *)
(* a posted event, never both, and only the head is posted: the resume     *)
(* handler, which takes the head, takes the operation it goes on with.     *)
QueueWatched ==
  \A k \in Keys :
    LET queue == pool[k].wait_connect_op
        waiting == {s \in Socks : sock[s].st = "queued" /\ sock[s].spool = k}
    IN  /\ ToSet(queue) = waiting
        /\ IsInjective(queue)
        /\ pool[k].timed \cap pool[k].posted = {}
        /\ pool[k].timed \cup pool[k].posted = ToSet(queue)
        /\ pool[k].posted \subseteq {queue[i] : i \in DOMAIN queue \cap {1}}

(* A queued connect is resumed, times out or is killed: it never waits for *)
(* ever.                                                                   *)
QueuedIsAnswered ==
  \A s \in Socks : sock[s].st = "queued" ~> sock[s].st # "queued"

(* README of ngx_lua on backlog: no more connections than pool_size can be *)
(* opened for a pool at any time. Not an invariant: a connect that comes   *)
(* between setkeepalive and the posted event takes the idle connection,    *)
(* and the operation resumed is not queued again.                          *)
OpenWithinLimit ==
  \A k \in Keys :
    pool[k].backlog >= 0 =>
      Cardinality(Counted(k)) + Len(pool[k].cache) <= PoolSize

(* README of ngx_lua on backlog: queued connect operations are resumed     *)
(* once the number of connections in the pool is less than pool_size. Not  *)
(* an invariant: when two connections are closed before the event runs, it *)
(* is posted once, and one operation is resumed.                           *)
QueuedIsResumed ==
  \A k \in Keys :
    pool[k].wait_connect_op # <<>> /\ pool[k].posted = {} =>
      Cardinality(Counted(k)) + Len(pool[k].cache) >= PoolSize
=============================================================================
