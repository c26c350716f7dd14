--------------------------- MODULE SemaphorePool ---------------------------
(***************************************************************************)
(* The allocator behind ngx.semaphore.new: ngx_http_lua_sema_mm_t of       *)
(* ngx_http_lua_semaphore.c.  Semaphores live in blocks of NumPerBlock     *)
(* items.  Items of the newer blocks are reused first (head of the free    *)
(* queue), those of the older ones last, so that old blocks drain and can  *)
(* be given back to the system; the Lua garbage collector decides when an  *)
(* item comes back.                                                        *)
(***************************************************************************)
EXTENDS Integers, Sequences, FiniteSets, SequencesExt

CONSTANTS NumPerBlock,   \* mm->num_per_block (4095 in the code)
          MaxEpoch       \* bound: blocks allocated in one behaviour

ASSUME PoolAssumption == NumPerBlock \in Nat \ {0} /\ MaxEpoch \in Nat

VARIABLES
    free_queue,   \* mm->free_queue, head first
    cur_epoch,    \* mm->cur_epoch
    total, used,  \* mm->total, mm->used
    blocks,       \* blocks not given back: a block is named by its epoch
    block_used,   \* block_used[b]: block->used
    live,         \* items Lua holds (a ctype with the __gc of semaphore.lua)
    posted_events,       \* items whose sem_event is in ngx_posted_events
    phase         \* "serving", then "closing" (lua_close), then "cleaned"

poolVars == <<free_queue, cur_epoch, total, used, blocks, block_used, live,
              posted_events, phase>>

Epochs == 1..MaxEpoch
ItemsOf(b) == {b} \X (1..NumPerBlock)
BlockOf(sem) == sem[1]

PoolInit == /\ free_queue = <<>>
            /\ cur_epoch = 0 /\ total = 0 /\ used = 0
            /\ blocks = {} /\ block_used = [b \in Epochs |-> 0]
            /\ live = {} /\ posted_events = {}
            /\ phase = "serving"

----------------------------------------------------------------------------
\* Fault: the block does not count the item as used.
AllocFromQueueUncounted ==
    /\ phase = "serving"
    /\ free_queue # <<>>
    /\ free_queue' = Tail(free_queue)
    /\ live' = live \cup {Head(free_queue)}
    /\ used' = used + 1
    /\ UNCHANGED <<block_used, cur_epoch, total, blocks, posted_events, phase>>

AllocFromQueue ==
    /\ phase = "serving"
    /\ free_queue # <<>>
    /\ LET sem == Head(free_queue) IN
         /\ free_queue' = Tail(free_queue)
         /\ block_used' = [block_used EXCEPT ![BlockOf(sem)] = @ + 1]
         /\ live' = live \cup {sem}
    /\ used' = used + 1
    /\ UNCHANGED <<cur_epoch, total, blocks, posted_events, phase>>

\* The first item of a new block is handed out, the others are queued in
\* order; an allocation that fails changes nothing ("no memory").
AllocNewBlock ==
    /\ phase = "serving"
    /\ free_queue = <<>>
    /\ cur_epoch < MaxEpoch
    /\ cur_epoch' = cur_epoch + 1
    /\ total' = total + NumPerBlock
    /\ used' = used + 1
    /\ blocks' = blocks \cup {cur_epoch'}
    /\ block_used' = [block_used EXCEPT ![cur_epoch'] = 1]
    /\ live' = live \cup {<<cur_epoch', 1>>}
    /\ free_queue' = [i \in 1..(NumPerBlock - 1) |-> <<cur_epoch', i + 1>>]
    /\ UNCHANGED <<posted_events, phase>>

----------------------------------------------------------------------------
\* Half of the blocks, counted in epochs, are on the newer side.
MidEpoch == cur_epoch - ((total \div NumPerBlock) \div 2)

\* Fault: a block goes back while some of its items are out.
GivesBackInUse(b) == used' <= total \div 2 /\ b < MidEpoch

\* Load at most 50% and the block is on the older side.
GivesBack(b) == /\ block_used'[b] = 0
                /\ used' <= total \div 2
                /\ b < MidEpoch

\* The queue without the items of b, the others in their order.
Others(q, b) == {i \in DOMAIN q : BlockOf(q[i]) # b}
Rank(i, S) == Cardinality({j \in S : j <= i})
WithoutBlock(q, b) ==
    [k \in 1..Cardinality(Others(q, b)) |->
       q[CHOOSE i \in Others(q, b) : Rank(i, Others(q, b)) = k]]

\* Fault: the items of a block given back still count as capacity.
FreeSemaKeepsTotal(sem) ==
    LET b == BlockOf(sem)
        q == IF b < MidEpoch THEN Append(free_queue, sem)
                             ELSE <<sem>> \o free_queue
    IN  /\ block_used' = [block_used EXCEPT ![b] = @ - 1]
        /\ used' = used - 1
        /\ free_queue' = IF GivesBack(b) THEN WithoutBlock(q, b) ELSE q
        /\ blocks' = IF GivesBack(b) THEN blocks \ {b} ELSE blocks
        /\ UNCHANGED total

FreeSema(sem) ==
    LET b == BlockOf(sem)
        q == IF b < MidEpoch THEN Append(free_queue, sem)
                             ELSE <<sem>> \o free_queue
    IN  /\ block_used' = [block_used EXCEPT ![b] = @ - 1]
        /\ used' = used - 1
        /\ IF GivesBack(b)
             THEN /\ free_queue' = WithoutBlock(q, b)
                  /\ total' = total - NumPerBlock
                  /\ blocks' = blocks \ {b}
             ELSE /\ free_queue' = q
                  /\ UNCHANGED <<total, blocks>>

\* The garbage collector finalizes a semaphore, at any time and in any order;
\* an event still posted is taken back.
SemaGc(sem) ==
    /\ phase \in {"serving", "closing"}
    /\ sem \in live
    /\ live' = live \ {sem}
    /\ posted_events' = posted_events \ {sem}
    /\ FreeSema(sem)
    /\ UNCHANGED <<cur_epoch, phase>>

\* sem:post with somebody waiting, and the loop running the event.
PostEvent(sem) == /\ phase = "serving"
                  /\ sem \in live
                  /\ posted_events' = posted_events \cup {sem}
                  /\ UNCHANGED <<free_queue, cur_epoch, total, used, blocks,
                                 block_used, live, phase>>

RunPostedEvent(sem) == /\ phase = "serving"
                       /\ sem \in posted_events
                       /\ posted_events' = posted_events \ {sem}
                       /\ UNCHANGED <<free_queue, cur_epoch, total, used,
                                      blocks, block_used, live, phase>>

----------------------------------------------------------------------------
\* The worker exits: the cleanups of the configuration pool run in the reverse
\* order of their registration, so lua_close finalizes every semaphore first.
LuaClose == /\ phase = "serving"
            /\ phase' = "closing"
            /\ UNCHANGED <<free_queue, cur_epoch, total, used, blocks,
                           block_used, live, posted_events>>

\* One turn of the loop of ngx_http_lua_sema_mm_cleanup.
MmCleanupFreesBlock ==
    /\ phase = "closing" /\ live = {}
    /\ free_queue # <<>>
    /\ LET b == BlockOf(Head(free_queue)) IN
         /\ block_used[b] = 0
         /\ free_queue' = WithoutBlock(free_queue, b)
         /\ blocks' = blocks \ {b}
    /\ UNCHANGED <<cur_epoch, total, used, block_used, live, posted_events, phase>>

\* It ends with an empty queue, or gives up on a block still in use.
MmCleanupReturns ==
    /\ phase = "closing" /\ live = {}
    /\ free_queue # <<>> => block_used[BlockOf(Head(free_queue))] > 0
    /\ phase' = "cleaned"
    /\ UNCHANGED <<free_queue, cur_epoch, total, used, blocks, block_used,
                   live, posted_events>>

PoolNext == \/ AllocFromQueue
            \/ AllocNewBlock
            \/ \E sem \in live : SemaGc(sem) \/ PostEvent(sem)
            \/ \E sem \in posted_events : RunPostedEvent(sem)
            \/ LuaClose
            \/ MmCleanupFreesBlock
            \/ MmCleanupReturns

PoolSpec == PoolInit /\ [][PoolNext]_poolVars

----------------------------------------------------------------------------
Items == UNION {ItemsOf(b) : b \in Epochs}

PoolTypeOK == /\ free_queue \in Seq(Items)
              /\ cur_epoch \in 0..MaxEpoch
              /\ total \in Nat /\ used \in Nat
              /\ blocks \subseteq Epochs
              /\ block_used \in [Epochs -> 0..NumPerBlock]
              /\ live \subseteq Items /\ posted_events \subseteq Items
              /\ phase \in {"serving", "closing", "cleaned"}

\* Memory given back is memory nobody uses: no block leaves while Lua holds one
\* of its semaphores or one of its items is still linked in the free queue or
\* in the queue of posted events.
NothingDangles ==
    /\ \A sem \in live \cup posted_events \cup Range(free_queue) : BlockOf(sem) \in blocks
    /\ posted_events \subseteq live

\* The three counts the allocator decides by agree with what is really out:
\* each item of a block kept is either with Lua or exactly once in the queue.
\* The midpoint epoch it computes from them never wraps below zero, and the
\* newest block is always one of those kept.
CountsAgree ==
    phase # "cleaned" =>
       /\ used = Cardinality(live)
       /\ \A b \in blocks : block_used[b] = Cardinality(live \cap ItemsOf(b))
       /\ Cardinality(Range(free_queue)) = Len(free_queue)
       /\ Range(free_queue) = (UNION {ItemsOf(b) : b \in blocks}) \ live
       /\ phase = "serving" => /\ total = NumPerBlock * Cardinality(blocks)
                               /\ cur_epoch > 0 => cur_epoch \in blocks
                               /\ MidEpoch >= 0

\* At exit every block goes back: the cleanup runs after lua_close and so
\* never gives up half-way.
ExitLeavesNothing == phase = "cleaned" => blocks = {} /\ free_queue = <<>>

\* A block goes back when nobody uses it, not before, and at the latest at exit.
BlocksFollowUse == NothingDangles /\ ExitLeavesNothing
=============================================================================
