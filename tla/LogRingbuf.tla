----------------------------- MODULE LogRingbuf -----------------------------
(***************************************************************************)
(* The ring buffer of captured error logs (ngx_http_lua_log_ringbuf.c),    *)
(* fed by nginx's log handler and drained by ngx.errlog.get_logs.  Records *)
(* of different lengths are laid out one after the other, never split: a   *)
(* record that does not fit behind the last one goes to the front, and     *)
(* "sentinel" marks where the reader has to turn round.                    *)
(*                                                                         *)
(* Pointers are offsets from rb->data, and a byte of memory remembers of   *)
(* which record it is which byte, so that a record overwritten in part is  *)
(* seen.  A worker has a buffer of its own, and no call is interrupted.    *)
(***************************************************************************)
EXTENDS Integers, Sequences, SequencesExt

CONSTANTS Size,        \* rb->size
          HeaderLen,   \* HEADER_LEN
          Levels,      \* the log levels, 0 the most severe
          MaxLen       \* bound: length of a message

ASSUME LogAssumption == /\ HeaderLen \in Nat \ {0} /\ MaxLen \in Nat
                        /\ Size \in Nat /\ Size >= HeaderLen
                        /\ Levels \subseteq Nat

VARIABLES data,           \* data[i]: what was last written at offset i
          rb,             \* [head, tail, sentinel, count]
          filter_level    \* rb->filter_level

vars == <<data, rb, filter_level>>

Log(level, n) == [log_level |-> level, len |-> n]
Junk == [log |-> Log(0, 0), pos |-> Size]

Empty == [head |-> 0, tail |-> 0, sentinel |-> Size, count |-> 0]

Init == /\ data = [i \in 0..(Size - 1) |-> Junk]
        /\ rb = Empty
        /\ filter_level \in Levels
        /\ \A level \in Levels : level <= filter_level

----------------------------------------------------------------------------
(* Moving the head.                                                        *)

\* Fault: the filling before the end of the buffer is not skipped.
NextHeaderReadsFilling(b) == IF Size - b.head < HeaderLen THEN 0 ELSE b.head

\* No header fits behind the head, or there is nothing but filling behind it.
NextHeader(b) == IF Size - b.head < HeaderLen \/ b.head >= b.sentinel
                 THEN 0 ELSE b.head

\* The record at the head is dropped or has been read.
Advance(b) ==
    LET next == [b EXCEPT !.head = @ + HeaderLen + data[b.head].log.len,
                          !.count = @ - 1]
        b1 == IF next.count = 0 THEN Empty ELSE next
    IN  [b1 EXCEPT !.head = NextHeader(b1)]

ThrowAway(b) == IF b.count = 0 THEN b ELSE Advance(b)

----------------------------------------------------------------------------
(* Making room.                                                            *)

FreeSpaces(b) == IF b.count = 0 THEN Size
                 ELSE IF b.tail > b.head THEN Size - b.tail
                 ELSE b.head - b.tail

\* Drop records while they lie behind the tail; each round drops one.
DropBehindTail(b) ==
    LET after[i \in 0..b.count] ==
            IF i = 0 THEN b
            ELSE LET c == after[i - 1]
                 IN  IF c.head >= c.tail /\ c.count > 0 THEN ThrowAway(c) ELSE c
    IN  after[b.count]

\* Drop records while they leave too little room.
DropUntilRoom(b, need) ==
    LET after[i \in 0..b.count] ==
            IF i = 0 THEN b
            ELSE LET c == after[i - 1]
                 IN  IF FreeSpaces(c) < need THEN ThrowAway(c) ELSE c
    IN  after[b.count]

\* Fault: what lies between the head and the sentinel is kept.
TurnRoundKeepsRest(b) == [b EXCEPT !.sentinel = b.tail, !.tail = 0]

\* The space on the right is too small: everything behind the tail goes, and
\* the rest of the buffer becomes filling.
TurnRound(b) ==
    LET b1 == DropBehindTail(b)
    IN  [b1 EXCEPT !.sentinel = b1.tail, !.tail = 0]

MakeRoom(b, need) ==
    IF FreeSpaces(b) >= need THEN b
    ELSE LET b1 == IF Size - b.tail < need THEN TurnRound(b) ELSE b
         IN  DropUntilRoom(b1, need)

----------------------------------------------------------------------------
(* The operations.                                                         *)

Place(log, at) ==
    [i \in 0..(Size - 1) |->
        IF at <= i /\ i < at + HeaderLen + log.len
        THEN [log |-> log, pos |-> i - at] ELSE data[i]]

AppendLog(b, log) ==
    LET tail == b.tail + HeaderLen + log.len IN
    /\ data' = Place(log, b.tail)
    /\ rb' = [b EXCEPT !.tail = tail,
                       !.count = @ + 1,
                       !.sentinel = IF tail > @ THEN tail ELSE @]

\* Fault: the length is not compared with the size of the buffer.
CaptureLogOfAnyLength(log) ==
    /\ log.log_level <= filter_level
    /\ AppendLog(MakeRoom(rb, log.len + HeaderLen), log)
    /\ UNCHANGED filter_level

\* nginx logs a line: dropped if its level is filtered out or it is longer
\* than the whole buffer (then nothing changes), else written.
CaptureLog(log) ==
    /\ log.log_level <= filter_level
    /\ log.len + HeaderLen <= Size
    /\ AppendLog(MakeRoom(rb, log.len + HeaderLen), log)
    /\ UNCHANGED filter_level

GetMsg == /\ rb.count > 0
          /\ rb.head < rb.sentinel
          /\ rb' = Advance(rb)
          /\ UNCHANGED <<data, filter_level>>

SetFilterLevel(level) == /\ filter_level' = level
                         /\ UNCHANGED <<data, rb>>

Messages == {Log(level, n) : level \in Levels, n \in 0..MaxLen}

Next == \/ \E log \in Messages : CaptureLog(log)
        \/ GetMsg
        \/ \E level \in Levels : SetFilterLevel(level)

Spec == Init /\ [][Next]_vars

----------------------------------------------------------------------------
\* at[i]: the offset the reader will find the i-th record at.
Offsets ==
    LET at[i \in 1..rb.count] ==
            IF i = 1 THEN rb.head
            ELSE NextHeader([rb EXCEPT !.head =
                                at[i - 1] + HeaderLen + data[at[i - 1]].log.len])
    IN  at

Contents == [i \in 1..rb.count |-> data[Offsets[i]].log]

TypeOK == /\ DOMAIN data = 0..(Size - 1)
          /\ rb.head \in 0..(Size - 1) /\ rb.tail \in 0..Size
          /\ rb.sentinel \in 0..Size /\ rb.count \in 0..Size
          /\ filter_level \in Levels

\* Every record the reader has yet to come to is whole: its first byte is a
\* header, and no later write has touched a byte of it.
RecordsIntact ==
    \A i \in 1..rb.count : LET o == Offsets[i] IN
        /\ o + HeaderLen + data[o].log.len <= Size
        /\ \A p \in 0..(HeaderLen + data[o].log.len - 1) :
              data[o + p] = [log |-> data[o].log, pos |-> p]

\* A read of a buffer that holds something succeeds: get_msg ignores the error
\* of ngx_http_lua_log_ringbuf_read and would return an uninitialized length.
ReadSucceeds == rb.count > 0 => rb.head < rb.sentinel

RecordsReadable == RecordsIntact /\ ReadSucceeds

\* The ring is the queue of AbstractLog: order kept, nothing read twice, the
\* line just written always among those kept, and only the oldest ones lost.
Fitting == {log \in Messages : log.len + HeaderLen <= Size}
Abstract == INSTANCE AbstractLog WITH Logs <- Fitting, queue <- Contents
ImplementsLog == Abstract!Spec
=============================================================================
