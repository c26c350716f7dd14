----------------------------- MODULE AbstractLog -----------------------------
(***************************************************************************)
(* What lua_capture_error_log promises: the most recent log lines, in the  *)
(* order they were written, each of them whole.  A line that arrives may   *)
(* push out the oldest ones, and a line is read once.                      *)
(***************************************************************************)
EXTENDS Integers, Sequences

CONSTANT Logs        \* the lines that fit into the buffer

VARIABLE queue       \* the lines kept, oldest first

Init == queue = <<>>

Write(log) == \E lost \in 0..Len(queue) :
                 queue' = Append(SubSeq(queue, lost + 1, Len(queue)), log)

Read == queue # <<>> /\ queue' = Tail(queue)

Next == Read \/ \E log \in Logs : Write(log)

Spec == Init /\ [][Next]_queue
=============================================================================
