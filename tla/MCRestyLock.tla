---------------------------- MODULE MCRestyLock ----------------------------
(* RestyLock with two workers and a locker in each, for TLC. *)
EXTENDS RestyLock, TLC

CONSTANTS w1, w2, l1, l2

MCHome == l1 :> w1 @@ l2 :> w2
=============================================================================
