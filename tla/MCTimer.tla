------------------------------ MODULE MCTimer ------------------------------
(* Timer with three contexts and one request, for TLC. *)
EXTENDS Timer, TLC
=============================================================================
