---------------------------- MODULE MCSocketPool ----------------------------
(* Instances of SocketPool for TLC. *)
EXTENDS SocketPool, TLC

Symmetry == Permutations(Socks) \cup Permutations(Keys)
=============================================================================
