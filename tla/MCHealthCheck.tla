--------------------------- MODULE MCHealthCheck ---------------------------
(* Instances of HealthCheck for TLC.  The symmetry is for runs of the     *)
(* safety properties alone, with two peers.                               *)
EXTENDS HealthCheck, TLC

Symmetry == Permutations(Workers) \cup Permutations(Peers)
=============================================================================
