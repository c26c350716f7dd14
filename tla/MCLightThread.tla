--------------------------- MODULE MCLightThread ---------------------------
(* LightThread with few threads and coroutines, for TLC. *)
EXTENDS LightThread, TLC

Symmetry == Permutations(Threads)
=============================================================================
