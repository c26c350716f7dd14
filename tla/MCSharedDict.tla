---------------------------- MODULE MCSharedDict ----------------------------
(* SharedDict with two workers, for TLC. *)
EXTENDS SharedDict, TLC

MCSymmetry == Permutations(Keys) \cup Permutations(Workers)
=============================================================================
