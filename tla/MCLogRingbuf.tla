---------------------------- MODULE MCLogRingbuf ----------------------------
(* LogRingbuf with a buffer of seven bytes, for TLC. *)
EXTENDS LogRingbuf, TLC
=============================================================================
