---------------------------- MODULE MCSemaphore ----------------------------
(* Semaphore with three threads, for TLC. *)
EXTENDS Semaphore, TLC
=============================================================================
