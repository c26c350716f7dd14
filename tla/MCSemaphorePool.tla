-------------------------- MODULE MCSemaphorePool --------------------------
(* SemaphorePool with four blocks of two semaphores, for TLC. *)
EXTENDS SemaphorePool, TLC
=============================================================================
