---------------------------- MODULE MCSemaphores ----------------------------
(* Instances of Semaphores for TLC. *)
EXTENDS Semaphores
=============================================================================
