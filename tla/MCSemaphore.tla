----------------------------- MODULE MCSemaphore -----------------------------
(* Instances of Semaphore for TLC. *)
EXTENDS Semaphore, TLC

Symmetry == Permutations(Cancellable) \cup Permutations(Tasks \ Cancellable)
=============================================================================
