------------------------------ MODULE MCBarrier ------------------------------
(* Instances of Barrier for TLC. *)
EXTENDS Barrier, TLC

Symmetry == Permutations(Cancellable) \cup Permutations(Tasks \ Cancellable)
=============================================================================
