------------------------------- MODULE MCGate -------------------------------
(* Instances of Gate for TLC. *)
EXTENDS Gate, TLC

Symmetry == Permutations(Cancellable) \cup Permutations(Tasks \ Cancellable)
            \cup Permutations(Controllers)
=============================================================================
