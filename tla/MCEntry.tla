------------------------------- MODULE MCEntry -------------------------------
(* Instances of Entry for TLC: the code 0 and those of one bit. *)
EXTENDS Entry, TLC

MCResults == {{}} \cup {{b} : b \in Bits}

Symmetry == Permutations(Setters) \cup Permutations(Wakers)
=============================================================================
