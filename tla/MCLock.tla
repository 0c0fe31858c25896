------------------------------- MODULE MCLock -------------------------------
(* Instances of Lock for TLC. *)
EXTENDS Lock, TLC

AllCalls  == {Exclusive, Shared, WaitExclusive, WaitShared}
ExclusiveCalls == {Exclusive}
OwnerCalls == {Exclusive, Shared}

(* Tasks with the same rights are interchangeable; used where Pagers,      *)
(* Poisoners and Clearers are each empty, Cancellable or all of Tasks.     *)
Symmetry == Permutations(Cancellable) \cup Permutations(Tasks \ Cancellable)
=============================================================================
