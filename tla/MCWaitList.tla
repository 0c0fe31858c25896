----------------------------- MODULE MCWaitList -----------------------------
(* Instances of WaitList for TLC.  The buffers are pinned at an aligned    *)
(* address, half way between two, and just before one.                     *)
EXTENDS WaitList, TLC

CONSTANTS e1, e2, e3

MCStart == e1 :> 128 @@ e2 :> 320 @@ e3 :> 504

Symmetry == Permutations(Workers)
=============================================================================
