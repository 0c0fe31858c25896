------------------------------ MODULE Allocator ------------------------------
(***************************************************************************)
(* What a lock or a semaphore promises: a fair allocator of units.  Who    *)
(* finds nobody waiting may take units at once; everybody else is served   *)
(* in the order of arrival, the oldest request as soon as it fits and none *)
(* before it.  A request can be withdrawn, and an owner of everything can  *)
(* turn everybody away (poisoning).                                        *)
(***************************************************************************)
EXTENDS Integers, Sequences, FiniteSets

CONSTANTS Tasks,
          Units,     \* all there is
          Shared     \* how many units several owners may have between them

VARIABLES requests,  \* [task, desired, acquired], oldest first
          holds      \* per task: the units it was given

vars == <<requests, holds>>

Taken == Cardinality({u \in Tasks \X (1..Units) : u[2] <= holds[u[1]]})

(* Alone, or within what may be shared. *)
Fits(desired) == Taken = 0 \/ Taken + desired <= Shared

Init == requests = <<>> /\ holds \in [Tasks -> 0..Units]

Give(t, n) == holds' = [holds EXCEPT ![t] = @ + n]

Acquire(t, n) ==
    /\ requests = <<>> /\ Fits(n)
    /\ Give(t, n)
    /\ UNCHANGED requests

Request(t) ==
    /\ \E r \in [task : {t}, desired : 0..Units, acquired : 0..Units] :
           requests' = Append(requests, r)
    /\ UNCHANGED holds

Grant ==
    /\ requests # <<>> /\ Fits(requests[1].desired)
    /\ Give(requests[1].task, requests[1].acquired)
    /\ requests' = Tail(requests)

Withdraw(k) ==
    /\ requests' = [i \in 1..(Len(requests) - 1) |-> IF i < k THEN requests[i] ELSE requests[i + 1]]
    /\ UNCHANGED holds

Release(t, n) ==
    /\ n <= holds[t]
    /\ Give(t, -n)
    /\ UNCHANGED requests

Close(t) ==
    /\ holds[t] = Units
    /\ Give(t, -Units)
    /\ requests' = <<>>

Next == \/ \E t \in Tasks : Request(t) \/ Close(t) \/ \E n \in 1..Units : Acquire(t, n) \/ Release(t, n)
        \/ Grant
        \/ \E k \in 1..Len(requests) : Withdraw(k)

Spec == Init /\ [][Next]_vars
=============================================================================
