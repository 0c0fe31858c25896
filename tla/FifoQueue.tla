------------------------------ MODULE FifoQueue ------------------------------
(***************************************************************************)
(* The wait queue as the primitives see it: a sequence of entries, oldest  *)
(* first, and for each process the entries it took off and has not told    *)
(* their result yet.  This is the list of SyncPrimitive and Gate; module   *)
(* WaitList implements it with pointers.                                   *)
(***************************************************************************)
EXTENDS Integers, Sequences

CONSTANTS Entries, Processes

VARIABLES queue,    \* the entries that wait, oldest first
          taken     \* per process: entries to be told, oldest first

vars == <<queue, taken>>

Members(s) == {s[i] : i \in 1..Len(s)}

Init == queue = <<>> /\ taken = [p \in Processes |-> <<>>]

Push(e) ==
    /\ e \notin Members(queue)
    /\ \A p \in Processes : e \notin Members(taken[p])
    /\ queue' = Append(queue, e)
    /\ UNCHANGED taken

(* The oldest entry is served. *)
Take(p) ==
    /\ queue # <<>>
    /\ queue' = Tail(queue)
    /\ taken' = [taken EXCEPT ![p] = Append(@, queue[1])]

TakeAll(p) ==
    /\ taken[p] = <<>>
    /\ queue' = <<>>
    /\ taken' = [taken EXCEPT ![p] = queue]

(* An entry is removed wherever it is. *)
Remove(e) ==
    /\ \E k \in 1..Len(queue) :
           /\ queue[k] = e
           /\ queue' = [i \in 1..(Len(queue) - 1) |-> IF i < k THEN queue[i] ELSE queue[i + 1]]
    /\ UNCHANGED taken

(* The newest of the entries taken is told its result. *)
Tell(p) ==
    /\ taken[p] # <<>>
    /\ taken' = [taken EXCEPT ![p] = SubSeq(@, 1, Len(@) - 1)]
    /\ UNCHANGED queue

Next == \/ \E e \in Entries : Push(e) \/ Remove(e)
        \/ \E p \in Processes : Take(p) \/ TakeAll(p) \/ Tell(p)

Spec == Init /\ [][Next]_vars
=============================================================================
