----------------------------- MODULE ResultCell -----------------------------
(***************************************************************************)
(* What a wait queue entry promises to the primitives built on it: a cell  *)
(* that is registered, gets one result, and is read once or taken back     *)
(* while it is still empty.  SyncPrimitive and Gate store and consume      *)
(* results in single steps of this kind; module Entry implements them.     *)
(***************************************************************************)
CONSTANTS Results,    \* result codes
          NoResult    \* not a result code

VARIABLES waiting,    \* the cell is registered
          result,     \* the result stored, or NoResult
          got         \* the result last read

vars == <<waiting, result, got>>

Init == waiting = FALSE /\ result = NoResult /\ got = NoResult

Register == ~waiting /\ waiting' = TRUE /\ UNCHANGED <<result, got>>

(* The answer was known at once and is stored by the owner itself. *)
RegisterSettled(v) == ~waiting /\ waiting' = TRUE /\ result' = v /\ UNCHANGED got

Store(v) == waiting /\ result = NoResult /\ result' = v /\ UNCHANGED <<waiting, got>>

Consume ==
    /\ waiting /\ result # NoResult
    /\ waiting' = FALSE /\ result' = NoResult /\ got' = result

(* A dropped entry: taken off the queue, or its result thrown away. *)
Withdraw == waiting /\ waiting' = FALSE /\ result' = NoResult /\ UNCHANGED got

Next == Register \/ Consume \/ Withdraw \/ \E v \in Results : RegisterSettled(v) \/ Store(v)

Spec == Init /\ [][Next]_vars
=============================================================================
