------------------------------- MODULE Opcode -------------------------------
(***************************************************************************)
(* Operation types (src/src/opcode.rs) and the layout of the state word    *)
(* they are interpreted against (src/src/wait_queue.rs).                   *)
(*                                                                         *)
(* A synchronization primitive is one machine word.  Its low bits hold a   *)
(* count ("data"), one bit above them is LOCKED_FLAG, the rest is the      *)
(* address of the newest wait queue entry.                                 *)
(***************************************************************************)
EXTENDS Integers

CONSTANT DATA_MASK      \* largest value of the count: 63 in the crate

ASSUME DataMaskAssumption == DATA_MASK \in Nat /\ DATA_MASK >= 2

Kinds == {"Exclusive", "Shared", "Barrier", "Semaphore", "Wait"}

(***************************************************************************)
(* enum Opcode.  `count` is the payload of Semaphore(n) and Wait(n); for   *)
(* Barrier it encodes the flag (0 when the operation is wait-only).        *)
(***************************************************************************)
Opcodes == [kind : Kinds, count : 0..DATA_MASK]

Exclusive    == [kind |-> "Exclusive", count |-> 0]
Shared       == [kind |-> "Shared",    count |-> 0]
Semaphore(n) == [kind |-> "Semaphore", count |-> n]
Wait(n)      == [kind |-> "Wait",      count |-> n]
Barrier(waitOnly) == [kind |-> "Barrier", count |-> IF waitOnly THEN 0 ELSE 1]

(* Mutant of can_release: the boundary counts are refused. *)
can_releaseStrict(o, d) ==
    CASE o.kind = "Exclusive" -> d = DATA_MASK
      [] o.kind = "Shared"    -> d >= 1 /\ d + 1 < DATA_MASK
      [] o.kind = "Semaphore" -> d > o.count
      [] OTHER                -> TRUE

(* Opcode::can_release, on the data bits of a state word. *)
can_release(o, d) ==
    CASE o.kind = "Exclusive" -> d = DATA_MASK
      [] o.kind = "Shared"    -> d >= 1 /\ d # DATA_MASK
      [] o.kind = "Semaphore" -> d >= o.count
      [] OTHER                -> TRUE

(* Opcode::desired_count: what must be free for the operation to proceed. *)
desired_count(o) ==
    CASE o.kind = "Exclusive" -> DATA_MASK
      [] o.kind = "Shared"    -> 1
      [] OTHER                -> o.count

(* Opcode::acquired_count: what the operation adds to the data bits. *)
acquired_count(o) ==
    CASE o.kind = "Exclusive" -> DATA_MASK
      [] o.kind = "Shared"    -> 1
      [] o.kind = "Semaphore" -> o.count
      [] OTHER                -> 0
=============================================================================
