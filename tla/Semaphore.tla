------------------------------ MODULE Semaphore ------------------------------
(***************************************************************************)
(* The counting semaphore (src/src/semaphore.rs) on top of the wait queue  *)
(* protocol of SyncPrimitive.  The data bits count the permits taken.      *)
(*                                                                         *)
(* Permits are not tied to a call: a task may take several, release them   *)
(* in portions, and (tasks in Nested) ask for more while it holds some.    *)
(* The permits withheld by with_permits are counted as held by one task,   *)
(* which may release them.                                                 *)
(***************************************************************************)
EXTENDS SyncPrimitive

CONSTANTS Counts,     \* numbers of permits the tasks ask for or release
          Permits,    \* argument of with_permits
          Nested      \* tasks that may ask for more while holding permits

MAX_PERMITS == DATA_MASK

ASSUME SemaphoreAssumption ==
    /\ max_shared_owners = MAX_PERMITS
    /\ Counts \subseteq Nat
    /\ Permits \in Nat
    /\ Nested \subseteq Tasks

(* with_permits *)
Withheld == MAX_PERMITS - (IF Permits < MAX_PERMITS THEN Permits ELSE MAX_PERMITS)

Init ==
    /\ data = Withheld /\ locked = FALSE /\ queue = <<>>
    /\ pc = [t \in Tasks |-> "idle"]
    /\ op = [t \in Tasks |-> Exclusive]
    /\ snap = [t \in Tasks |-> Free]
    /\ outer = [t \in Tasks |-> Free]
    /\ then = [t \in Tasks |-> "idle"]
    /\ transferred = [t \in Tasks |-> 0]
    /\ resolved = [t \in Tasks |-> <<>>]
    /\ result = [t \in Tasks |-> NoResult]
    /\ \E keeper \in Tasks :
           holds = [t \in Tasks |-> IF t = keeper THEN Withheld ELSE 0]

-----------------------------------------------------------------------------
(* Mutant: those who wait are overtaken. *)
try_acquire_overtakes(n) == data + n <= MAX_PERMITS

(* try_acquire_internal: fails when someone waits or permits are short. *)
try_acquire_internal(n) == State.tail = NoTask /\ data + n <= MAX_PERMITS

(* A client enters acquire, acquire_many or register_pager; a count above  *)
(* MAX_PERMITS returns false at once and changes nothing.                  *)
Call(t, n) ==
    /\ pc[t] = "idle" /\ n <= MAX_PERMITS
    /\ holds[t] = 0 \/ t \in Nested
    /\ op' = [op EXCEPT ![t] = Semaphore(n)]
    /\ Goto(t, "try")
    /\ UNCHANGED <<word, locals, result, holds>>

(* Acquired at once; register_pager stores the result in the own entry. *)
TryAcquired(t) ==
    /\ pc[t] = "try" /\ try_acquire_internal(op[t].count)
    /\ data' = data + acquired(t)
    /\ holds' = [holds EXCEPT ![t] = @ + acquired(t)]
    /\ IF t \in Pagers
       THEN /\ Goto(t, "wait")
            /\ result' = [result EXCEPT ![t] = ACQUIRED]
            /\ UNCHANGED <<op, locals>>
       ELSE Return(t) /\ UNCHANGED result
    /\ UNCHANGED <<locked, queue>>

TryBlocked(t) ==
    /\ pc[t] = "try" /\ ~try_acquire_internal(op[t].count)
    /\ snap' = [snap EXCEPT ![t] = State]
    /\ Goto(t, "push")
    /\ UNCHANGED <<word, op, outer, then, transferred, resolved, result, holds>>

(* try_acquire and try_acquire_many; on failure nothing changes. *)
TryOnce(t, n) ==
    /\ pc[t] = "idle" /\ n <= MAX_PERMITS /\ try_acquire_internal(n)
    /\ data' = data + n
    /\ holds' = [holds EXCEPT ![t] = @ + n]
    /\ UNCHANGED <<locked, queue, pc, op, locals, result>>

(* The finalized result is consumed, by await, poll_result_sync or a Pager. *)
Poll(t) ==
    /\ pc[t] = "wait" /\ result[t] # NoResult
    /\ result' = [result EXCEPT ![t] = NoResult]
    /\ Return(t)
    /\ UNCHANGED <<word, holds>>

-----------------------------------------------------------------------------
(* release and release_many, of permits held: the CAS from the word that   *)
(* is exactly the count.                                                   *)
ReleaseFast(t, n) ==
    /\ pc[t] = "idle" /\ 0 < n /\ n <= holds[t] /\ State = [Free EXCEPT !.data = n]
    /\ data' = 0
    /\ holds' = [holds EXCEPT ![t] = @ - n]
    /\ UNCHANGED <<locked, queue, pc, op, locals, result>>

(* Every other word goes through release_loop. *)
ReleaseSlow(t, n) ==
    /\ pc[t] = "idle" /\ 0 < n /\ n <= holds[t] /\ State # [Free EXCEPT !.data = n]
    /\ op' = [op EXCEPT ![t] = Semaphore(n)]
    /\ snap' = [snap EXCEPT ![t] = State]
    /\ Goto(t, "release")
    /\ UNCHANGED <<word, outer, then, transferred, resolved, result, holds>>

(* A task that holds none releases more permits than are taken.  No word   *)
(* counts more than MAX_PERMITS: can_release refuses a larger n likewise.  *)
ReleaseTooMany(t, n) ==
    /\ pc[t] = "idle" /\ holds[t] = 0 /\ data < n /\ n <= MAX_PERMITS
    /\ op' = [op EXCEPT ![t] = Semaphore(n)]
    /\ snap' = [snap EXCEPT ![t] = State]
    /\ Goto(t, "release")
    /\ UNCHANGED <<word, outer, then, transferred, resolved, result, holds>>

-----------------------------------------------------------------------------
SemaphoreStep(t) == TryAcquired(t) \/ TryBlocked(t) \/ Poll(t)
                    \/ \E n \in 1..MAX_PERMITS : ReleaseFast(t, n) \/ ReleaseSlow(t, n)

Client(t) == \/ \E n \in Counts : Call(t, n) \/ TryOnce(t, n) \/ ReleaseTooMany(t, n)
             \/ Drop(t)

Next == \E t \in Tasks : SyncStep(t) \/ SemaphoreStep(t) \/ Client(t)

Spec == Init /\ [][Next]_vars

(* Every thread that can run is scheduled, and permits held are released. *)
FairSpec == Spec /\ \A t \in Tasks : WF_vars(SyncStep(t) \/ SemaphoreStep(t))

CasFairSpec == FairSpec /\ \A t \in Tasks : SF_vars(CasSucceeds(t))

-----------------------------------------------------------------------------
(* Never more permits out than MAX_PERMITS, counting those a processor has *)
(* decided to hand over and not yet added to the word.                     *)
PermitBound == Cardinality(Units) <= MAX_PERMITS
=============================================================================
