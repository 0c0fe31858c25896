-------------------------------- MODULE Lock --------------------------------
(***************************************************************************)
(* The exclusive/shared lock (src/src/lock.rs) with poisoning, on top of   *)
(* the wait queue protocol of SyncPrimitive.                               *)
(*                                                                         *)
(* A task calls lock or share (blocking or asynchronous), or registers     *)
(* a Pager (tasks in Pagers) in one of the four modes; it then holds what  *)
(* it was given until it releases it or, when exclusive, poisons the lock. *)
(* A future or a Pager (tasks in Cancellable) may be dropped while it      *)
(* waits.  A release is only called by a task that holds the lock, or on a *)
(* lock the caller has poisoned.                                           *)
(***************************************************************************)
EXTENDS SyncPrimitive

CONSTANTS Calls,         \* opcodes the tasks ask for
          Poisoners,     \* tasks that may poison the lock they hold
          Clearers       \* tasks that may clear the poison

WaitExclusive == Wait(DATA_MASK)
WaitShared    == Wait(1)

ASSUME LockAssumption ==
    /\ max_shared_owners = DATA_MASK - 1
    /\ Calls \subseteq {Exclusive, Shared, WaitExclusive, WaitShared}
    /\ Poisoners \subseteq Tasks
    /\ Clearers \subseteq Tasks

NOT_ACQUIRED == 1

(* The word with LOCKED_FLAG alone: no data, no tail. *)
POISONED_STATE == Word(0, TRUE, <<>>)

Init == SyncInit

-----------------------------------------------------------------------------
(* Mutant of try_lock_internal: only the count is looked at. *)
try_lock_by_count ==
    IF data = 0 THEN ACQUIRED
    ELSE IF State = POISONED_STATE THEN POISONED ELSE NOT_ACQUIRED

(* try_lock_internal(_spin): the loop re-examines its local copy, so one   *)
(* call is one CAS on the word.                                            *)
try_lock_internal ==
    IF State = Free THEN ACQUIRED
    ELSE IF State = POISONED_STATE THEN POISONED ELSE NOT_ACQUIRED

(* Mutants of BelowMax: the owners are not limited; the flag is ignored;   *)
(* those who wait are overtaken.                                           *)
BelowMaxUnlimited   == State.tail = NoTask /\ ~locked
BelowMaxIgnoresFlag == State.tail = NoTask /\ data < max_shared_owners
BelowMaxOvertakes   == ~locked /\ data < max_shared_owners

(* The word compares below MAX_SHARED_OWNERS only when it has no tail and  *)
(* no flag.                                                                *)
BelowMax == State.tail = NoTask /\ ~locked /\ data < max_shared_owners

try_share_internal ==
    IF BelowMax THEN ACQUIRED
    ELSE IF State = POISONED_STATE THEN POISONED ELSE NOT_ACQUIRED

(* register_pager, Mode::WaitExclusive and Mode::WaitShared: the word is   *)
(* compared with the result code POISONED, and only then with the counts.  *)
try_wait(o) ==
    IF State = [data |-> POISONED, locked |-> FALSE, tail |-> NoTask] THEN POISONED
    ELSE IF \/ o = WaitExclusive /\ data = 0
            \/ o = WaitShared /\ data < max_shared_owners
         THEN ACQUIRED ELSE NOT_ACQUIRED

Attempt(o) ==
    CASE o = Exclusive -> try_lock_internal
      [] o = Shared    -> try_share_internal
      [] OTHER         -> try_wait(o)

-----------------------------------------------------------------------------
(* A client enters lock, share or register_pager. *)
Call(t, o) ==
    /\ pc[t] = "idle" /\ (o.kind = "Wait" => t \in Pagers)
    /\ op' = [op EXCEPT ![t] = o]
    /\ Goto(t, "try")
    /\ UNCHANGED <<word, locals, result, holds>>

(* Acquired at once; register_pager stores the result in the own entry. *)
TryAcquired(t) ==
    /\ pc[t] = "try" /\ Attempt(op[t]) = ACQUIRED
    /\ data' = data + acquired(t)
    /\ holds' = [holds EXCEPT ![t] = @ + acquired(t)]
    /\ IF t \in Pagers THEN Goto(t, "wait") /\ result' = [result EXCEPT ![t] = ACQUIRED]
                       ELSE Goto(t, "own") /\ UNCHANGED result
    /\ UNCHANGED <<locked, queue, op, locals>>

TryPoisoned(t) ==
    /\ pc[t] = "try" /\ Attempt(op[t]) = POISONED
    /\ IF t \in Pagers THEN /\ Goto(t, "wait")
                            /\ result' = [result EXCEPT ![t] = POISONED]
                            /\ UNCHANGED <<op, locals>>
                       ELSE Return(t) /\ UNCHANGED result
    /\ UNCHANGED <<word, holds>>

TryBlocked(t) ==
    /\ pc[t] = "try" /\ Attempt(op[t]) = NOT_ACQUIRED
    /\ snap' = [snap EXCEPT ![t] = State]
    /\ Goto(t, "push")
    /\ UNCHANGED <<word, op, outer, then, transferred, resolved, result, holds>>

(* try_lock and try_share; on failure nothing changes. *)
TryOnce(t, o) ==
    /\ pc[t] = "idle" /\ o \in {Exclusive, Shared} /\ Attempt(o) = ACQUIRED
    /\ op' = [op EXCEPT ![t] = o]
    /\ data' = data + acquired_count(o)
    /\ holds' = [holds EXCEPT ![t] = @ + acquired_count(o)]
    /\ Goto(t, "own")
    /\ UNCHANGED <<locked, queue, locals, result>>

(* The finalized result is consumed, by await, poll_result_sync or a Pager. *)
Poll(t) ==
    /\ pc[t] = "wait" /\ result[t] # NoResult
    /\ result' = [result EXCEPT ![t] = NoResult]
    /\ IF result[t] = ACQUIRED /\ acquired(t) > 0
       THEN Goto(t, "own") /\ UNCHANGED <<op, locals>>
       ELSE Return(t)
    /\ UNCHANGED <<word, holds>>

-----------------------------------------------------------------------------
(* release_lock: word = DATA_MASK; release_share: 0 < word <= MAX. *)
FastRelease(o) ==
    /\ State.tail = NoTask /\ ~locked
    /\ IF o = Exclusive THEN data = DATA_MASK
                        ELSE data # 0 /\ data <= max_shared_owners

ReleaseFast(t) ==
    /\ pc[t] = "own" /\ FastRelease(op[t])
    /\ data' = data - acquired(t)
    /\ holds' = [holds EXCEPT ![t] = @ - acquired(t)]
    /\ Return(t)
    /\ UNCHANGED <<locked, queue, result>>

ReleaseSlow(t) ==
    /\ pc[t] = "own" /\ ~FastRelease(op[t])
    /\ snap' = [snap EXCEPT ![t] = State]
    /\ Goto(t, "release")
    /\ UNCHANGED <<word, op, outer, then, transferred, resolved, result, holds>>

(* release_lock called on the lock the task has poisoned. *)
ReleasePoisoned(t) ==
    /\ pc[t] = "idle" /\ t \in Poisoners /\ State = POISONED_STATE
    /\ snap' = [snap EXCEPT ![t] = State]
    /\ Goto(t, "release")
    /\ UNCHANGED <<word, op, outer, then, transferred, resolved, result, holds>>

(* Mutant: the detached entries get no result. *)
PoisonForgetsQueue(t) ==
    /\ pc[t] = "own" /\ op[t] = Exclusive /\ t \in Poisoners
    /\ data = DATA_MASK /\ ~locked
    /\ data' = 0 /\ locked' = TRUE /\ queue' = <<>>
    /\ holds' = [holds EXCEPT ![t] = @ - acquired(t)]
    /\ Goto(t, "poisoning")
    /\ UNCHANGED <<op, snap, outer, then, transferred, resolved, result>>

(* poison_lock: waits while LOCKED, then one CAS detaches the whole queue. *)
Poison(t) ==
    /\ pc[t] = "own" /\ op[t] = Exclusive /\ t \in Poisoners
    /\ data = DATA_MASK /\ ~locked
    /\ data' = 0 /\ locked' = TRUE /\ queue' = <<>>
    /\ holds' = [holds EXCEPT ![t] = @ - acquired(t)]
    /\ resolved' = [resolved EXCEPT ![t] = queue]
    /\ Goto(t, "poisoning")
    /\ UNCHANGED <<op, snap, outer, then, transferred, result>>

(* Mutant: the entries are told that they acquired the lock. *)
PoisonResolveAcquired(t) == pc[t] = "poisoning" /\ SetResult(t, ACQUIRED)

PoisonResolve(t) == pc[t] = "poisoning" /\ SetResult(t, POISONED)

PoisonReturn(t) ==
    /\ pc[t] = "poisoning" /\ resolved[t] = <<>>
    /\ Return(t)
    /\ UNCHANGED <<word, result, holds>>

ClearPoison(t) ==
    /\ pc[t] \in {"idle", "own"} /\ t \in Clearers /\ State = POISONED_STATE
    /\ locked' = FALSE
    /\ UNCHANGED <<data, queue, pc, op, locals, result, holds>>

-----------------------------------------------------------------------------
(* Steps the library takes once called, and the client's obligation to     *)
(* consume a result and to release what it holds.                          *)
LockStep(t) == TryAcquired(t) \/ TryPoisoned(t) \/ TryBlocked(t) \/ Poll(t)
               \/ PoisonResolve(t) \/ PoisonReturn(t)
               \/ ReleaseFast(t) \/ ReleaseSlow(t)

(* Steps a client may take or leave. *)
Client(t) == \/ \E o \in Calls : Call(t, o) \/ TryOnce(t, o)
             \/ Drop(t) \/ Poison(t) \/ ReleasePoisoned(t) \/ ClearPoison(t)

Next == \E t \in Tasks : SyncStep(t) \/ LockStep(t) \/ Client(t)

Spec == Init /\ [][Next]_vars

(* Every thread that can run is scheduled. *)
FairSpec == Spec /\ \A t \in Tasks : WF_vars(SyncStep(t) \/ LockStep(t))

CasFairSpec == FairSpec /\ \A t \in Tasks : SF_vars(CasSucceeds(t))

-----------------------------------------------------------------------------
(* An exclusive grant excludes every other grant, from the moment the      *)
(* processor decides on it (sync_primitive.rs process_wait_queue) or the   *)
(* CAS succeeds, until the release or the poisoning.  (A task made to      *)
(* release what it was never given has less than nothing.)                 *)
MutualExclusion ==
    \A t, u \in Tasks : t # u /\ holds[t] = DATA_MASK => holds[u] <= 0

(* A poisoned word stays until clear_poison: no late fetch_add, unlock or  *)
(* release of an operation that began before the poisoning changes it      *)
(* (lock.rs:798-801).                                                      *)
PoisonSticks ==
    [][State = POISONED_STATE /\ State' # POISONED_STATE
       => \E t \in Clearers : ClearPoison(t)]_vars
=============================================================================
