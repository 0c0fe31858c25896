---------------------------- MODULE SyncPrimitive ----------------------------
(***************************************************************************)
(* The wait queue protocol shared by Lock and Semaphore                    *)
(* (src/src/sync_primitive.rs), one action per atomic access to the state  *)
(* word or to an entry.                                                    *)
(*                                                                         *)
(* The state word is the triple State = [data, locked, tail].  The linked  *)
(* list that starts at the tail is the sequence `queue`, oldest entry      *)
(* first.  An entry is named by the task that pinned it.  A task runs one  *)
(* operation at a time; pc[t] says where in it the task is:                *)
(*   idle          outside the library, holding nothing                    *)
(*   try           about to read the state word to acquire                 *)
(*   push          about to CAS its entry onto the queue, from snap[t]     *)
(*   wait          its entry is enqueued, or a result was stored in it     *)
(*   own           outside the library, holding what it acquired           *)
(*   release       in release_loop, about to CAS from snap[t]              *)
(*   cancel        in force_remove_wait_queue_entry, LOCKED not yet taken  *)
(*   remove        in remove_wait_queue_entry, LOCKED taken                *)
(*   complete      waiting for its result to be finalized                  *)
(*   pwq           in process_wait_queue, visiting the queue               *)
(*   pwq_add       in process_wait_queue, about to fetch_add               *)
(*   resolve_more, resolve_done                                            *)
(*                 in process_wait_queue, storing results, before another  *)
(*                 round or before returning                               *)
(*   poisoning     (Lock) storing POISONED into the detached entries       *)
(***************************************************************************)
EXTENDS Opcode, Sequences, FiniteSets

CONSTANTS Tasks,                \* threads and asynchronous tasks
          NoTask,               \* the null tail address
          max_shared_owners,    \* SyncPrimitive::max_shared_owners
          Cancellable,          \* tasks whose entry may be dropped while waiting
          Pagers                \* tasks that wait through a Pager

ASSUME TasksAssumption == /\ NoTask \notin Tasks
                          /\ Cancellable \subseteq Tasks
                          /\ Pagers \subseteq Tasks
ASSUME FiniteAssumption == IsFiniteSet(Tasks)
ASSUME OwnersAssumption ==
    max_shared_owners \in Nat /\ 1 <= max_shared_owners /\ max_shared_owners <= DATA_MASK

VARIABLES
    data,         \* data bits of the state word
    locked,       \* LOCKED_FLAG of the state word
    queue,        \* the linked list of entries, oldest first
    pc, op,       \* per task: location, and the opcode of its operation
    snap,         \* per task: local variable `state`, a copy of the word
    outer,        \* per task: force_remove's own `state` while callees run
    then,         \* per task: where process_wait_queue returns to
    transferred,  \* per task: local variable `transferred`
    resolved,     \* per task: the entries to be given a result, oldest first
    result,       \* per task: the result stored in its entry
    holds         \* history: how much of `data` was given to the task and not released

word   == <<data, locked, queue>>
locals == <<snap, outer, then, transferred, resolved>>
vars   == <<data, locked, queue, pc, op, snap, outer, then, transferred,
            resolved, result, holds>>

ACQUIRED == 0
POISONED == 2
NoResult == -1

Labels == {"idle", "try", "push", "wait", "own", "release", "cancel", "remove",
           "complete", "pwq", "pwq_add", "resolve_more", "resolve_done", "poisoning"}

Words == [data : 0..DATA_MASK, locked : BOOLEAN, tail : Tasks \cup {NoTask}]

Word(d, l, q) == [data |-> d, locked |-> l,
                  tail |-> IF q = <<>> THEN NoTask ELSE q[Len(q)]]

State == Word(data, locked, queue)
Free  == Word(0, FALSE, <<>>)

InQueue(t) == \E i \in 1..Len(queue) : queue[i] = t
acquired(t) == acquired_count(op[t])

Goto(t, label) == pc' = [pc EXCEPT ![t] = label]

(* The call returns to its caller: every local goes out of scope. *)
Return(t) ==
    /\ Goto(t, "idle")
    /\ op' = [op EXCEPT ![t] = Exclusive]
    /\ snap' = [snap EXCEPT ![t] = Free]
    /\ outer' = [outer EXCEPT ![t] = Free]
    /\ then' = [then EXCEPT ![t] = "idle"]
    /\ UNCHANGED <<transferred, resolved>>

SyncInit ==
    /\ data = 0 /\ locked = FALSE /\ queue = <<>>
    /\ pc = [t \in Tasks |-> "idle"]
    /\ op = [t \in Tasks |-> Exclusive]
    /\ snap = [t \in Tasks |-> Free]
    /\ outer = [t \in Tasks |-> Free]
    /\ then = [t \in Tasks |-> "idle"]
    /\ transferred = [t \in Tasks |-> 0]
    /\ resolved = [t \in Tasks |-> <<>>]
    /\ result = [t \in Tasks |-> NoResult]
    /\ holds = [t \in Tasks |-> 0]

-----------------------------------------------------------------------------
(* try_push_wait_queue_entry: the CAS that makes the entry the new tail. *)
PushOk(t) ==
    /\ pc[t] = "push" /\ State = snap[t]
    /\ queue' = Append(queue, t)
    /\ Goto(t, "wait")
    /\ snap' = [snap EXCEPT ![t] = Free]
    /\ UNCHANGED <<data, locked, op, outer, then, transferred, resolved, result, holds>>

(* The CAS failed: every caller starts over with a new attempt to acquire. *)
PushFailed(t) ==
    /\ pc[t] = "push" /\ State # snap[t]
    /\ Goto(t, "try")
    /\ snap' = [snap EXCEPT ![t] = Free]
    /\ UNCHANGED <<data, locked, queue, op, outer, then, transferred, resolved, result, holds>>

-----------------------------------------------------------------------------
(* release_loop *)

CanRelease(t) == can_release(op[t], snap[t].data)

(* `while opcode.can_release(state)` is false: the call returns false. *)
ReleaseRefused(t) ==
    /\ pc[t] = "release" /\ ~CanRelease(t)
    /\ Return(t)
    /\ UNCHANGED <<word, result, holds>>

(* Nobody waits, or a processor is at work and will see the new count. *)
ReleaseInPlace(t) ==
    /\ pc[t] = "release" /\ CanRelease(t)
    /\ snap[t].tail = NoTask \/ snap[t].locked
    /\ State = snap[t]
    /\ data' = data - acquired(t)
    /\ holds' = [holds EXCEPT ![t] = @ - acquired(t)]
    /\ Return(t)
    /\ UNCHANGED <<locked, queue, result>>

(* Mutant: the queue is processed with the word as it was before the CAS. *)
ReleaseAndProcessOldWord(t) ==
    /\ pc[t] = "release" /\ CanRelease(t)
    /\ snap[t].tail # NoTask /\ ~snap[t].locked
    /\ State = snap[t]
    /\ data' = data - acquired(t)
    /\ locked' = TRUE
    /\ holds' = [holds EXCEPT ![t] = @ - acquired(t)]
    /\ then' = [then EXCEPT ![t] = "idle"]
    /\ Goto(t, "pwq")
    /\ UNCHANGED <<queue, op, snap, outer, transferred, resolved, result>>

(* Release and take LOCKED in one CAS, then process the queue. *)
ReleaseAndProcess(t) ==
    /\ pc[t] = "release" /\ CanRelease(t)
    /\ snap[t].tail # NoTask /\ ~snap[t].locked
    /\ State = snap[t]
    /\ data' = data - acquired(t)
    /\ locked' = TRUE
    /\ holds' = [holds EXCEPT ![t] = @ - acquired(t)]
    /\ snap' = [snap EXCEPT ![t] = Word(data', TRUE, queue)]
    /\ then' = [then EXCEPT ![t] = "idle"]
    /\ Goto(t, "pwq")
    /\ UNCHANGED <<queue, op, outer, transferred, resolved, result>>

(* Either CAS failed: go round with the value found. *)
ReleaseRetry(t) ==
    /\ pc[t] = "release" /\ CanRelease(t) /\ State # snap[t]
    /\ snap' = [snap EXCEPT ![t] = State]
    /\ UNCHANGED <<word, pc, op, outer, then, transferred, resolved, result, holds>>

-----------------------------------------------------------------------------
(* process_wait_queue: one round visits the entries from the oldest to the *)
(* one that was the tail when `state` was read; entries pushed since then  *)
(* are left to the next round.                                             *)

Visited(t) == queue[1]
Base(t)    == snap[t].data + transferred[t]

(* Mutant of Admits: one too many. *)
AdmitsOneMore(d, o) == d = 0 \/ d + desired_count(o) <= max_shared_owners + 1

(* An entry that needs `o` may inherit ownership when d units are taken. *)
Admits(d, o) == d = 0 \/ d + desired_count(o) <= max_shared_owners

Eligible(t) == Admits(Base(t), op[Visited(t)])

(* The visited entry inherits ownership and a newer entry is left. *)
PwqVisit(t) ==
    /\ pc[t] = "pwq" /\ queue # <<>>
    /\ Visited(t) # snap[t].tail /\ Eligible(t)
    /\ transferred' = [transferred EXCEPT ![t] = @ + acquired(Visited(t))]
    /\ holds' = [holds EXCEPT ![Visited(t)] = @ + acquired(Visited(t))]
    /\ resolved' = [resolved EXCEPT ![t] = Append(@, Visited(t))]
    /\ queue' = Tail(queue)
    /\ UNCHANGED <<data, locked, pc, op, snap, outer, then, result>>

(* Mutant: the reset is a store, not a CAS, and loses newer entries. *)
PwqResetBlind(t) ==
    /\ pc[t] = "pwq" /\ queue # <<>>
    /\ Visited(t) = snap[t].tail /\ Eligible(t)
    /\ data' = Base(t) + acquired(Visited(t))
    /\ locked' = FALSE
    /\ holds' = [holds EXCEPT ![Visited(t)] = @ + acquired(Visited(t))]
    /\ resolved' = [resolved EXCEPT ![t] = Append(@, Visited(t))]
    /\ queue' = <<>>
    /\ transferred' = [transferred EXCEPT ![t] = 0]
    /\ snap' = [snap EXCEPT ![t] = Free]
    /\ Goto(t, "resolve_done")
    /\ UNCHANGED <<op, outer, then, result>>

(* The tail inherits too: one CAS empties the queue and drops LOCKED. *)
PwqReset(t) ==
    /\ pc[t] = "pwq" /\ queue # <<>>
    /\ Visited(t) = snap[t].tail /\ Eligible(t) /\ State = snap[t]
    /\ data' = Base(t) + acquired(Visited(t))
    /\ locked' = FALSE
    /\ holds' = [holds EXCEPT ![Visited(t)] = @ + acquired(Visited(t))]
    /\ resolved' = [resolved EXCEPT ![t] = Append(@, Visited(t))]
    /\ queue' = <<>>
    /\ transferred' = [transferred EXCEPT ![t] = 0]
    /\ snap' = [snap EXCEPT ![t] = Free]
    /\ Goto(t, "resolve_done")
    /\ UNCHANGED <<op, outer, then, result>>

(* reset_failed: the word changed, the tail waits for the next round. *)
PwqResetFailed(t) ==
    /\ pc[t] = "pwq" /\ queue # <<>>
    /\ Visited(t) = snap[t].tail /\ Eligible(t) /\ State # snap[t]
    /\ Goto(t, "pwq_add")
    /\ UNCHANGED <<word, op, locals, result, holds>>

(* Mutants of PwqUnlock: the count is not read again; what was transferred *)
(* is not added; the list of served entries is cut one entry too late.     *)
PwqUnlockUnread(t) ==
    /\ pc[t] = "pwq" /\ queue # <<>> /\ ~Eligible(t)
    /\ data' = data + transferred[t]
    /\ locked' = FALSE
    /\ transferred' = [transferred EXCEPT ![t] = 0]
    /\ snap' = [snap EXCEPT ![t] = Free]
    /\ Goto(t, "resolve_done")
    /\ UNCHANGED <<queue, op, outer, then, resolved, result, holds>>

PwqUnlockNoAdd(t) ==
    /\ pc[t] = "pwq" /\ queue # <<>>
    /\ ~Eligible(t) /\ data = snap[t].data
    /\ locked' = FALSE
    /\ transferred' = [transferred EXCEPT ![t] = 0]
    /\ snap' = [snap EXCEPT ![t] = Free]
    /\ Goto(t, "resolve_done")
    /\ UNCHANGED <<data, queue, op, outer, then, resolved, result, holds>>

PwqUnlockCutLate(t) ==
    /\ pc[t] = "pwq" /\ queue # <<>>
    /\ ~Eligible(t) /\ data = snap[t].data
    /\ data' = data + transferred[t]
    /\ locked' = FALSE
    /\ transferred' = [transferred EXCEPT ![t] = 0]
    /\ resolved' = [resolved EXCEPT ![t] = Append(@, Visited(t))]
    /\ queue' = Tail(queue)
    /\ snap' = [snap EXCEPT ![t] = Free]
    /\ Goto(t, "resolve_done")
    /\ UNCHANGED <<op, outer, then, result, holds>>

(* The visited entry must wait and the count is the one it was judged by:  *)
(* add what was transferred and drop LOCKED.                               *)
PwqUnlock(t) ==
    /\ pc[t] = "pwq" /\ queue # <<>>
    /\ ~Eligible(t) /\ data = snap[t].data
    /\ data' = data + transferred[t]
    /\ locked' = FALSE
    /\ transferred' = [transferred EXCEPT ![t] = 0]
    /\ snap' = [snap EXCEPT ![t] = Free]
    /\ Goto(t, "resolve_done")
    /\ UNCHANGED <<queue, op, outer, then, resolved, result, holds>>

(* Someone released in place meanwhile: the entry must be judged again. *)
PwqUnlockFailed(t) ==
    /\ pc[t] = "pwq" /\ queue # <<>>
    /\ ~Eligible(t) /\ data # snap[t].data
    /\ Goto(t, "pwq_add")
    /\ UNCHANGED <<word, op, locals, result, holds>>

(* fetch_add(transferred): commit this round and keep LOCKED. *)
PwqAdd(t) ==
    /\ pc[t] = "pwq_add"
    /\ data' = data + transferred[t]
    /\ transferred' = [transferred EXCEPT ![t] = 0]
    /\ snap' = [snap EXCEPT ![t] = Word(data', locked, queue)]
    /\ Goto(t, "resolve_more")
    /\ UNCHANGED <<locked, queue, op, outer, then, resolved, result, holds>>

(* Entry::set_result on the newest entry of the list (iter_forward). *)
SetResult(t, value) ==
    /\ resolved[t] # <<>>
    /\ LET n == Len(resolved[t]) IN
       /\ result' = [result EXCEPT ![resolved[t][n]] = value]
       /\ resolved' = [resolved EXCEPT ![t] = SubSeq(@, 1, n - 1)]
    /\ UNCHANGED <<word, pc, op, snap, outer, then, transferred, holds>>

Resolve(t) == pc[t] \in {"resolve_more", "resolve_done"} /\ SetResult(t, ACQUIRED)

(* `while !unlocked`: another round. *)
PwqContinue(t) ==
    /\ pc[t] = "resolve_more" /\ resolved[t] = <<>>
    /\ Goto(t, "pwq")
    /\ UNCHANGED <<word, op, locals, result, holds>>

PwqReturn(t) ==
    /\ pc[t] = "resolve_done" /\ resolved[t] = <<>>
    /\ IF then[t] = "idle" THEN Return(t)
                           ELSE Goto(t, then[t]) /\ UNCHANGED <<op, locals>>
    /\ UNCHANGED <<word, result, holds>>

-----------------------------------------------------------------------------
(* WaitQueue::drop, of an entry whose result was not consumed. *)
Drop(t) ==
    /\ pc[t] = "wait" /\ t \in Cancellable
    /\ Goto(t, "cancel")
    /\ UNCHANGED <<word, op, locals, result, holds>>

(* force_remove_wait_queue_entry.  A set LOCKED_FLAG makes it spin.  The   *)
(* CAS that takes LOCKED and the load it compares with are one step: a     *)
(* failed CAS only reloads.                                                *)
CancelEmpty(t) ==
    /\ pc[t] = "cancel" /\ ~locked /\ queue = <<>>
    /\ outer' = [outer EXCEPT ![t] = State]
    /\ Goto(t, "complete")
    /\ UNCHANGED <<word, op, snap, then, transferred, resolved, result, holds>>

(* Mutant: LOCKED is set without checking that nobody else has it. *)
CancelLockUnchecked(t) ==
    /\ pc[t] = "cancel" /\ queue # <<>>
    /\ locked' = TRUE
    /\ outer' = [outer EXCEPT ![t] = State]
    /\ snap' = [snap EXCEPT ![t] = Word(data, TRUE, queue)]
    /\ Goto(t, "remove")
    /\ UNCHANGED <<data, queue, op, then, transferred, resolved, result, holds>>

CancelLock(t) ==
    /\ pc[t] = "cancel" /\ ~locked /\ queue # <<>>
    /\ locked' = TRUE
    /\ outer' = [outer EXCEPT ![t] = State]
    /\ snap' = [snap EXCEPT ![t] = Word(data, TRUE, queue)]
    /\ Goto(t, "remove")
    /\ UNCHANGED <<data, queue, op, then, transferred, resolved, result, holds>>

(* remove_wait_queue_entry *)
Unlink(q, k) == [i \in 1..(Len(q) - 1) |-> IF i < k THEN q[i] ELSE q[i + 1]]

(* A newer entry exists: unlink without touching, or re-reading, the word. *)
RemoveInner(t) ==
    /\ pc[t] = "remove" /\ t # snap[t].tail
    /\ \E k \in 1..Len(queue) : queue[k] = t /\ queue' = Unlink(queue, k)
    /\ then' = [then EXCEPT ![t] = "idle"]
    /\ Goto(t, "pwq")
    /\ UNCHANGED <<data, locked, op, snap, outer, transferred, resolved, result, holds>>

(* The entry is the tail: the next older one becomes the tail. *)
RemoveTail(t) ==
    /\ pc[t] = "remove" /\ t = snap[t].tail /\ State = snap[t] /\ Len(queue) > 1
    /\ queue' = Unlink(queue, Len(queue))
    /\ snap' = [snap EXCEPT ![t] = Word(data, locked, queue')]
    /\ then' = [then EXCEPT ![t] = "idle"]
    /\ Goto(t, "pwq")
    /\ UNCHANGED <<data, locked, op, outer, transferred, resolved, result, holds>>

(* Mutant: the queue is reset and LOCKED stays. *)
RemoveSoleKeepsFlag(t) ==
    /\ pc[t] = "remove" /\ t = snap[t].tail /\ State = snap[t] /\ Len(queue) = 1
    /\ queue' = <<>>
    /\ Return(t)
    /\ UNCHANGED <<data, locked, result, holds>>

(* The entry is alone: reset the queue, drop LOCKED, nothing to process. *)
RemoveSole(t) ==
    /\ pc[t] = "remove" /\ t = snap[t].tail /\ State = snap[t] /\ Len(queue) = 1
    /\ queue' = <<>>
    /\ locked' = FALSE
    /\ Return(t)
    /\ UNCHANGED <<data, result, holds>>

(* The entry is the tail that was read but the word changed. *)
RemoveRetry(t) ==
    /\ pc[t] = "remove" /\ t = snap[t].tail /\ State # snap[t]
    /\ snap' = [snap EXCEPT ![t] = State]
    /\ UNCHANGED <<word, pc, op, outer, then, transferred, resolved, result, holds>>

(* Not found: somebody else took the entry off the queue. *)
RemoveMissing(t) ==
    /\ pc[t] = "remove" /\ ~InQueue(t)
    /\ then' = [then EXCEPT ![t] = "complete"]
    /\ Goto(t, "pwq")
    /\ UNCHANGED <<word, op, snap, outer, transferred, resolved, result, holds>>

(* need_completion: once the result is finalized, give back what came with *)
(* it, starting from the word read before LOCKED was taken.                *)
Complete(t) ==
    /\ pc[t] = "complete" /\ result[t] # NoResult
    /\ result' = [result EXCEPT ![t] = NoResult]
    /\ snap' = [snap EXCEPT ![t] = outer[t]]
    /\ Goto(t, "release")
    /\ UNCHANGED <<word, op, outer, then, transferred, resolved, holds>>

-----------------------------------------------------------------------------
Release(t) == ReleaseRefused(t) \/ ReleaseInPlace(t) \/ ReleaseAndProcess(t)
              \/ ReleaseRetry(t)

Process(t) == PwqVisit(t) \/ PwqReset(t) \/ PwqResetFailed(t) \/ PwqUnlock(t)
              \/ PwqUnlockFailed(t) \/ PwqAdd(t) \/ Resolve(t)
              \/ PwqContinue(t) \/ PwqReturn(t)

Cancel(t) == CancelEmpty(t) \/ CancelLock(t) \/ RemoveInner(t) \/ RemoveTail(t)
             \/ RemoveSole(t) \/ RemoveRetry(t) \/ RemoveMissing(t) \/ Complete(t)

SyncStep(t) == PushOk(t) \/ PushFailed(t) \/ Release(t) \/ Process(t) \/ Cancel(t)

(* In addition, no thread loses its CAS for ever: the word is not changed  *)
(* under it in every round of a loop that could otherwise be left.         *)
CasSucceeds(t) == PushOk(t) \/ ReleaseInPlace(t) \/ ReleaseAndProcess(t) \/ PwqReset(t)
                  \/ PwqUnlock(t) \/ CancelEmpty(t) \/ CancelLock(t)
                  \/ RemoveTail(t) \/ RemoveSole(t)

-----------------------------------------------------------------------------
(* Values the variables may take, for every primitive built on this module. *)
TypeOK ==
    /\ data \in 0..DATA_MASK
    /\ locked \in BOOLEAN
    /\ queue \in Seq(Tasks)
    /\ pc \in [Tasks -> Labels]
    /\ op \in [Tasks -> Opcodes]
    /\ snap \in [Tasks -> Words]
    /\ outer \in [Tasks -> Words]
    /\ then \in [Tasks -> {"idle", "complete"}]
    /\ transferred \in [Tasks -> 0..DATA_MASK]
    /\ resolved \in [Tasks -> Seq(Tasks)]
    /\ result \in [Tasks -> {NoResult, ACQUIRED, POISONED}]
    /\ holds \in [Tasks -> Int]

(* Tasks between taking LOCKED_FLAG and dropping it. *)
Processing(t) == pc[t] \in {"remove", "pwq", "pwq_add", "resolve_more"}

(* The units tasks were given, and the entries about to get a result. *)
Units == {u \in Tasks \X (1..DATA_MASK) : u[2] <= holds[u[1]]}
Pending(t) == \E u \in Tasks : \E i \in 1..Len(resolved[u]) : resolved[u][i] = t

(* The count of the word is exactly what tasks were given, except for the  *)
(* grants the one processor at work has decided and not yet added: no      *)
(* release in place, transfer, reset or cancellation loses or makes units. *)
Accounting ==
    /\ \A t \in Tasks : Processing(t) => data + transferred[t] = Cardinality(Units)
    /\ (\A t \in Tasks : ~Processing(t)) => data = Cardinality(Units)

(* The wait queue as requests to a fair allocator. *)
Requests == [i \in 1..Len(queue) |-> [task |-> queue[i],
                                     desired |-> desired_count(op[queue[i]]),
                                     acquired |-> acquired(queue[i])]]

Fair == INSTANCE Allocator WITH Units <- DATA_MASK, Shared <- max_shared_owners,
                                requests <- Requests

(* Units are given in the order of arrival and only when they fit: nobody  *)
(* who comes later, and no release, removal or retry of the processor in   *)
(* between, overtakes the oldest entry ("Fair", wait_queue.rs:24).         *)
FairAllocator == Fair!Spec

(* LOCKED_FLAG is a lock: at most one task works on the list, and the flag *)
(* is set exactly while one does, or when it is set alone (poisoned).      *)
LockedFlag ==
    /\ \A t, u \in Tasks : Processing(t) /\ Processing(u) => t = u
    /\ locked <=> \/ State = Word(0, TRUE, <<>>)
                  \/ \E t \in Tasks : Processing(t)

(* No lost wake-up: when nobody processes the queue, its oldest entry      *)
(* could not be served with the current count (process_wait_queue re-reads *)
(* the count before it unlocks; remove_wait_queue_entry does not).         *)
NoStuckHead == ~locked /\ queue # <<>> => ~Admits(data, op[queue[1]])

(* A task that waits for a result is in the queue, or in a list of entries *)
(* about to get one; it is never in both, and never in either once it has  *)
(* a result (wait_queue.rs:441 asserts that set_result runs once).  And no *)
(* entry leaves the frame of its owner while the list or a processor       *)
(* refers to it: a task whose entry is reachable is still inside the wait  *)
(* or inside force_remove_wait_queue_entry.                                *)
NoLostWaiter ==
    \A t \in Tasks :
        /\ pc[t] \in {"wait", "cancel", "complete"} /\ result[t] = NoResult
           => InQueue(t) \/ Pending(t)
        /\ InQueue(t) \/ Pending(t) => result[t] = NoResult
        /\ ~(InQueue(t) /\ Pending(t))
        /\ InQueue(t) => pc[t] \in {"wait", "cancel", "remove"}
        /\ Pending(t) => \/ pc[t] \in {"wait", "cancel", "remove", "complete"}
                         \/ then[t] = "complete"

(* Nobody is told it acquired without holding the units it asked for. *)
GrantsReal ==
    \A t \in Tasks : pc[t] = "own" \/ result[t] = ACQUIRED => holds[t] >= acquired(t)

(* A release of something held is never refused, however old the copy of   *)
(* the word is that release_loop starts from.                              *)
ReleaseNeverRefused ==
    \A t \in Tasks :
        pc[t] = "release" /\ acquired(t) > 0 /\ holds[t] >= acquired(t) => CanRelease(t)

(* The assertions of wait_resources_sync (sync_primitive.rs:71), of         *)
(* process_wait_queue (125, 150, 189, 190) and of remove_wait_queue_entry  *)
(* (221, 222): a stale copy of the word never misleads them.               *)
DebugAsserts ==
    \A t \in Tasks :
        /\ pc[t] = "push" => snap[t].tail # NoTask \/ snap[t].data # 0
        /\ Processing(t) =>
              /\ snap[t].locked /\ snap[t].tail # NoTask
              /\ data <= snap[t].data
              /\ data + transferred[t] <= DATA_MASK
              /\ \A i \in 1..Len(queue) : acquired(queue[i]) <= desired_count(op[queue[i]])

(* Everyone who is enqueued gets out of the wait, provided that owners     *)
(* release and results are consumed.                                       *)
StarvationFree == \A t \in Tasks : pc[t] = "wait" ~> pc[t] # "wait"

(* Dropping an entry terminates: the loop of force_remove_wait_queue_entry *)
(* waits for "another thread [...] processing the wait queue" (286).       *)
DropTerminates == \A t \in Tasks : pc[t] = "cancel" ~> pc[t] = "idle"
=============================================================================
