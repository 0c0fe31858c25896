# Formal model of `saa`

`saa` (Synchronous And Asynchronous) is a Rust crate of word-sized
synchronization primitives - `Lock`, `Semaphore`, `Barrier`, `Gate` and the
`Pager` that waits on them remotely - which serve blocking threads and
asynchronous tasks alike, without heap allocation.  This directory holds TLA+
modules that model the crate, TLC configurations that check them on small
instances, and proofs checked by TLAPS.  Paths are relative to the repository,
so `src/src/lock.rs` is the crate's `lock.rs`.

## 1. Inventory

### The state word and the wait queue

Every primitive is one `AtomicUsize`.  From the low bits up it holds a count
(`DATA_MASK`, 6 bits), `LOCKED_FLAG` ("the queue is being processed") and the
address of the newest wait queue entry.  Waiting entries live on their waiters'
stacks or in their futures and form an intrusive list that starts at the newest
entry; pointers in the other direction are filled in by whoever walks the list.

| Component | State | Operations | Interacts with | What makes it correct |
|---|---|---|---|---|
| `Opcode` (`opcode.rs`) | none | `can_release`, `desired_count`, `acquired_count` | read by everyone who changes the word | acquired never exceeds desired; the guard prevents underflow |
| `SyncPrimitive` (`sync_primitive.rs`) | the word, the list | push, `release_loop`, `process_wait_queue`, removal of an entry on drop | called by `Lock`, `Semaphore`, `Barrier`; calls `Entry::set_result` | nobody is left asleep next to a free resource, units are neither lost nor made, the flag is a lock, no entry is freed while it is reachable |
| `Lock` (`lock.rs`) | the word; 63 = exclusive, 1..62 = sharers; the flag alone = poisoned | lock, share, try, `register_pager` in four modes, release, poison, clear | `SyncPrimitive` | mutual exclusion, fairness, poison sticks, waiters of a poisoned lock return |
| `Semaphore` (`semaphore.rs`) | the word; the count is permits taken | acquire (many), try, `register_pager`, release (many) | `SyncPrimitive` | never more than `MAX_PERMITS` out, fairness, partial release wakes |
| `Barrier` (`barrier.rs`) | the word; the count is tasks still missing | `wait` in its forms, count down, reset | `SyncPrimitive` for push and drop only | a batch is released together, exactly one is told it was last, nobody is left behind |
| `Gate` (`gate.rs`) | the word; 0/1/2 = controlled/sealed/open | enter, permit, reject, open, seal, reset, drop | push; detaches the whole list | every waiter gets the answer of the operation that detached it |
| `Entry` (`wait_queue.rs`) | `state` with `RESULT_SET`, `WAKER_SET`, `RESULT_FINALIZED` and a code; the monitor (waker or thread); `pollable` | `set_result`, `poll_result_sync`, `poll_result_async`, `try_consume_result`, `prepare_drop` | written by processors, read and freed by the waiter | stored once, the waiter is woken through the waker it gave last, no access after free |
| the list (`wait_queue.rs`) | `next`, lazily set `prev` | `iter_forward`, `iter_backward`, `set_prev_ptr`, cutting, unlinking | walked under `LOCKED_FLAG` or after detaching | it is a first-in, first-out sequence; no dangling pointer is followed |
| the anchor (`wait_queue.rs`) | where in a pinned `WaitQueue` the anchor and the entry are | `anchor_ptr`, `to_entry_ptr`, `to_anchor_ptr`, `to_wait_queue_ptr` | the word holds the anchor's address | anchor and entry fit without overlap and lead to each other, for every alignment |
| `Pager` (`pager.rs`) | one entry | register, poll, try, drop | all of the above | a dropped Pager gives back what it was given |
| `lock_api.rs` | none | adapters | `Lock` | - |

Hard behaviours: releases in place that race with the processor of the queue;
ownership that is decided, recorded in the word and told to the waiter in three
separate steps; futures dropped at any of these points; copies of the word used
long after they were read; an unprotected waker slot shared by the poller and
the thread that stores the result; pointers set lazily by whoever comes first;
poisoning; three meanings packed into one word.  There is no I/O, no persistence
and no time.  `PROJECT.json` lists the hazards line by line, with the properties
that cover them.

### Findings

Four runs are expected to be violated, each by what the code does:

* `lock_drop_poisoned` - `force_remove_wait_queue_entry` releases even when the
  result of the dropped entry is `POISONED` (`sync_primitive.rs:319`).  Trace:
  t2 holds the lock, t1 waits; t2 poisons it (t1's result becomes `POISONED`),
  clears the poison and locks again; t1's future is dropped, and its
  `release_loop(.., Exclusive)` finds the count at `DATA_MASK` and releases t2's
  lock; t3 locks.  t2 and t3 both own the lock exclusively.
* `lock_drop_hang` - the same drop, with the poison still there, spins: the
  poisoned word is `LOCKED_FLAG` alone, which the loop at `sync_primitive.rs:285`
  takes for a processor at work.
* `barrier_early` - a barrier waiter that is dropped is taken off the queue by
  the code of a semaphore (`barrier.rs:299`), which then finds every remaining
  waiter "eligible": they return although their batch is not complete, and the
  count they took down is not put back.
* `barrier_flag_lost` - the last task of a batch compares the whole word but writes
  0 over it (`barrier.rs:201`).  Trace: t1 waits, is dropped and takes `LOCKED_FLAG`
  to remove itself; t2 completes the batch, and the flag is gone.  Two tasks work on
  the list; t1's compare-exchange fails and gives it a word without flag and tail,
  against the assertions at `sync_primitive.rs:221`.  From there on `Barrier` says
  nothing, because its list is a sequence that only one task edits.

Seen in the models, without a run of their own:

* `register_pager` compares the word with the result code `POISONED` = 2
  (`lock.rs:523`): to a Pager in a Wait mode two sharers look like poison, and a
  poisoned lock looks free, while `lock.rs:40` has it wait for "free or poisoned".
* A task that finds the count of a barrier at 0 (`barrier.rs:192`) may have to try
  again any number of times: two tasks that come back at once can complete batch
  after batch before it counts down.  TLC finds this behaviour under the fairness of
  `barrier_rounds` if `EveryWaitEnds` is strengthened to "whoever waits passes".
* `Gate::reset` writes back the state it read (`gate.rs:146`); the comment at
  `gate.rs:119` promises the initial state.
* `Barrier::with_count(0)` never lets anyone pass (`barrier.rs:48`).

## 2. Plan

Written in this order, the most important behaviour first.

1. `Opcode`, `SyncPrimitive` - the protocol all queueing rests on.  *Done.*
2. `Lock`, `Semaphore` - its two full users, composed by `EXTENDS`.  *Done.*
3. `SyncPrimitiveProof`, `LockProof` - type correctness, exclusiveness of the
   flag, the debug assertions, persistence of poison.  *Done.*
4. `Entry`, shown to implement `ResultCell`.  *Done.*
5. `Gate` and `Barrier`, with their drops.  *Done.*
6. `WaitList`, shown to implement `FifoQueue`.  *Done.*
7. `Allocator`, which `Lock` and `Semaphore` implement.  *Done.*
8. `AnchorLayout` and its proofs, for every alignment.  *Done.*
9. `EntryProof` and `GateProof`: every safety property, and the refinement of
   `ResultCell`.  *Done.*
10. The other safety properties of the wait queue, for `Lock` (`LockProof`) and
    `Semaphore` (`SemaphoreProof`), and the refinement of `Allocator`.  *Done.*
11. `BarrierProof`.  *Done.*
12. `WaitListProof`: `NoDangling`, `PrevRight`, the refinement of `FifoQueue`.  *Done.*

## 3. The modules

| Module | Models |
|---|---|
| `Opcode` | `src/src/opcode.rs` and the layout of the word |
| `SyncPrimitive` | `src/src/sync_primitive.rs`, and what it uses of `wait_queue.rs` |
| `Lock` | `src/src/lock.rs`, including `register_pager` |
| `Semaphore` | `src/src/semaphore.rs`, including `register_pager` |
| `Barrier` | `src/src/barrier.rs` |
| `Gate` | `src/src/gate.rs`, including `register_pager` |
| `Entry` | the result protocol of `src/src/wait_queue.rs`, driven as in `src/src/pager.rs` |
| `AnchorLayout` | the address arithmetic of `src/src/wait_queue.rs` |
| `WaitList` | the pointers of `src/src/wait_queue.rs` under `process_wait_queue` and `remove_wait_queue_entry` |
| `Allocator`, `ResultCell`, `FifoQueue` | abstract specifications |
| `SyncPrimitiveProof` | what each step of the wait queue protocol preserves |
| `LockProof`, `SemaphoreProof`, `BarrierProof`, `GateProof`, `EntryProof`, `WaitListProof`, `AnchorLayoutProof` | theorems |
| `MCLock`, `MCSemaphore`, `MCBarrier`, `MCGate`, `MCEntry`, `MCWaitList` | sets of calls, results, addresses and symmetries for TLC |

`Lock`, `Semaphore` and `Barrier` extend `SyncPrimitive`, which extends `Opcode`;
`WaitList` extends `AnchorLayout`.

### How the levels fit together

`SyncPrimitive` and `Gate` store and consume a result in one step each and keep
the list as a sequence.  Two refinements justify this:

* `Entry` implements `ResultCell` (`CellSpec`): although a result is stored in
  five atomic steps while the owner polls, replaces its waker, gives up or
  registers the same entry again, what the owner sees is a cell that is filled
  once and read once.
* `WaitList` implements `FifoQueue` (`FifoSpec`): although `prev` pointers are set
  lazily, rounds cut the list, and drops unlink entries from the middle, the
  pointers are a sequence to which entries are appended, and from which the
  oldest, all, or one entry is taken.  All are taken only while nobody has
  `LOCKED_FLAG`, which is so in `poison_lock` and `Gate::wake_all`; a barrier's batch
  that is completed during a drop (`barrier_flag_lost`) is not covered.

In the other direction `Entry` knows of the primitives only that an entry is
claimed by one thread or unlinked by its owner, which is `NoLostWaiter` of
`SyncPrimitive` and `ReachableOnce` of `Gate`; and `WaitList` leaves the counts
out, so an entry may always be found eligible or not.  On top, `Lock` and
`Semaphore` implement `Allocator` (`FairAllocator`): requests are served in the
order of arrival, nobody who comes later, with or without queueing, gets in
front, and units go out only when they fit.

### State and grain

**The word.**  In `SyncPrimitive` the word is three variables, `data`, `locked`
and `queue`, always compared and swapped together as the record `State`, whose
tail is the last element of `queue` (or `NoTask`).  `queue` is the list, oldest
first.  An entry is named by the task that pinned it.  Each task has a program
counter `pc`, an opcode `op`, and the locals of the functions it may be in:
`snap` (the `state` variable of the innermost function), `outer` (the `state` of
`force_remove_wait_queue_entry` while its callees run), `then` (where
`process_wait_queue` returns to), `transferred`, and `resolved` (the entries that
will get a result).  `result` is the finalized result in a task's entry.  `holds`
is a history variable: what the task was given and has not released, counted
from the moment a processor decides the transfer.  No guard of an action of
`SyncPrimitive` or `Lock` reads it; in `Semaphore` it says what the client may
release.

**Grain.**  One action is one atomic access to the word or one result stored.
A failed compare-exchange is an action of its own where the code then does
something else (`PushFailed`, `ReleaseRetry`, `PwqResetFailed`,
`PwqUnlockFailed`, `RemoveRetry`); it is a stutter where the code only reloads
(`CancelEmpty`, `CancelLock`, `Poison`, the attempts, `fetch_update`).  The
closure of `process_wait_queue` is one action per visited entry: between visits
other tasks may push and release, which is where the interesting races are.
Editing the list under LOCKED is atomic with the step that makes it visible; in
`WaitList` it is not.  In `Entry`, one action is one access to `state`, to the
monitor or to a waker; the weak compare-exchange of `poll_result_*` may also fail
for no reason (`ClearFailed`).

**Copies.**  `release_loop` starts from the word its caller read, however old it
is; `remove_wait_queue_entry` returns the word it was called with unless it
changed it; a completing drop starts `release_loop` from the word read before
LOCKED was taken.  The model keeps each of these copies.

**Barrier.**  `count`, `waitOnly` and the labels `releasing` and `waking` are the
locals and the two loops of `count_down`.  `inBatch`, `credit` and `leaders` are
history variables: arrivals since the last complete batch, and tasks and leaders
of complete batches that have not returned.  Tasks in `Regulars` come again and
again, the others at most `Rounds` times.

**Gate.**  Nobody takes the flag: an operation detaches the whole list with one
update of the word and tells the entries one by one afterwards, while others
enter, operate the gate or drop their Pagers.  `verdict` is a history variable,
the operation that settled an entry.  `Drop for Gate` is `seal`; it can only find
waiters if a Pager outlived the gate.

**Entry.**  `mem`, `linked` and `claimant` are the life of the entry and of its
registration, `signaled` holds wakers that were woken and park tokens, `sent` and
`got` are history.  A blocking owner is one whose waker never changes.

**Clients.**  A `Lock` task releases only what it holds, or (`ReleasePoisoned`)
calls `release_lock` on the lock it poisoned.  Semaphore permits belong to nobody
in the code; the model lets a task release up to what it holds, and a task that
holds none may try to release more than is taken, which must be refused.
Blocking and asynchronous calls differ only in how they wait, so `Call` stands
for both; tasks in `Pagers` go through `register_pager`, where an immediate
success is stored in the entry and consumed by a later poll; tasks in
`Cancellable` may drop their entry at any moment of the wait, before or after
the result was stored.

**Abstractions.**  Memory is sequentially consistent: the orderings the code asks
for are not examined (the loom models in `src/src/tests/models.rs` do that).
Spin-backoff repeats an attempt without changing anything and is one attempt.
Addresses are task names, except in `AnchorLayout` and `WaitList`.  `begin_wait`
callbacks and the `is_*` queries change nothing.

## 4. What TLC checks

| Run | Instance | Shows | States |
|---|---|---|---|
| `lock_cancel` | 4 tasks, `DATA_MASK` 3, one of them a droppable Pager | units, flag, waiters and assertions survive every race | 1.2 M |
| `lock_poison` | 3 tasks, everyone poisons and clears, one Pager in 4 modes, no drops | poisoning grants nothing and sticks; fair allocator; no starvation | 31 k |
| `semaphore_cancel` | 3 tasks, 2 permits of which 1 withheld at first, counts 1 and 2, one droppable Pager | permit bound, releases accepted; fair allocator; no starvation, drops end | 87 k |
| `gate` | 3 tasks, 2 may drop, 1 controller | everybody is reachable once and told the right answer | 163 k |
| `entry` | 2 setters, 2 wakers, 2 result bits, any number of registrations | no access after free, no lost wake-up; implements `ResultCell` | 153 k |
| `barrier_rounds` | 4 tasks, batches of 3, any number of rounds | batches, leaders, the reset phase; every wait ends | 74 k |
| `barrier_drop` | 3 tasks of 4 needed, 2 may drop | drops lose nobody and end while nobody is the last | 1.3 k |
| `list` | 3 entries at 3 alignments, 2 may be dropped, 2 more processes | no dangling pointer; implements `FifoQueue` | 145 k |
| `lock_drop_poisoned`, `lock_drop_hang`, `barrier_early`, `barrier_flag_lost` | 3 tasks | the findings | - |

**Bounds.**  The Wait modes, whose entries take no units, are in `lock_poison` only.
Requests for zero permits are left out of `semaphore_cancel` for its size; with
`Counts = {0, 1, 2}` the same properties hold (192 k states, five minutes).
`DATA_MASK = 3` in the lock makes "exclusive" (3), the maximum number
of sharers (2) and a count in between all differ.  With three tasks an owner
releases while a processor works on one waiter and a second one pushes; with
four, there is an inner entry to remove while an owner releases in place.  Two
setters are needed for one still about to wake the owner of an earlier
registration while the other claims the next; two wakers for the replacement of
one.  With four tasks and batches of three, a task arrives during a reset and
must try again, and the next batch is completed before the last task of the one
before has returned.  Only in `barrier_drop` do two tasks drop at once; that two
drops, or a drop and a poisoning, respect each other in the lock is proved
(`LockFlagCorrect`, `LockPoisonSticks`), and so is `ReleaseNeverRefused` at the
boundary between sharers and the exclusive owner.  Three entries are one inner and
two outer ones.  `MCStart` pins the entries at 128, 320 and 504, where the anchor is at the
start of the buffer, at its middle, and 8 bytes into it (all other cases are
proved); `U64_MAX` = 65535 stands for `u64::MAX`, of which only matters that the
complement of an offset is not 0.  Apart from `Rounds`, which is 1 where tasks are
dropped, there are no counters to bound: the state spaces are finite as they stand.

Deadlock is not checked in the barrier runs with drops (tasks stop after their
round, and may be too few for a batch), in `semaphore_cancel` (a client that keeps permits may
block the others, which is its own doing) and in `lock_drop_hang`.

The properties:

* `Accounting` - the count, plus what the one processor at work has decided and
  not yet added, is what tasks were given.  `MutualExclusion` and `PermitBound`
  are what users see of it.
* `LockedFlag` - the flag is a lock for the list; without a processor it means
  poison.  `ProcessorHoldsFlag` says the same of the barrier, where it fails.
* `NoStuckHead` - when nobody processes the queue, the oldest entry could not be
  served with the present count.  It is the safety form of "no lost wake-up".
* `NoLostWaiter`, `ReachableOnce` - a waiter is reachable exactly once until it has
  a result, and nobody leaves while reachable: no use after free.
* `GrantsReal`, `ReleaseNeverRefused` - being told "acquired" means to own the
  units, and a release of units owned is never refused, though `can_release` is
  evaluated on old copies of the word.
* `FairAllocator`, `CellSpec`, `FifoSpec` - the refinements of section 3.
* `DebugAsserts`, `StoredOnce`, `PrevRight` - the assertions in the code, and why
  they hold.
* `PoisonSticks` - only `clear_poison` changes a poisoned word.
* `NobodyPassesEarly`, `OneLeaderEach`, `CountConserved` - what a barrier is for;
  the last one also while the count is being restored from the entries found.
* `NobodyWaitsAtSettledGate`, `AnswersMatch` - nobody is left behind at an open or
  sealed gate; the answer decodes to what the operation that detached the entry
  meant, although others ran in between.
* `NoUseAfterFree`, `MonitorExclusive`, `NoLostWakeup` - the `RESULT_SET`,
  `WAKER_SET`, `RESULT_FINALIZED` handshake: a setter works on the live
  registration it claimed, nobody writes the monitor while the waker is taken out
  of it, and an owner asleep will be woken through the waker it gave last.
* `NoDangling`, `TailFound` - no walk follows or writes a pointer into an entry
  that went out of scope, a result is stored once; the masked word leads to the
  tail and to no other entry.
* `StarvationFree`, `DropTerminates`, `SettledGateEmpties`, `PollReturns`,
  `EveryWaitEnds` - liveness.  `PollReturns` is about the entry alone: what a drop
  does besides waiting for its entry is in `DropTerminates`.  `EveryWaitEnds` says
  that who counted down passes and who found the count at 0 is told to try again,
  while the others come and go without end; not that the latter passes.

**Fairness.**  `FairSpec` is, in every module, weak fairness of each thread's
library steps and of its consumption of a stored result: threads are scheduled,
tasks are polled after a wake-up.  In `Lock` and `Semaphore` owners also release
what they hold; in `Barrier` tasks keep coming.  Calls to the other primitives,
drops, poisoning, clearing and the operations of a gate are never forced.  Under
`FairSpec` alone a task that enqueues and drops, or takes and releases permits, for
ever may change the word before every compare-exchange of an owner's `release_loop`
or of a drop, and may have `LOCKED_FLAG` whenever a drop looks; an owner that polls
without being woken may change `state` before every compare-exchange of
`set_result`.  That is a property of such retry loops, and the code does nothing
against it.  `CasFairSpec` (`semaphore_cancel`, `lock_drop_hang`) and the strong
fairness of `CasOk` in `Entry` therefore add that a compare-exchange that could
succeed again and again does succeed.  So `StarvationFree` and `DropTerminates` of
`semaphore_cancel` assume these two hazards (`sync_primitive.rs:87`, `285`) away,
and under `FairSpec` TLC finds both violated; what they show is that nothing else
keeps a waiter or a drop from its end.  `StarvationFree` of `lock_poison` and
`DropTerminates` of `gate` and `barrier_drop` use weak fairness only.
`lock_drop_hang` fails in spite of the strong one.

**Mutants.**  Each property of a passing run has a mutant, a definition next to
the one it replaces that commits a plausible mistake (not reading the count again
before unlocking, a store for a compare-exchange, an off-by-one in admission,
waking before finalizing, unlinking in one direction only) and that breaks the
property.

## 5. What is proved

All theorems hold for every number of tasks and every width of the count, without
the bounds of section 4.

### The wait queue, the lock and the semaphore

`SyncPrimitiveProof` has one lemma per action of `SyncPrimitive` and invariant;
`LockProof` and `SemaphoreProof` add the actions of the two primitives.  For every
choice of who may cancel, wait through Pagers, poison and clear:

| Property | Lock | Semaphore |
|---|---|---|
| `TypeOK` | `LockTypeCorrect` | `SemTypeCorrect` |
| `LockedFlag` | `LockFlagCorrect` | `SemFlagCorrect` |
| `DebugAsserts` | `LockDebugAsserts` | `SemDebugAsserts` |
| `PoisonSticks` | `LockPoisonSticks` | - |
| `NoLostWaiter` | `LockNoLostWaiter` | `SemNoLostWaiter` |
| `NoStuckHead` | `LockNoStuckHead` | `SemNoStuckHead` |
| `MutualExclusion`, `PermitBound` | `LockMutualExclusion` (*) | `SemPermitBound` |
| `Accounting` | `LockAccounting` (*) | `SemAccounting` |
| `GrantsReal` | `LockGrantsReal` (*) | `SemGrantsReal` |
| `ReleaseNeverRefused` | `LockReleaseNeverRefused` (*) | `SemReleaseNeverRefused` |
| `FairAllocator` | `LockIsFair` (*) | `SemIsFair` |

The theorems marked (*) assume `DropSafe`: there are no droppable entries, or
nobody poisons, or nobody clears.  Without it they are false, which is the finding
`lock_drop_poisoned`: an entry that was told `POISONED`, dropped after the poison
was cleared, releases units it never had.  The theorems about the semaphore have
no such hypothesis.

None of the properties is inductive.  The invariants build on each other:

* `WordInv`, the word.  `WorkInv` - a processor holds the flag, the tail it read is
  still in the list, the count it read is at least the current one, and that count
  plus what it has transferred fits the data bits.  `OneWorker`, `RoundInv` - there
  is one processor, and only within a round is there anything transferred.
  `FlagInv` - the flag without a processor is the poisoned word.  `PushInv` - nobody
  pushes onto the poisoned or the free word; without it a push onto the poisoned
  word would give a flag, a queue and no processor.  `LockWordInv` and `SemWordInv`
  add that tasks run only operations of their primitive.  From it follow `TypeOK`
  (in the code, no subtraction borrows from, and no addition carries into, the flag
  and the address), `LockedFlag` and `DebugAsserts`.
* `WaitInv`, the entries.  `ReachInv` - an entry without a result is reachable as
  long as its owner is inside, and no other is; `QueueOnce`, `ListOnce` - it is so
  in one place; `OwnList` - only a task that is storing results has a list.
* `HeadInv`, the oldest entry: `NoStuckHead`, and nobody pushes itself as the first
  entry although it could have acquired.
* `HoldsInv`, the units.  The count of the word is the sum of what was given, where
  the grants of the one processor count once it has added them; each task's part
  (`LocalInv`) says what it has by where it is.  A sum over tasks is the number of
  pairs of a task and a unit (`Total`), so that the lemmas about finite sets apply.
  For the lock, `ExclInv` adds that the count is full only if somebody has all of
  it, and `PoisonInv` who may have been told `POISONED`.

The argument per step of `WordInv` is the rely-guarantee condition `Respects(t)`:
while somebody else processes the queue, a task neither drops the flag, nor raises
the count, nor takes entries out.  `RespectsWord` shows once that a type-correct
step which respects the others preserves the invariant.  The other invariants have
such conditions per kind of step (`Moves`, `Enqueues`, `Takes`, ...).

`PoisonSticks` is an action property: on the poisoned word nobody processes the
queue, nobody is about to push, and a release that passes `can_release` subtracts
0; what is left is `clear_poison`.

`FairAllocator` is a refinement.  The queue with the opcodes of its entries is the
list of requests (`RequestsOf`), and each action is one of `Request`, `Grant`,
`Acquire`, `Release`, `Withdraw`, `Close` of `Allocator`, or changes nothing it can
see.  The step that needs an argument is the grant: the processor decides by a
count it read earlier, but the current one is not higher (`WorkInv`), so a decision
by the old one is only too strict.

### The barrier

* `BarrierNobodyPassesEarly`, `BarrierOneLeaderEach`, `BarrierCountConserved`, while
  no entry is dropped (`Cancellable = {}`; `barrier_early` shows that the first is
  false otherwise).  The invariant is `BatchInv` - who waits is reachable in one way
  (`LinkInv`), the list of a last task has only tasks of its batch before the reset
  and only tasks that must try again after it (`LeaderInv`), one task resets at a
  time (`OneLast`), and the queue has tasks of the next batch exactly when nobody
  resets (`PhaseInv`) - and `HistoryInv`: `credit` and `leaders` are the numbers of
  tasks that are owed a return and of leaders, counted as sets.
* `BarrierNoLostWaiter`, with drops by anyone, while the tasks that come are too few
  for a batch (`TooFew`; with enough of them the flag is lost, `barrier_flag_lost`).
  `WordInv` and `WaitInv` are those of the wait queue; `FewInv` adds that the count
  plus the number of times somebody came is `Count`, so that nobody finds itself the
  last.

### The gate

`GateTypeCorrect`, `GateSettledEmpty`, `GateReachableOnce` and `GateAnswersMatch`,
for any number of tasks, controllers and droppable Pagers.  Their inductive
invariant adds to them that an entry is in the queue once (`QueueOnce`), that a
detached list belongs to a thread inside `wake_all` (`OwnList`), that a result is gone
when its task enters again (`Fresh`), and that the byte a thread is about to store
means what the operation that detached the entry meant (`DetachedMatch`).

### The entry

`EntryTypeCorrect`, `EntryNoUseAfterFree`, `EntryMonitorExclusive`,
`EntryStoredOnce`, `EntryNoLostWakeup`, and `EntryIsCell`, the refinement of
`ResultCell`; for any sets of setters, wakers and results.  The invariant ties the
bits of `state` to the places of owner and setter: who claimed the registration,
that the claimed waker is the one given last, and that an owner that goes to sleep
has set `WAKER_SET` before the result, or will see the result (`OwnerInv`, `WakerInv`,
`SetterInv`).

### The layout and the word

* `LayoutSoundEverywhere` - for every 8-aligned address a `WaitQueue` may be
  pinned at, the anchor and the entry fit into its buffer without overlap, the
  anchor's value is not 0, and entry and offset lead back to the queue.
* `WordLeadsToAnchor` - whatever flag and count are in the low bits,
  `to_anchor_ptr` finds the anchor.
* `WaitListTailFound == Spec => []TailFound` - in every reachable state of the
  list, for any number of entries at any disjoint 8-aligned buffers, the word
  leads to the tail and to no other live entry.  Inductive is `LinksOK` (tail and
  links are entries or null); the rest is that anchors of disjoint buffers differ
  (`AnchorsApart`) and none is at 0.

### The list

`WaitListNoDangling`, `WaitListPrevRight` and `WaitListIsFifo`, for any finite number
of entries, any workers and dropping owners.  The list is detached only while nobody
has `LOCKED_FLAG` (`Detach`), as `poison_lock` and `Gate::wake_all` do; a barrier's
batch that is completed during a drop is excluded.  Pointers alone are not inductive:
what makes a walk safe is which list its entry is on.  `ListInv` therefore says that
there is a way to assign to each entry a list and a place there - `own[e]`, the queue,
the process that is about to tell it, or neither; `ord[e]`, its place - so that

* an entry of a list waits (`Placed`), its `next` is the entry before it on the same
  list (`Linked`), and each list is reached from the tail, or from where its process
  is in storing results (`Topped`);
* an entry of the queue that knows a successor knows the right one (`Backed`), only
  one process has the flag, and nobody knows a successor beyond the tail that process
  has read (`Held`);
* a walk has filled in the successors it passed (`Walked`), and between two rounds the
  entries without a successor are the newest ones, which is why `set_prev_ptr` may
  stop at the first that has one (`Closed`);
* what a round has served is what hangs below the visited entry (`Rounds`), and an
  owner that took its entry off the queue has it on no list when it leaves
  (`Dropping`).

Only six kinds of step change the assignment: `Push` gives the entry the next place,
the CAS on the tail and a detach give the whole queue to the process, a cut gives it
what is older than the visited entry, and storing a result or removing an entry takes
it off.  TLC checked the invariant on the instance of run `list`, with what is
reachable by `next` as the lists, before it was proved.

`WaitListIsFifo == Spec => FifoSpec` needs to know what the refinement mapping
computes: `Chain` is a recursive function over the pointers, cut off at the number of
entries.  `FifoInv` adds to `ListInv` the two kinds of sequences themselves:
`Stands(own, q, tk)` says that `next` leads from the tail through the entries of `q`,
newest first, and from what process `p` has taken through those of `tk[p]`
(`Path`), that they are entries of the right list, that `q` starts with the visited
entry if somebody visits, and that together they leave out no entry of the queue
(`AllIn`).  Since places rise along a path (`Rising`), a path has no more entries than
there are, and `Chain` returns it (`ChainIs`, by the least number at which two
solutions of its recursion differ: `NatMin`), so that `Waiting = q` and `Taken = tk`
(`MappedNow`).  Each action then leaves `q` and `tk` as they are, appends, takes the
first entry, takes all, removes one or drops the last one taken (`Moved`), which are
the actions of `FifoQueue` (`MovedIs`).  One induction, over `FifoInv`, serves the three
theorems.

### Assumptions

`LayoutAssumption` (an entry takes at most half of the virtual alignment, which the
code asserts), `WaitListAssumption` (there are finitely many entries, their buffers are
disjoint, which is what pinning means, and entries are not workers),
`DataMaskAssumption` (`DATA_MASK >= 2`), `TasksAssumption`,
`FiniteAssumption` (there are finitely many tasks, so that they can be counted),
`OwnersAssumption` (`1 <= max_shared_owners <= DATA_MASK`), `LockAssumption`
(`max_shared_owners = DATA_MASK - 1`, and the calls are the lock's),
`SemaphoreAssumption`, `BarrierAssumption` (`1 <= Count <= DATA_MASK`),
`GateAssumption` and `EntryAssumption` (the sets of tasks, calls and results are
what their names say).  TLC evaluates them in every run.

### Only model-checked

* Liveness (`StarvationFree`, `DropTerminates`, `SettledGateEmpties`, `PollReturns`,
  `EveryWaitEnds`): reasoning about fairness and `ENABLED` is out of the prover's
  reach.
* The barrier with drops and enough tasks for a batch, where the properties fail.

## 6. Not modelled

* `lock_api.rs`: it forwards to `Lock` and has no state.  (Its `lock` ignores the
  `bool` of `lock_sync`, so on a poisoned lock it returns without owning it.)
* Tests, benchmarks, examples; the layout under the `loom` feature, whose atomics
  have other sizes.
* `Barrier::with_count(0)`: what a barrier for nobody should do is not documented.
* The barrier after its flag was lost (section 1).
* Memory orderings weaker than sequential consistency.
