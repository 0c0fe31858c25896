--------------------------- MODULE SemaphoreProof ---------------------------
(***************************************************************************)
(* Theorems about Semaphore, for any number of tasks and permits, any      *)
(* DATA_MASK, and whoever cancels or asks for more while holding some.     *)
(***************************************************************************)
EXTENDS Semaphore, SyncPrimitiveProof

(* Tasks inside the library ask for or release permits, and nobody is ever *)
(* told that the semaphore is poisoned.                                    *)
PermitOps ==
    \A t \in Tasks : /\ op[t].kind = "Semaphore" \/ pc[t] = "idle"
                     /\ pc[t] \notin {"own", "poisoning"}
                     /\ result[t] # POISONED

(* The flag without an entry means poisoned: it never is. *)
FlagUsed == locked => queue # <<>>

SemWordInv == WordInv /\ PermitOps /\ FlagUsed

USE DEF NoResult, ACQUIRED, POISONED

LEMMA PermitFacts ==
    /\ DATA_MASK \in Nat /\ DATA_MASK >= 2 /\ MAX_PERMITS = DATA_MASK
    /\ max_shared_owners = DATA_MASK /\ Withheld \in 0..DATA_MASK
    /\ Exclusive \in Opcodes
  BY DataMaskAssumption, SemaphoreAssumption DEF MAX_PERMITS, Withheld, Exclusive, Opcodes, Kinds

LEMMA PermitOpcode ==
    ASSUME NEW n \in 0..DATA_MASK
    PROVE  /\ Semaphore(n) \in Opcodes /\ Semaphore(n).kind = "Semaphore"
           /\ Semaphore(n).count = n
           /\ acquired_count(Semaphore(n)) = n
  BY DEF Semaphore, Opcodes, Kinds, acquired_count

(* The operation of a task inside acquires or releases its count. *)
LEMMA PermitAcquired ==
    ASSUME SemWordInv, NEW t \in Tasks, pc[t] # "idle"
    PROVE  /\ op[t] \in Opcodes /\ op[t].kind = "Semaphore" /\ op[t].count \in 0..DATA_MASK
           /\ acquired(t) = op[t].count /\ desired_count(op[t]) = op[t].count
           /\ \A d \in 0..DATA_MASK : can_release(op[t], d) <=> d >= op[t].count
<1>1. op[t] \in Opcodes /\ op[t].kind = "Semaphore"
  BY DEF SemWordInv, WordInv, TypeOK, PermitOps
<1> QED  BY <1>1 DEF Opcodes, acquired, acquired_count, desired_count, can_release

LEMMA InitSemWord ==
    ASSUME Init
    PROVE  SemWordInv
<1>1. TypeOK
  <2>2. data \in 0..DATA_MASK /\ locked \in BOOLEAN /\ queue \in Seq(Tasks)
    BY PermitFacts, NilSeq DEF Init
  <2>3. /\ pc \in [Tasks -> Labels] /\ then \in [Tasks -> {"idle", "complete"}]
        /\ op \in [Tasks -> Opcodes] /\ transferred \in [Tasks -> 0..DATA_MASK]
    BY PermitFacts DEF Init, Labels
  <2>4. snap \in [Tasks -> Words] /\ outer \in [Tasks -> Words]
    BY FreeFacts DEF Init
  <2>5. /\ resolved \in [Tasks -> Seq(Tasks)]
        /\ result \in [Tasks -> {NoResult, ACQUIRED, POISONED}]
    BY NilSeq DEF Init
  <2>6. holds \in [Tasks -> Int]
    BY PermitFacts DEF Init
  <2> QED  BY <2>2, <2>3, <2>4, <2>5, <2>6 DEF TypeOK
<1>2. WorkInv /\ OneWorker /\ RoundInv /\ FlagInv /\ PushInv
  BY DEF Init, WorkInv, OneWorker, RoundInv, FlagInv, PushInv, Processing
<1>3. PermitOps /\ FlagUsed
  BY DEF Init, PermitOps, FlagUsed
<1> QED  BY <1>1, <1>2, <1>3 DEF SemWordInv, WordInv

-----------------------------------------------------------------------------
(* Permits that are taken fit, and are taken only when nobody waits.       *)
LEMMA TryFacts ==
    ASSUME SemWordInv, NEW n \in Nat, try_acquire_internal(n)
    PROVE  /\ data + n \in 0..DATA_MASK /\ queue = <<>> /\ ~locked
           /\ \A t \in Tasks : ~Processing(t)
<1>0. WordInv /\ data \in 0..DATA_MASK
  BY Shape DEF SemWordInv
<1>1. State.tail = NoTask /\ data + n <= DATA_MASK
  BY PermitFacts DEF try_acquire_internal
<1>2. queue = <<>>
  BY <1>0, <1>1, StateFacts
<1>3. ~locked
  BY <1>2 DEF SemWordInv, FlagUsed
<1> QED  BY <1>0, <1>1, <1>2, <1>3, Worker, PermitFacts

LEMMA SemCallWord ==
    ASSUME SemWordInv, NEW t \in Tasks, NEW n \in Counts, Call(t, n)
    PROVE  WordInv'
<1> WordInv
  BY DEF SemWordInv
<1>q. transferred[t] = 0
  BY Quiet DEF Call
<1>1. TypeOK'
  <2>1. Semaphore(n) \in Opcodes
    BY PermitFacts, PermitOpcode, SemaphoreAssumption DEF Call
  <2> QED  BY <2>1 DEF WordInv, TypeOK, Call, Goto, word, locals, Labels
<1>2. Respects(t)
  BY Shape, <1>q DEF Call, Goto, word, locals, Respects, Processing
<1> QED  BY <1>1, <1>2, RespectsWord

LEMMA SemTryAcquiredWord ==
    ASSUME SemWordInv, NEW t \in Tasks, TryAcquired(t)
    PROVE  WordInv'
<1>w. WordInv /\ TypeOK
  BY DEF SemWordInv, WordInv
<1>a. /\ acquired(t) \in 0..DATA_MASK /\ data + acquired(t) \in 0..DATA_MASK
      /\ ~locked /\ queue = <<>>
  <2>1. acquired(t) = op[t].count /\ op[t].count \in 0..DATA_MASK
    BY PermitAcquired DEF TryAcquired
  <2> QED  BY <2>1, TryFacts, PermitFacts DEF TryAcquired
<1>q. transferred[t] = 0
  BY <1>w, Quiet DEF TryAcquired
<1>0. /\ data' \in 0..DATA_MASK /\ holds' \in [Tasks -> Int] /\ locked' = locked /\ queue' = queue
      /\ result' \in [Tasks -> {NoResult, ACQUIRED, POISONED}]
  <2>1. data' = data + acquired(t) /\ holds' = [holds EXCEPT ![t] = holds[t] + acquired(t)]
    BY DEF TryAcquired
  <2>2. data' \in 0..DATA_MASK /\ holds' \in [Tasks -> Int]
    BY <2>1, <1>w, <1>a DEF TypeOK
  <2>3. result' = result \/ result' = [result EXCEPT ![t] = ACQUIRED]
    BY DEF TryAcquired
  <2>4. result' \in [Tasks -> {NoResult, ACQUIRED, POISONED}]
    BY <2>3, <1>w DEF TypeOK
  <2> QED  BY <2>2, <2>4 DEF TryAcquired
<1>1. CASE t \in Pagers
  <2>1. Goto(t, "wait") /\ UNCHANGED <<op, locals>>
    BY <1>1 DEF TryAcquired
  <2>2. TypeOK'
    BY <1>0, <2>1, <1>w DEF TypeOK, Goto, locals, Labels
  <2>3. Respects(t)
    BY <1>w, <2>1, <1>0, <1>q, <1>a, Shape DEF TryAcquired, Goto, locals, Respects, Processing
  <2> QED  BY <1>w, <2>2, <2>3, RespectsWord
<1>2. CASE t \notin Pagers
  <2>1. Return(t)
    BY <1>2 DEF TryAcquired
  <2>2. TypeOK'
    BY <1>0, <2>1, <1>w, ReturnTypes DEF TypeOK
  <2>3. Respects(t)
    BY <1>w, <2>1, <1>0, <1>q, <1>a, Shape DEF TryAcquired, Return, Goto, Respects, Processing
  <2> QED  BY <1>w, <2>2, <2>3, RespectsWord
<1> QED  BY <1>1, <1>2

LEMMA SemTryBlockedWord ==
    ASSUME SemWordInv, NEW t \in Tasks, TryBlocked(t)
    PROVE  WordInv' /\ (snap'[t].tail = NoTask => ~Admits(snap'[t].data, op[t]))
<1> WordInv
  BY DEF SemWordInv
<1>q. transferred[t] = 0
  BY Quiet DEF TryBlocked
<1>s. /\ State \in Words /\ State.data = data /\ State.locked = locked
      /\ State.tail = NoTask <=> queue = <<>>
  BY StateFacts
<1>p. State.tail = NoTask => State.data # 0 /\ ~Admits(State.data, op[t])
  <2>1. SUFFICES ASSUME State.tail = NoTask PROVE State.data # 0 /\ ~Admits(State.data, op[t])
    OBVIOUS
  <2>2. op[t].count \in 0..DATA_MASK /\ desired_count(op[t]) = op[t].count
    BY PermitAcquired DEF TryBlocked
  <2>3. data + op[t].count > DATA_MASK /\ data \in 0..DATA_MASK
    BY <2>1, <2>2, PermitFacts, Shape DEF TryBlocked, try_acquire_internal
  <2> QED  BY <2>2, <2>3, <1>s, PermitFacts DEF Admits
<1>1. TypeOK'
  BY <1>s DEF WordInv, TypeOK, TryBlocked, Goto, word, Labels
<1>0. /\ \A u \in Tasks \ {t} : pc'[u] = pc[u] /\ snap'[u] = snap[u]
      /\ snap'[t] = State /\ transferred' = transferred /\ data' = data
      /\ locked' = locked /\ queue' = queue /\ pc'[t] = "push"
  BY Shape DEF TryBlocked, Goto, word
<1>2. Respects(t)
  <2>2. ~Processing(t) /\ ~Processing(t)'
    BY <1>0 DEF Processing, TryBlocked
  <2>3. snap'[t].tail # NoTask \/ snap'[t].data # 0
    BY <1>0, <1>p
  <2>4. data' <= data /\ Len(queue) <= Len(queue')
    BY <1>0, Shape
  <2> QED  BY <1>q, <1>0, <2>2, <2>3, <2>4 DEF Respects
<1> QED  BY <1>0, <1>1, <1>2, <1>p, RespectsWord

LEMMA SemTryOnceWord ==
    ASSUME SemWordInv, NEW t \in Tasks, NEW n \in Counts, TryOnce(t, n)
    PROVE  WordInv'
<1>w. WordInv /\ TypeOK
  BY DEF SemWordInv, WordInv
<1>a. n \in Nat /\ data + n \in 0..DATA_MASK /\ ~locked /\ queue = <<>>
  BY TryFacts, SemaphoreAssumption DEF TryOnce
<1>q. transferred[t] = 0
  BY <1>w, Quiet DEF TryOnce
<1>1. TypeOK'
  <2>1. data' \in 0..DATA_MASK /\ holds' \in [Tasks -> Int]
    BY <1>a, <1>w DEF TypeOK, TryOnce
  <2> QED  BY <2>1, <1>w DEF TypeOK, TryOnce, locals
<1>2. Respects(t)
  BY <1>w, <1>q, <1>a, Shape DEF TryOnce, locals, Respects, Processing
<1> QED  BY <1>w, <1>1, <1>2, RespectsWord

LEMMA SemPollWord ==
    ASSUME SemWordInv, NEW t \in Tasks, Poll(t)
    PROVE  WordInv'
<1>w. WordInv /\ TypeOK
  BY DEF SemWordInv, WordInv
<1>q. transferred[t] = 0
  BY <1>w, Quiet DEF Poll
<1>r. result' \in [Tasks -> {NoResult, ACQUIRED, POISONED}]
  BY <1>w DEF TypeOK, Poll
<1>1. Return(t) /\ UNCHANGED <<word, holds>>
  BY DEF Poll
<1>2. TypeOK'
  BY <1>w, <1>1, <1>r, ReturnTypes DEF TypeOK, word
<1>3. Respects(t)
  BY <1>w, <1>1, <1>q, Shape DEF Poll, Return, Goto, word, Respects, Processing
<1> QED  BY <1>w, <1>2, <1>3, RespectsWord

LEMMA SemReleaseFastWord ==
    ASSUME SemWordInv, NEW t \in Tasks, NEW n \in 1..MAX_PERMITS, ReleaseFast(t, n)
    PROVE  WordInv' /\ queue = <<>> /\ ~locked /\ data = n
<1>w. WordInv /\ TypeOK
  BY DEF SemWordInv, WordInv
<1>s. queue = <<>> /\ ~locked /\ data = n
  <2>1. State = [Free EXCEPT !.data = n]
    BY DEF ReleaseFast
  <2>2. State.data = n /\ State.locked = FALSE /\ State.tail = NoTask
    BY <2>1 DEF Free, Word
  <2> QED  BY <2>2, <1>w, StateFacts
<1>q. transferred[t] = 0
  BY <1>w, Quiet DEF ReleaseFast
<1>1. TypeOK'
  <2>1. data' \in 0..DATA_MASK /\ holds' \in [Tasks -> Int]
    BY <1>w, PermitFacts DEF TypeOK, ReleaseFast
  <2> QED  BY <2>1, <1>w DEF TypeOK, ReleaseFast, locals
<1>2. Respects(t)
  BY <1>w, <1>q, <1>s, Shape DEF ReleaseFast, locals, Respects, Processing
<1> QED  BY <1>w, <1>s, <1>1, <1>2, RespectsWord

(* release enters release_loop with the word it found. *)
LEMMA SemReleaseWord ==
    ASSUME SemWordInv, NEW t \in Tasks, NEW n \in 0..DATA_MASK,
           ReleaseSlow(t, n) \/ ReleaseTooMany(t, n)
    PROVE  WordInv'
<1> WordInv
  BY DEF SemWordInv
<1>q. transferred[t] = 0
  BY Quiet DEF ReleaseSlow, ReleaseTooMany
<1>s. State \in Words /\ Semaphore(n) \in Opcodes
  BY StateFacts, PermitOpcode
<1>1. TypeOK'
  <2>0. /\ pc' = [pc EXCEPT ![t] = "release"] /\ snap' = [snap EXCEPT ![t] = State]
        /\ pc \in [Tasks -> Labels] /\ snap \in [Tasks -> Words] /\ "release" \in Labels
    BY Shape DEF ReleaseSlow, ReleaseTooMany, Goto, Labels
  <2>1. pc' \in [Tasks -> Labels] /\ snap' \in [Tasks -> Words]
    BY <1>s, <2>0
  <2>2. op' \in [Tasks -> Opcodes]
    BY <1>s DEF ReleaseSlow, ReleaseTooMany, WordInv, TypeOK
  <2>3. UNCHANGED <<word, outer, then, transferred, resolved, result, holds>>
    BY DEF ReleaseSlow, ReleaseTooMany
  <2> QED  BY <2>1, <2>2, <2>3 DEF WordInv, TypeOK, word
<1>2. Respects(t)
  <2>1. /\ \A u \in Tasks \ {t} : pc'[u] = pc[u] /\ snap'[u] = snap[u]
        /\ transferred' = transferred /\ data' = data
        /\ locked' = locked /\ queue' = queue /\ pc'[t] = "release"
    BY Shape DEF ReleaseSlow, ReleaseTooMany, Goto, word
  <2>2. ~Processing(t) /\ ~Processing(t)'
    BY <2>1 DEF Processing, ReleaseSlow, ReleaseTooMany
  <2>3. data' <= data /\ Len(queue) <= Len(queue')
    BY <2>1, Shape
  <2> QED  BY <1>q, <2>1, <2>2, <2>3 DEF Respects
<1> QED  BY <1>1, <1>2, RespectsWord
-----------------------------------------------------------------------------
(* What the wait queue protocol does to opcodes, results and the flag. *)
LEMMA SyncStepPermits ==
    ASSUME SemWordInv, WordInv', NEW t \in Tasks, SyncStep(t) \/ Drop(t)
    PROVE  PermitOps' /\ FlagUsed'
<1>t. WordInv /\ TypeOK /\ pc \in [Tasks -> Labels] /\ op \in [Tasks -> Opcodes]
      /\ result \in [Tasks -> {NoResult, ACQUIRED, POISONED}]
      /\ then \in [Tasks -> {"idle", "complete"}]
  BY DEF SemWordInv, WordInv, TypeOK
<1>1. /\ \A u \in Tasks \ {t} : pc'[u] = pc[u] /\ op'[u] = op[u]
      /\ (op'[t] = op[t] /\ pc[t] # "idle") \/ pc'[t] = "idle"
      /\ pc'[t] \notin {"own", "poisoning"}
      /\ \A u \in Tasks : result'[u] \in {result[u], NoResult, ACQUIRED}
  <2>1. CASE PushOk(t) \/ PushFailed(t) \/ Drop(t)
    BY <2>1, <1>t DEF PushOk, PushFailed, Drop, Goto
  <2>2. CASE Release(t)
    BY <2>2, <1>t DEF Release, ReleaseRefused, ReleaseInPlace, ReleaseAndProcess, ReleaseRetry,
                Return, Goto
  <2>3. CASE Process(t) /\ ~Resolve(t)
    BY <2>3, <1>t DEF Process, PwqVisit, PwqReset, PwqResetFailed, PwqUnlock, PwqUnlockFailed,
                PwqAdd, PwqContinue, PwqReturn, Return, Goto
  <2>4. CASE Resolve(t)
    <3>1. pc' = pc /\ op' = op /\ pc[t] \in {"resolve_more", "resolve_done"}
      BY <2>4 DEF Resolve, SetResult
    <3>2. \E k : result' = [result EXCEPT ![k] = ACQUIRED]
      BY <2>4 DEF Resolve, SetResult
    <3> QED  BY <3>1, <3>2, <1>t
  <2>5. CASE Cancel(t)
    BY <2>5, <1>t DEF Cancel, CancelEmpty, CancelLock, RemoveInner, RemoveTail, RemoveSole,
                RemoveRetry, RemoveMissing, Complete, Return, Goto
  <2> QED  BY <2>1, <2>2, <2>3, <2>4, <2>5 DEF SyncStep
<1>2. PermitOps'
  BY <1>1 DEF SemWordInv, PermitOps
<1>3. \/ ~locked'
      \/ Processing(t)'
      \/ locked' = locked /\ queue' = queue
      \/ queue' = Append(queue, t)
  <2>1. CASE PushOk(t) \/ PushFailed(t) \/ Drop(t)
    BY <2>1 DEF PushOk, PushFailed, Drop, word
  <2>2. CASE Release(t)
    BY <2>2, <1>t DEF Release, ReleaseRefused, ReleaseInPlace, ReleaseAndProcess, ReleaseRetry,
                word, Processing, Goto
  <2>3. CASE Process(t)
    BY <2>3, <1>t DEF Process, PwqVisit, PwqReset, PwqResetFailed, PwqUnlock, PwqUnlockFailed,
                PwqAdd, Resolve, SetResult, PwqContinue, PwqReturn, word, Processing, Goto
  <2>4. CASE Cancel(t)
    BY <2>4, <1>t DEF Cancel, CancelEmpty, CancelLock, RemoveInner, RemoveTail, RemoveSole,
                RemoveRetry, RemoveMissing, Complete, word, Processing, Goto
  <2> QED  BY <2>1, <2>2, <2>3, <2>4 DEF SyncStep
<1>4. Processing(t)' => queue' # <<>>
  <2>1. Processing(t)' => InQueue(snap[t].tail)'
    BY DEF WordInv, WorkInv
  <2>2. queue' = <<>> => 1..Len(queue') = {}
    OBVIOUS
  <2> QED  BY <2>1, <2>2 DEF InQueue
<1>5. queue' = Append(queue, t) => queue' # <<>>
  BY <1>t DEF TypeOK
<1> QED  BY <1>2, <1>3, <1>4, <1>5 DEF SemWordInv, FlagUsed

(* What the semaphore's own steps do to them. *)
Permitted(t) ==
    /\ \A u \in Tasks \ {t} : pc'[u] = pc[u] /\ op'[u] = op[u]
    /\ \/ op'[t] = op[t] /\ pc[t] # "idle"
       \/ pc'[t] = "idle"
       \/ op'[t].kind = "Semaphore"
    /\ pc'[t] \notin {"own", "poisoning"}
    /\ \A u \in Tasks : result'[u] \in {result[u], NoResult, ACQUIRED}
    /\ locked' = locked /\ queue' = queue

LEMMA PermitStepPermits ==
    ASSUME SemWordInv, NEW t \in Tasks,
           \/ TryAcquired(t) \/ TryBlocked(t) \/ Poll(t)
           \/ \E n \in 1..MAX_PERMITS : ReleaseFast(t, n) \/ ReleaseSlow(t, n)
           \/ \E n \in Counts : Call(t, n) \/ TryOnce(t, n) \/ ReleaseTooMany(t, n)
    PROVE  PermitOps' /\ FlagUsed'
<1>t. /\ pc \in [Tasks -> Labels] /\ op \in [Tasks -> Opcodes]
      /\ result \in [Tasks -> {NoResult, ACQUIRED, POISONED}]
      /\ pc[t] \notin {"own", "poisoning"}
  BY DEF SemWordInv, WordInv, TypeOK, PermitOps
<1>1. Permitted(t)
  <2>1. CASE TryAcquired(t)
    BY <2>1, <1>t DEF TryAcquired, Return, Goto, Permitted
  <2>2. CASE TryBlocked(t)
    BY <2>2, <1>t DEF TryBlocked, Goto, word, Permitted
  <2>3. CASE Poll(t)
    BY <2>3, <1>t DEF Poll, Return, Goto, word, Permitted
  <2>4. ASSUME NEW n, ReleaseFast(t, n) \/ TryOnce(t, n)
        PROVE  Permitted(t)
    BY <2>4, <1>t DEF ReleaseFast, TryOnce, Permitted
  <2>5. ASSUME NEW n, ReleaseSlow(t, n) \/ Call(t, n) \/ ReleaseTooMany(t, n)
        PROVE  Permitted(t)
    BY <2>5, <1>t DEF ReleaseSlow, Call, ReleaseTooMany, Goto, word, Semaphore, Permitted
  <2> QED  BY <2>1, <2>2, <2>3, <2>4, <2>5
<1> QED  BY <1>1 DEF SemWordInv, PermitOps, FlagUsed, Permitted

(* Every step of Semaphore preserves SemWordInv. *)
LEMMA SemNextWord ==
    ASSUME SemWordInv, [Next]_vars
    PROVE  SemWordInv'
<1>w. WordInv
  BY DEF SemWordInv
<1>1. ASSUME NEW t \in Tasks, SyncStep(t) \/ Drop(t)
      PROVE  SemWordInv'
  <2>1. WordInv'
    BY <1>w, <1>1, SyncStepWord
  <2> QED  BY <2>1, <1>1, SyncStepPermits DEF SemWordInv
<1>2. ASSUME NEW t \in Tasks, TryAcquired(t) \/ TryBlocked(t) \/ Poll(t)
      PROVE  SemWordInv'
  BY <1>2, PermitStepPermits, SemTryAcquiredWord, SemTryBlockedWord, SemPollWord DEF SemWordInv
<1>3. ASSUME NEW t \in Tasks, NEW n \in 1..MAX_PERMITS, ReleaseFast(t, n) \/ ReleaseSlow(t, n)
      PROVE  SemWordInv'
  <2>1. n \in 0..DATA_MASK
    BY PermitFacts
  <2> QED  BY <2>1, <1>3, PermitStepPermits, SemReleaseFastWord, SemReleaseWord DEF SemWordInv
<1>4. ASSUME NEW t \in Tasks, NEW n \in Counts, Call(t, n) \/ TryOnce(t, n) \/ ReleaseTooMany(t, n)
      PROVE  SemWordInv'
  <2>1. ReleaseTooMany(t, n) => n \in 0..DATA_MASK
    BY PermitFacts, SemaphoreAssumption DEF ReleaseTooMany
  <2> QED  BY <2>1, <1>4, PermitStepPermits, SemCallWord, SemTryOnceWord, SemReleaseWord
           DEF SemWordInv
<1>5. CASE UNCHANGED vars
  <2>1. PermitOps' /\ FlagUsed'
    BY <1>5 DEF SemWordInv, PermitOps, FlagUsed, vars
  <2> QED  BY <1>w, <1>5, <2>1, StutterWord DEF SemWordInv
<1>6. CASE Next
  BY <1>6, <1>1, <1>2, <1>3, <1>4 DEF Next, SemaphoreStep, Client
<1> QED  BY <1>5, <1>6

(* SemWordInv holds in every reachable state of the semaphore. *)
THEOREM SemWordInvariant == Spec => []SemWordInv
<1>1. Init => SemWordInv
  BY InitSemWord
<1>2. SemWordInv /\ [Next]_vars => SemWordInv'
  BY SemNextWord
<1> QED  BY <1>1, <1>2, PTL DEF Spec

(* Type correctness: no release underflows and no transfer overflows the   *)
(* count of permits, whatever the interleaving.                            *)
THEOREM SemTypeCorrect == Spec => []TypeOK
<1>1. SemWordInv => TypeOK
  BY DEF SemWordInv, WordInv
<1> QED  BY <1>1, SemWordInvariant, PTL

(* LOCKED_FLAG is held by at most one task and set exactly while a task    *)
(* works on the list.                                                      *)
THEOREM SemFlagCorrect == Spec => []LockedFlag
<1>1. SemWordInv => LockedFlag
  BY WordImplies DEF SemWordInv
<1> QED  BY <1>1, SemWordInvariant, PTL

(* The debug assertions of wait_resources_sync, process_wait_queue and     *)
(* remove_wait_queue_entry hold.                                           *)
THEOREM SemDebugAsserts == Spec => []DebugAsserts
<1>1. SemWordInv => DebugAsserts
  BY WordImplies DEF SemWordInv
<1> QED  BY <1>1, SemWordInvariant, PTL

-----------------------------------------------------------------------------
(* The steps of the semaphore itself, seen from the entries. *)
LEMMA SemStepWait ==
    ASSUME SemWordInv, WaitInv, NEW t \in Tasks, SemaphoreStep(t)
    PROVE  WaitInv'
<1>t. /\ WordInv /\ TypeOK
      /\ pc \in [Tasks -> Labels] /\ then \in [Tasks -> {"idle", "complete"}]
      /\ queue \in Seq(Tasks) /\ result \in [Tasks -> {NoResult, ACQUIRED, POISONED}]
  BY DEF SemWordInv, WordInv, TypeOK
<1>1. CASE pc[t] \in {"try", "idle"}
  <2>0. ~Inside(t) /\ ~InQueue(t) /\ resolved[t] = <<>>
    BY <1>1 DEF WaitInv, ReachInv, OwnList, Lists, Inside
  <2>1. CASE TryAcquired(t) /\ t \in Pagers
    <3>1. Answers(t)
      BY <2>1, <1>t DEF TryAcquired, Answers, Goto, locals
    <3> QED  BY <3>1, AnswersWait
  <2>2. CASE TryAcquired(t) /\ t \notin Pagers
    <3>1. Return(t) /\ queue' = queue /\ result' = result
      BY <2>2 DEF TryAcquired
    <3> QED  BY <3>1, <2>0, <1>t, ReturnMoves, MovesWait
  <2>3. CASE TryBlocked(t)
    <3>1. Moves(t)
      BY <2>3, <2>0, <1>t DEF TryBlocked, Moves, Goto, word, Inside
    <3> QED  BY <3>1, MovesWait
  <2>4. ASSUME NEW n \in 1..MAX_PERMITS, ReleaseFast(t, n) \/ ReleaseSlow(t, n)
        PROVE  WaitInv'
    <3>1. Moves(t)
      BY <2>4, <2>0, <1>t DEF ReleaseFast, ReleaseSlow, Moves, Goto, locals, word, Inside
    <3> QED  BY <3>1, MovesWait
  <2> QED  BY <1>1, <2>1, <2>2, <2>3, <2>4 DEF SemaphoreStep, Poll
<1>2. CASE Poll(t)
  <2>1. Consumes(t)
    BY <1>2, <1>t DEF Poll, Consumes, Return, Goto, word, Inside, Lists
  <2> QED  BY <2>1, ConsumesWait
<1> QED  BY <1>1, <1>2 DEF SemaphoreStep, TryAcquired, TryBlocked, ReleaseFast, ReleaseSlow

LEMMA SemClientWait ==
    ASSUME SemWordInv, WaitInv, NEW t \in Tasks, Client(t)
    PROVE  WaitInv'
<1>t. WordInv /\ pc \in [Tasks -> Labels]
  BY DEF SemWordInv, WordInv, TypeOK
<1>1. CASE Drop(t)
  BY <1>1, <1>t, SyncStepWait
<1>2. ASSUME NEW n \in Counts, Call(t, n) \/ TryOnce(t, n) \/ ReleaseTooMany(t, n)
      PROVE  WaitInv'
  <2>0. ~Inside(t) /\ ~InQueue(t) /\ resolved[t] = <<>>
    BY <1>2 DEF WaitInv, ReachInv, OwnList, Lists, Inside, ReleaseTooMany, Call, TryOnce
  <2>1. Moves(t)
    BY <1>2, <2>0, <1>t DEF ReleaseTooMany, Call, TryOnce, Moves, Goto, locals, word, Inside
  <2> QED  BY <2>1, MovesWait
<1> QED  BY <1>1, <1>2 DEF Client

LEMMA SemWaitInvariant == Spec => []WaitInv
<1>1. Init => WaitInv
  <2> SUFFICES ASSUME Init PROVE WaitInv
    OBVIOUS
  <2>1. Len(queue) = 0 /\ \A t \in Tasks : Len(resolved[t]) = 0 /\ resolved[t] = <<>>
    BY DEF Init
  <2>2. \A t \in Tasks : ~InQueue(t) /\ ~Pending(t) /\ ~Inside(t) /\ result[t] = NoResult
    BY <2>1 DEF InQueue, Pending, Inside, Init
  <2>3. \A t \in Tasks : 1..Len(resolved[t]) = {}
    BY <2>1
  <2>4. ListOnce
    BY <2>3, Zenon DEF ListOnce
  <2> QED  BY <2>1, <2>2, <2>4 DEF WaitInv, ReachInv, QueueOnce, OwnList
<1>2. SemWordInv /\ WaitInv /\ [Next]_vars => WaitInv'
  <2> SUFFICES ASSUME SemWordInv, WaitInv, [Next]_vars PROVE WaitInv'
    OBVIOUS
  <2>1. CASE UNCHANGED vars
    BY <2>1 DEF vars, WaitInv, ReachInv, QueueOnce, ListOnce, OwnList, InQueue, Pending, Inside
  <2>2. CASE Next
    BY <2>2, SyncStepWait, SemStepWait, SemClientWait DEF Next, SemWordInv
  <2> QED  BY <2>1, <2>2
<1> QED  BY <1>1, <1>2, SemWordInvariant, PTL DEF Spec

(* Every task that waits for permits is reachable by whoever will store    *)
(* its result, exactly once, and no reachable entry has been left by its   *)
(* owner: set_result is called once per entry, on an entry that exists.    *)
THEOREM SemNoLostWaiter == Spec => []NoLostWaiter
<1>1. WaitInv => NoLostWaiter
  BY WaitImplies
<1> QED  BY <1>1, SemWaitInvariant, PTL

-----------------------------------------------------------------------------
LEMMA SemStepHead ==
    ASSUME SemWordInv, WaitInv, HeadInv, NEW t \in Tasks, SemaphoreStep(t)
    PROVE  HeadInv'
<1>t. /\ WordInv /\ TypeOK /\ pc \in [Tasks -> Labels] /\ op \in [Tasks -> Opcodes]
      /\ snap \in [Tasks -> Words]
  BY DEF SemWordInv, WordInv, TypeOK
<1>i. pc[t] \notin {"wait", "cancel", "remove"} \/ result[t] # NoResult => ~InQueue(t)
  BY DEF WaitInv, ReachInv
<1>1. KeepsHead(t)
  <2>1. CASE TryAcquired(t)
    <3>1. queue = <<>>
      <4>1. op[t].count \in Nat
        BY <2>1, PermitAcquired, PermitFacts DEF TryAcquired
      <4> QED  BY <2>1, <4>1, TryFacts DEF TryAcquired
    <3>2. ~InQueue(t)
      BY <2>1, <1>i DEF TryAcquired
    <3>3. CASE t \in Pagers
      BY <2>1, <3>1, <3>2, <3>3, <1>t DEF TryAcquired, Goto, locals, KeepsHead
    <3>4. CASE t \notin Pagers
      BY <2>1, <3>1, <3>2, <3>4, <1>t DEF TryAcquired, Return, Goto, KeepsHead
    <3> QED  BY <3>3, <3>4
  <2>2. CASE TryBlocked(t)
    <3>1. snap'[t].tail = NoTask => ~Admits(snap'[t].data, op[t])
      BY <2>2, SemTryBlockedWord
    <3>2. /\ op' = op /\ data' = data /\ locked' = locked /\ queue' = queue
          /\ \A u \in Tasks \ {t} : pc'[u] = pc[u] /\ snap'[u] = snap[u]
      BY <2>2, <1>t DEF TryBlocked, Goto, word
    <3> QED  BY <3>1, <3>2 DEF KeepsHead
  <2>3. CASE Poll(t)
    <3>1. ~InQueue(t)
      BY <2>3, <1>i DEF Poll
    <3> QED  BY <2>3, <3>1, <1>t DEF Poll, Return, Goto, word, KeepsHead
  <2>4. ASSUME NEW n \in 1..MAX_PERMITS, ReleaseFast(t, n) PROVE KeepsHead(t)
    <3>1. queue = <<>>
      BY <2>4, SemReleaseFastWord
    <3> QED  BY <2>4, <3>1, <1>t DEF ReleaseFast, locals, KeepsHead
  <2>5. ASSUME NEW n \in 1..MAX_PERMITS, ReleaseSlow(t, n) PROVE KeepsHead(t)
    <3>1. ~InQueue(t)
      BY <2>5, <1>i DEF ReleaseSlow
    <3> QED  BY <2>5, <3>1, <1>t DEF ReleaseSlow, Goto, word, KeepsHead
  <2> QED  BY <2>1, <2>2, <2>3, <2>4, <2>5 DEF SemaphoreStep
<1> QED  BY <1>1, <1>t, KeepsHeadInv

LEMMA SemClientHead ==
    ASSUME SemWordInv, WaitInv, HeadInv, NEW t \in Tasks, Client(t)
    PROVE  HeadInv'
<1>t. /\ WordInv /\ pc \in [Tasks -> Labels] /\ op \in [Tasks -> Opcodes]
      /\ snap \in [Tasks -> Words]
  BY DEF SemWordInv, WordInv, TypeOK
<1>1. ASSUME NEW n \in Counts, Call(t, n) \/ ReleaseTooMany(t, n) PROVE KeepsHead(t)
  <2>1. ~InQueue(t)
    BY <1>1 DEF Call, ReleaseTooMany, WaitInv, ReachInv
  <2> QED  BY <1>1, <2>1, <1>t DEF Call, ReleaseTooMany, Goto, word, locals, KeepsHead
<1>2. ASSUME NEW n \in Counts, TryOnce(t, n) PROVE KeepsHead(t)
  <2>1. queue = <<>>
    BY <1>2, TryFacts, SemaphoreAssumption DEF TryOnce
  <2> QED  BY <1>2, <2>1, <1>t DEF TryOnce, locals, KeepsHead
<1> QED  BY <1>1, <1>2, <1>t, KeepsHeadInv, SyncStepHead DEF Client

LEMMA SemHeadInvariant == Spec => []HeadInv
<1>1. Init => HeadInv
  BY DEF Init, HeadInv, NoStuckHead, PushHead
<1>2. SemWordInv /\ WaitInv /\ HeadInv /\ [Next]_vars => HeadInv'
  <2> SUFFICES ASSUME SemWordInv, WaitInv, HeadInv, [Next]_vars PROVE HeadInv'
    OBVIOUS
  <2>1. CASE UNCHANGED vars
    BY <2>1 DEF vars, HeadInv, NoStuckHead, PushHead, Admits, desired_count
  <2>2. CASE Next
    BY <2>2, SyncStepHead, SemStepHead, SemClientHead DEF Next, SemWordInv
  <2> QED  BY <2>1, <2>2
<1> QED  BY <1>1, <1>2, SemWordInvariant, SemWaitInvariant, PTL DEF Spec

(* No lost wake-up: while nobody processes the queue, the permits left are *)
(* too few for its oldest entry.                                           *)
THEOREM SemNoStuckHead == Spec => []NoStuckHead
<1>1. HeadInv => NoStuckHead
  BY DEF HeadInv
<1> QED  BY <1>1, SemHeadInvariant, PTL

-----------------------------------------------------------------------------
LEMMA SemCanGive ==
    ASSUME SemWordInv, WaitInv, HoldsInv
    PROVE  CanGive
<1> SUFFICES ASSUME NEW t \in Tasks, Granted(t), ~Open(t) PROVE can_release(op[t], data)
  BY DEF CanGive
<1>w. WordInv /\ data \in 0..DATA_MASK /\ holds \in [Tasks -> 0..DATA_MASK]
  BY Shape DEF SemWordInv, HoldsInv
<1>1. pc[t] # "idle"
  <2> SUFFICES ASSUME pc[t] = "idle" PROVE FALSE
    OBVIOUS
  <2>1. ~Inside(t)
    BY DEF Inside
  <2> QED  BY <2>1, Outside DEF Granted
<1>2. acquired(t) <= holds[t]
  BY DEF HoldsInv, LocalInv, Own
<1>3. holds[t] <= data
  BY <1>w, CommittedFacts
<1>4. acquired(t) = op[t].count /\ op[t].count \in 0..DATA_MASK
      /\ (can_release(op[t], data) <=> data >= op[t].count)
  BY <1>1, <1>w, PermitAcquired
<1> QED  BY <1>2, <1>3, <1>4, <1>w, PermitFacts

LEMMA SemNoPoisonedDrop ==
    ASSUME SemWordInv
    PROVE  NoPoisonedDrop
  BY DEF NoPoisonedDrop, SemWordInv, PermitOps

LEMMA Inexact == ~Exact
  BY PermitFacts DEF Exact

-----------------------------------------------------------------------------
(* A task takes n permits that fit, in a call that returns or leaves the   *)
(* result in the task's own entry.                                         *)
TakesPermits(t, n) ==
    /\ pc[t] \in {"try", "idle"}
    /\ \/ pc'[t] = "idle" /\ result'[t] = result[t]
       \/ pc'[t] = "wait" /\ acquired(t)' = n
    /\ try_acquire_internal(n)
    /\ holds' = [holds EXCEPT ![t] = holds[t] + n] /\ data' = data + n
    /\ SameOthers(t) /\ resolved' = resolved /\ transferred' = transferred

LEMMA TakesPermitsHolds ==
    ASSUME SemWordInv, WordInv', WaitInv, HoldsInv, NEW t \in Tasks, NEW n \in Nat, TakesPermits(t, n)
    PROVE  HoldsInv'
<1>w. WordInv
  BY DEF SemWordInv
<1>0. holds \in [Tasks -> 0..DATA_MASK] /\ data \in 0..DATA_MASK
  BY <1>w, Shape DEF HoldsInv
<1>1. ~Inside(t) /\ pc[t] \notin Lists
  BY DEF TakesPermits, Inside, Lists
<1>2. result[t] = NoResult /\ ~GrantPending(t) /\ ~Open(t) /\ resolved[t] = <<>>
  BY <1>1, Outside
<1>3. SameOthers(t) /\ SameLists(t)
  BY <1>2 DEF TakesPermits, SameLists
<1>4. SameGrants
  BY <1>3, ListsGrants
<1>5. holds[t] + n \in 0..DATA_MASK
  <2>1. data + n \in 0..DATA_MASK
    BY TryFacts DEF TakesPermits
  <2>2. holds[t] <= data
    BY <1>w, <1>2, CommittedFacts
  <2> QED  BY <2>1, <2>2, <1>0, PermitFacts
<1>6. holds' \in [Tasks -> 0..DATA_MASK] /\ holds'[t] = holds[t] + n /\ n <= holds'[t]
  <2>1. holds' = [holds EXCEPT ![t] = holds[t] + n]
    BY DEF TakesPermits
  <2> QED  BY <2>1, <1>0, <1>5, PermitFacts
<1>7. LocalInv(t)'
  <2>1. pc'[t] # "release" /\ ~Leaving(t)'
    BY DEF TakesPermits, Leaving
  <2>2. Own(t)' <= holds'[t]
    <3>1. holds'[t] \in 0..DATA_MASK
      BY <1>6
    <3>2. CASE pc'[t] = "idle" /\ result'[t] = result[t]
      <4>1. ~Granted(t)'
        BY <3>2, <1>2, <1>4 DEF Granted, SameGrants
      <4> QED  BY <3>1, <4>1 DEF Own
    <3>3. CASE acquired(t)' = n
      <4>1. Own(t)' \in {0, n}
        BY <3>3 DEF Own
      <4> QED  BY <4>1, <3>1, <1>6
    <3> QED  BY <3>2, <3>3 DEF TakesPermits
  <2> QED  BY <2>1, <2>2, Inexact DEF LocalInv, Exact
<1>8. Shifts(t, n)
  BY <1>2, <1>3, <1>4, <1>6, <1>7 DEF Shifts, TakesPermits
<1> QED  BY <1>8, <1>w, ShiftsHolds

LEMMA TryHolds ==
    ASSUME SemWordInv, WordInv', WaitInv, HoldsInv, NEW t \in Tasks,
           TryAcquired(t) \/ \E n \in Counts : TryOnce(t, n)
    PROVE  HoldsInv'
<1>t. TypeOK
  BY DEF SemWordInv, WordInv
<1>1. CASE TryAcquired(t)
  <2>1. PICK n \in Nat : n = op[t].count /\ n = acquired(t)
    BY <1>1, PermitAcquired, PermitFacts DEF TryAcquired
  <2>2. holds' = [holds EXCEPT ![t] = holds[t] + n] /\ data' = data + n /\ try_acquire_internal(n)
        /\ pc[t] = "try"
    BY <1>1, <2>1 DEF TryAcquired
  <2>3. CASE t \in Pagers
    <3>1. /\ pc'[t] = "wait" /\ op' = op /\ resolved' = resolved /\ transferred' = transferred
      BY <1>1, <2>3, <1>t DEF TryAcquired, Goto, locals, TypeOK
    <3>2. SameOthers(t)
      BY <1>1, <2>3, <1>t DEF TryAcquired, Goto, locals, TypeOK, SameOthers
    <3>3. acquired(t)' = n
      BY <3>1, <2>1 DEF acquired, acquired_count
    <3> QED  BY <2>2, <3>1, <3>2, <3>3, TakesPermitsHolds DEF TakesPermits
  <2>4. CASE t \notin Pagers
    <3>1. Return(t) /\ result' = result
      BY <1>1, <2>4 DEF TryAcquired
    <3>2. \A u \in Tasks \ {t} : holds'[u] = holds[u]
      BY <2>2, <1>t DEF TypeOK
    <3>3. SameOthers(t) /\ pc'[t] = "idle" /\ resolved' = resolved /\ transferred' = transferred
      BY <3>1, <3>2, <1>t, ReturnOthers
    <3> QED  BY <2>2, <3>1, <3>3, TakesPermitsHolds DEF TakesPermits
  <2> QED  BY <2>3, <2>4
<1>2. ASSUME NEW n \in Counts, TryOnce(t, n) PROVE HoldsInv'
  <2>1. SameOthers(t)
    BY <1>2, <1>t DEF TryOnce, locals, TypeOK, SameOthers
  <2>2. n \in Nat /\ TakesPermits(t, n)
    BY <1>2, <2>1, SemaphoreAssumption DEF TryOnce, TakesPermits, locals
  <2> QED  BY <2>2, TakesPermitsHolds
<1> QED  BY <1>1, <1>2

(* A call returns and the permits it got stay with the task. *)
LEMMA SemPollHolds ==
    ASSUME SemWordInv, WordInv', WaitInv, HoldsInv, NEW t \in Tasks, Poll(t)
    PROVE  HoldsInv'
<1>t. WordInv /\ TypeOK
  BY DEF SemWordInv, WordInv
<1>0. /\ pc[t] = "wait" /\ result[t] # NoResult /\ result'[t] = NoResult
      /\ \A u \in Tasks \ {t} : result'[u] = result[u]
      /\ data' = data /\ holds' = holds /\ Return(t)
  BY <1>t DEF Poll, TypeOK, word
<1>1. ~GrantPending(t) /\ ~Open(t) /\ resolved[t] = <<>>
  BY <1>0, Outside DEF Lists
<1>2. SameOthers(t) /\ pc'[t] = "idle" /\ resolved' = resolved /\ transferred' = transferred
  BY <1>0, <1>t, ReturnOthers
<1>3. SameLists(t)
  BY <1>1, <1>2 DEF SameLists
<1>4. ~GrantPending(t)'
  BY <1>1, <1>2, <1>3, ListsGrants DEF SameGrants
<1>5. ~Granted(t)'
  BY <1>0, <1>2, <1>4 DEF Granted
<1>6. LocalInv(t)'
  <2>1. holds'[t] \in 0..DATA_MASK
    BY <1>0 DEF HoldsInv
  <2> QED  BY <2>1, <1>2, <1>5, Inexact DEF LocalInv, Own, Exact
<1> QED  BY <1>0, <1>1, <1>2, <1>3, <1>6, <1>t, NeutralHolds DEF Neutral

LEMMA SemReleaseFastHolds ==
    ASSUME SemWordInv, WordInv', WaitInv, HoldsInv, NEW t \in Tasks,
           NEW n \in 1..MAX_PERMITS, ReleaseFast(t, n)
    PROVE  HoldsInv'
<1>t. WordInv /\ TypeOK
  BY DEF SemWordInv, WordInv
<1>0. /\ holds \in [Tasks -> 0..DATA_MASK] /\ data = n /\ data' = 0 /\ n <= holds[t]
      /\ pc[t] = "idle" /\ pc' = pc /\ result' = result /\ resolved' = resolved
      /\ transferred' = transferred /\ n \in 1..DATA_MASK
      /\ holds' = [holds EXCEPT ![t] = holds[t] - n]
  BY SemReleaseFastWord, PermitFacts DEF HoldsInv, ReleaseFast, locals
<1>1. ~Inside(t) /\ pc[t] \notin Lists
  BY <1>0 DEF Inside, Lists
<1>2. result[t] = NoResult /\ ~GrantPending(t) /\ ~Open(t) /\ resolved[t] = <<>>
  BY <1>1, Outside
<1>3. SameOthers(t)
  BY <1>0, <1>t DEF ReleaseFast, locals, SameOthers
<1>4. SameLists(t)
  BY <1>0, <1>2 DEF SameLists
<1>5. SameGrants
  BY <1>3, <1>4, ListsGrants
<1>d. PICK d \in Int : d = 0 - n
  BY <1>0, PermitFacts
<1>6. /\ holds' \in [Tasks -> 0..DATA_MASK] /\ holds'[t] = holds[t] + d /\ data' = data + d
  <2>1. holds[t] - n \in 0..DATA_MASK /\ holds[t] - n = holds[t] + d /\ data + d = 0
    BY <1>0, <1>d, PermitFacts
  <2> QED  BY <2>1, <1>0
<1>7. LocalInv(t)'
  <2>1. ~Granted(t)' /\ pc'[t] # "release"
    BY <1>0, <1>2, <1>5 DEF Granted, SameGrants
  <2>2. holds'[t] \in 0..DATA_MASK
    BY <1>6
  <2> QED  BY <2>1, <2>2, Inexact DEF LocalInv, Own, Exact
<1>8. Shifts(t, d)
  BY <1>0, <1>2, <1>3, <1>5, <1>6, <1>7 DEF Shifts
<1> QED  BY <1>8, <1>t, ShiftsHolds

(* Who enters release_loop with permits it holds finds a word that has     *)
(* them; who holds none and asks for too many finds one that has not.      *)
LEMMA SemReleaseHolds ==
    ASSUME SemWordInv, WordInv', WaitInv, HoldsInv, NEW t \in Tasks, NEW n \in 0..DATA_MASK,
           ReleaseSlow(t, n) \/ ReleaseTooMany(t, n)
    PROVE  HoldsInv'
<1>t. WordInv /\ TypeOK
  BY DEF SemWordInv, WordInv
<1>0. /\ holds \in [Tasks -> 0..DATA_MASK] /\ data \in 0..DATA_MASK /\ State.data = data
      /\ pc[t] = "idle" /\ pc'[t] = "release" /\ op'[t] = Semaphore(n) /\ snap'[t] = State
      /\ data' = data /\ holds' = holds /\ transferred' = transferred
      /\ resolved' = resolved /\ result' = result
  <2>1. holds \in [Tasks -> 0..DATA_MASK] /\ data \in 0..DATA_MASK /\ State.data = data
    BY <1>t, Shape, StateFacts DEF HoldsInv
  <2> QED  BY <2>1, <1>t DEF ReleaseSlow, ReleaseTooMany, Goto, word, TypeOK
<1>1. ~Inside(t) /\ pc[t] \notin Lists
  BY <1>0 DEF Inside, Lists
<1>2. result[t] = NoResult /\ ~GrantPending(t) /\ ~Open(t) /\ resolved[t] = <<>>
  BY <1>1, Outside
<1>3. SameOthers(t)
  BY <1>t DEF ReleaseSlow, ReleaseTooMany, Goto, word, TypeOK, SameOthers
<1>4. SameLists(t)
  BY <1>0, <1>2 DEF SameLists
<1>5. ~GrantPending(t)'
  BY <1>2, <1>3, <1>4, ListsGrants DEF SameGrants
<1>6. acquired(t)' = n /\ (CanRelease(t)' <=> data >= n)
  <2>1. acquired(t)' = n
    BY <1>0, PermitOpcode DEF acquired, acquired_count
  <2>2. CanRelease(t)' <=> State.data >= n
    BY <1>0, PermitOpcode DEF CanRelease, can_release
  <2> QED  BY <2>1, <2>2, <1>0
<1>7. LocalInv(t)'
  <2>1. ~Leaving(t)'
    BY <1>0 DEF Leaving
  <2>2. CASE ReleaseSlow(t, n)
    <3>1. n <= holds[t] /\ holds[t] <= data
      BY <2>2, <1>t, <1>2, CommittedFacts DEF ReleaseSlow
    <3>2. Granted(t)'
      BY <3>1, <1>0, <1>6, PermitFacts DEF Granted
    <3>3. Own(t)' = n /\ n <= holds'[t]
      BY <3>1, <3>2, <1>0, <1>6 DEF Own
    <3> QED  BY <3>2, <3>3, <2>1, Inexact DEF LocalInv, Exact
  <2>3. CASE ReleaseTooMany(t, n)
    <3>1. holds'[t] = 0 /\ ~(data >= n)
      BY <2>3, <1>0 DEF ReleaseTooMany
    <3>2. ~Granted(t)'
      BY <3>1, <1>0, <1>2, <1>5, <1>6 DEF Granted
    <3> QED  BY <3>1, <3>2, <2>1, Inexact DEF LocalInv, Own, Exact
  <2> QED  BY <2>2, <2>3
<1> QED  BY <1>0, <1>2, <1>3, <1>4, <1>7, <1>t, NeutralHolds DEF Neutral

(* Asking, and going to wait, changes nothing. *)
LEMMA SemAskHolds ==
    ASSUME SemWordInv, WordInv', WaitInv, HoldsInv, NEW t \in Tasks,
           TryBlocked(t) \/ \E n \in Counts : Call(t, n)
    PROVE  HoldsInv'
<1>t. WordInv /\ TypeOK
  BY DEF SemWordInv, WordInv
<1>0. /\ pc[t] \in {"try", "idle"} /\ pc'[t] \in {"try", "push"}
      /\ data' = data /\ holds' = holds /\ transferred' = transferred
      /\ resolved' = resolved /\ result' = result /\ SameOthers(t)
  <2>1. CASE TryBlocked(t)
    BY <2>1, <1>t DEF TryBlocked, Goto, word, TypeOK, SameOthers
  <2>2. CASE \E n \in Counts : Call(t, n)
    BY <2>2, <1>t DEF Call, Goto, word, locals, TypeOK, SameOthers
  <2> QED  BY <2>1, <2>2
<1>1. ~Inside(t) /\ pc[t] \notin Lists
  BY <1>0 DEF Inside, Lists
<1>2. result[t] = NoResult /\ ~GrantPending(t) /\ ~Open(t) /\ resolved[t] = <<>>
  BY <1>1, Outside
<1>3. Passes(t)
  BY <1>0, <1>2 DEF Passes
<1> QED  BY <1>3, <1>t, PassesHolds

-----------------------------------------------------------------------------
(* Initially the keeper holds what with_permits withholds. *)
LEMMA InitHolds ==
    ASSUME Init
    PROVE  HoldsInv
<1>k. PICK keeper \in Tasks : holds = [t \in Tasks |-> IF t = keeper THEN Withheld ELSE 0]
  BY DEF Init
<1>n. PICK n \in Nat : n = Withheld /\ n \in 0..DATA_MASK
  BY PermitFacts
<1> DEFINE z == [t \in Tasks |-> 0]
<1>1. /\ data = n /\ \A t \in Tasks : pc[t] = "idle" /\ result[t] = NoResult /\ resolved[t] = <<>>
  BY <1>n DEF Init
<1>2. \A t, u \in Tasks : ~InList(u, t)
  BY <1>1 DEF InList
<1>3. \A t \in Tasks : ~Granted(t) /\ ~Open(t) /\ ~Processing(t)
  BY <1>1, <1>2 DEF Granted, GrantPending, Open, Processing
<1>4. /\ holds \in [Tasks -> 0..DATA_MASK] /\ z \in [Tasks -> 0..DATA_MASK]
      /\ \A t \in Tasks : z[t] = 0
      /\ \A t \in Tasks \ {keeper} : holds[t] = z[t]
      /\ holds[keeper] = z[keeper] + n
  BY <1>k, <1>n, PermitFacts
<1> HIDE DEF z
<1>5. Total(holds) = n
  <2>1. Total(z) = 0
    BY <1>4, TotalZero
  <2>2. Total(holds) = Total(z) + n
    BY <1>4, TotalAdd
  <2> QED  BY <2>1, <2>2
<1>6. Committed = holds
  <2>1. Committed = [t \in Tasks |-> holds[t]]
    BY <1>3 DEF Committed
  <2> QED  BY <2>1, <1>4
<1>7. Accounting
  BY <1>1, <1>3, <1>5, UnitsTotal DEF Accounting
<1>8. \A t \in Tasks : LocalInv(t)
  <2> SUFFICES ASSUME NEW t \in Tasks PROVE LocalInv(t)
    OBVIOUS
  <2>1. holds[t] \in 0..DATA_MASK /\ pc[t] # "release" /\ ~Granted(t)
    BY <1>1, <1>3, <1>4
  <2> QED  BY <2>1, Inexact DEF LocalInv, Own
<1>9. data = Total(Committed)
  BY <1>1, <1>5, <1>6
<1> QED  BY <1>4, <1>7, <1>8, <1>9 DEF HoldsInv

LEMMA SemStepHolds ==
    ASSUME SemWordInv, WordInv', WaitInv, HoldsInv, NEW t \in Tasks,
           SyncStep(t) \/ SemaphoreStep(t) \/ Client(t)
    PROVE  HoldsInv'
<1>w. WordInv /\ CanGive /\ NoPoisonedDrop
  BY SemCanGive, SemNoPoisonedDrop DEF SemWordInv
<1>1. CASE SyncStep(t) \/ Drop(t)
  BY <1>1, <1>w, SyncStepHolds
<1>2. CASE TryAcquired(t) \/ TryBlocked(t) \/ Poll(t)
  BY <1>2, TryHolds, SemAskHolds, SemPollHolds
<1>3. ASSUME NEW n \in 1..MAX_PERMITS, ReleaseFast(t, n) \/ ReleaseSlow(t, n)
      PROVE  HoldsInv'
  <2>1. n \in 0..DATA_MASK
    BY PermitFacts
  <2> QED  BY <2>1, <1>3, SemReleaseFastHolds, SemReleaseHolds
<1>4. ASSUME NEW n \in Counts, Call(t, n) \/ TryOnce(t, n) \/ ReleaseTooMany(t, n)
      PROVE  HoldsInv'
  <2>1. ReleaseTooMany(t, n) => n \in 0..DATA_MASK
    BY PermitFacts, SemaphoreAssumption DEF ReleaseTooMany
  <2> QED  BY <2>1, <1>4, TryHolds, SemAskHolds, SemReleaseHolds
<1> QED  BY <1>1, <1>2, <1>3, <1>4 DEF SemaphoreStep, Client

(* Permits and their holders agree in every reachable state. *)
LEMMA SemHoldsInvariant == Spec => []HoldsInv
<1>1. Init => HoldsInv
  BY InitHolds
<1>2. SemWordInv /\ SemWordInv' /\ WaitInv /\ HoldsInv /\ [Next]_vars => HoldsInv'
  <2> SUFFICES ASSUME SemWordInv, SemWordInv', WaitInv, HoldsInv, [Next]_vars PROVE HoldsInv'
    OBVIOUS
  <2>1. CASE UNCHANGED vars
    BY <2>1, StutterHolds
  <2>2. CASE Next
    <3>1. WordInv'
      BY DEF SemWordInv
    <3> QED  BY <2>2, <3>1, SemStepHolds DEF Next
  <2> QED  BY <2>1, <2>2
<1> QED  BY <1>1, <1>2, SemWordInvariant, SemWaitInvariant, PTL DEF Spec

LEMMA SemHoldsImply ==
    ASSUME SemWordInv, WaitInv, HoldsInv
    PROVE  Accounting /\ GrantsReal /\ ReleaseNeverRefused /\ PermitBound
<1>1. WordInv
  BY DEF SemWordInv
<1>2. Total(holds) \in 0..DATA_MASK
  BY <1>1, HeldBound
<1>3. PermitBound
  BY <1>2, UnitsTotal, PermitFacts DEF PermitBound
<1> QED  BY <1>1, <1>3, HoldsImply

(* There are never more permits out than MAX_PERMITS, counting those that  *)
(* process_wait_queue has decided to hand over and not yet added, however  *)
(* acquisitions, partial releases and dropped entries interleave.          *)
THEOREM SemPermitBound == Spec => []PermitBound
<1>1. SemWordInv /\ WaitInv /\ HoldsInv => PermitBound
  BY SemHoldsImply
<1> QED  BY <1>1, SemWordInvariant, SemWaitInvariant, SemHoldsInvariant, PTL

(* The data bits count the permits taken and not released: no release in   *)
(* place, transfer of process_wait_queue, reset or dropped entry loses a   *)
(* permit or makes one up.                                                 *)
THEOREM SemAccounting == Spec => []Accounting
<1>1. SemWordInv /\ WaitInv /\ HoldsInv => Accounting
  BY SemHoldsImply
<1> QED  BY <1>1, SemWordInvariant, SemWaitInvariant, SemHoldsInvariant, PTL

(* Whoever finds ACQUIRED in its entry has the permits it asked for, until *)
(* it consumes the result or gives them back because it was dropped.       *)
THEOREM SemGrantsReal == Spec => []GrantsReal
<1>1. SemWordInv /\ WaitInv /\ HoldsInv => GrantsReal
  BY SemHoldsImply
<1> QED  BY <1>1, SemWordInvariant, SemWaitInvariant, SemHoldsInvariant, PTL

(* release_loop never returns false to a task that holds the permits it    *)
(* releases, although it may start from a word read long before.           *)
THEOREM SemReleaseNeverRefused == Spec => []ReleaseNeverRefused
<1>1. SemWordInv /\ WaitInv /\ HoldsInv => ReleaseNeverRefused
  BY SemHoldsImply
<1> QED  BY <1>1, SemWordInvariant, SemWaitInvariant, SemHoldsInvariant, PTL

-----------------------------------------------------------------------------
(* Who is let in without waiting finds no one ahead and enough left. *)
LEMMA RoomFacts ==
    ASSUME WordInv, HoldsInv, NEW n \in Nat, try_acquire_internal(n)
    PROVE  /\ n \in 0..DATA_MASK /\ queue = <<>>
           /\ Total(holds) + n <= max_shared_owners
<1>1. queue = <<>> /\ data + n <= DATA_MASK /\ data \in 0..DATA_MASK
  BY StateFacts, Shape, PermitFacts DEF try_acquire_internal
<1>2. \A p \in Tasks : ~Processing(p)
  BY <1>1, Worker
<1>3. Total(holds) = data
  BY <1>2, HeldBound
<1> QED  BY <1>1, <1>3, PermitFacts

LEMMA TryFair ==
    ASSUME SemWordInv, WaitInv, HoldsInv, NEW t \in Tasks,
           TryAcquired(t) \/ \E n \in Counts : TryOnce(t, n)
    PROVE  FairStep
<1>w. WordInv
  BY DEF SemWordInv
<1>1. CASE TryAcquired(t)
  <2>1. PICK n \in Nat : n = op[t].count /\ n = acquired(t)
    BY <1>1, PermitAcquired, PermitFacts DEF TryAcquired
  <2>2. /\ try_acquire_internal(n) /\ holds' = [holds EXCEPT ![t] = holds[t] + n]
        /\ queue' = queue /\ (Return(t) \/ op' = op) /\ ~InQueue(t)
    BY <1>1, <2>1, NotQueued DEF TryAcquired
  <2>3. KeepsAsked
    BY <2>2, <1>w, ReturnKeeps DEF KeepsAsked
  <2>4. n \in 0..DATA_MASK /\ queue = <<>> /\ Total(holds) + n <= max_shared_owners
    BY <2>2, <1>w, RoomFacts
  <2> QED  BY <2>2, <2>3, <2>4, <1>w, FairAcquire
<1>2. ASSUME NEW n \in Counts, TryOnce(t, n) PROVE FairStep
  <2>1. n \in Nat
    BY SemaphoreAssumption
  <2>2. /\ try_acquire_internal(n) /\ holds' = [holds EXCEPT ![t] = holds[t] + n]
        /\ queue' = queue /\ op' = op
    BY <1>2 DEF TryOnce
  <2>3. n \in 0..DATA_MASK /\ queue = <<>> /\ Total(holds) + n <= max_shared_owners
    BY <2>1, <2>2, <1>w, RoomFacts
  <2> QED  BY <2>2, <2>3, <1>w, FairAcquire DEF KeepsAsked
<1> QED  BY <1>1, <1>2

LEMMA SemStepFair ==
    ASSUME SemWordInv, WaitInv, HoldsInv, NEW t \in Tasks, SyncStep(t) \/ SemaphoreStep(t) \/ Client(t)
    PROVE  FairStep
<1>w. WordInv /\ op \in [Tasks -> Opcodes]
  BY DEF SemWordInv, WordInv, TypeOK
<1>1. CASE SyncStep(t) \/ Drop(t)
  BY <1>1, <1>w, SyncStepFair
<1>2. CASE TryAcquired(t) \/ \E n \in Counts : TryOnce(t, n)
  BY <1>2, TryFair
<1>3. CASE TryBlocked(t)
  <2>1. op' = op /\ queue' = queue /\ holds' = holds
    BY <1>3 DEF TryBlocked, word
  <2> QED  BY <2>1, <1>w, FairUnseen DEF KeepsAsked
<1>4. CASE Poll(t)
  <2>1. Return(t) /\ queue' = queue /\ holds' = holds /\ ~InQueue(t)
    BY <1>4, NotQueued DEF Poll, word
  <2> QED  BY <2>1, <1>w, ReturnKeeps, FairUnseen
<1>5. ASSUME NEW n \in 1..MAX_PERMITS, ReleaseFast(t, n) PROVE FairStep
  <2>1. /\ op' = op /\ queue' = queue /\ n <= holds[t] /\ n \in 0..DATA_MASK
        /\ holds' = [holds EXCEPT ![t] = holds[t] - n]
    BY <1>5, PermitFacts DEF ReleaseFast
  <2> QED  BY <2>1, <1>w, FairRelease DEF KeepsAsked
<1>6. ASSUME NEW n, ReleaseSlow(t, n) \/ ReleaseTooMany(t, n) \/ Call(t, n) PROVE FairStep
  <2>1. /\ op' = [op EXCEPT ![t] = Semaphore(n)] /\ queue' = queue /\ holds' = holds /\ ~InQueue(t)
    BY <1>6, NotQueued DEF ReleaseSlow, ReleaseTooMany, Call, word
  <2>2. KeepsAsked
    BY <2>1, <1>w, OwnOpcode
  <2> QED  BY <2>1, <2>2, <1>w, FairUnseen
<1> QED  BY <1>1, <1>2, <1>3, <1>4, <1>5, <1>6 DEF SemaphoreStep, Client

(* The semaphore is a fair allocator of permits: every atomic step of it   *)
(* is a request, a grant of the oldest request that fits, an immediate     *)
(* acquisition with nobody waiting, a release or a withdrawal, whatever    *)
(* copy of the word process_wait_queue, release_loop or a dropped entry    *)
(* works from.                                                             *)
THEOREM SemIsFair == Spec => FairAllocator
<1>1. Init => Fair!Init
  <2> SUFFICES ASSUME Init PROVE Fair!Init
    OBVIOUS
  <2>1. queue = <<>> /\ holds \in [Tasks -> 0..DATA_MASK]
    BY InitHolds DEF Init, HoldsInv
  <2> QED  BY <2>1, FairInit
<1>2. SemWordInv /\ WaitInv /\ HoldsInv /\ [Next]_vars => [Fair!Next]_(Fair!vars)
  <2> SUFFICES ASSUME SemWordInv, WaitInv, HoldsInv, [Next]_vars PROVE FairStep
    BY DEF FairStep
  <2>1. CASE UNCHANGED vars
    BY <2>1, StutterFair
  <2>2. CASE Next
    BY <2>2, SemStepFair DEF Next
  <2> QED  BY <2>1, <2>2
<1> QED  BY <1>1, <1>2, SemWordInvariant, SemWaitInvariant, SemHoldsInvariant, PTL
         DEF Spec, FairAllocator, Fair!Spec
=============================================================================
