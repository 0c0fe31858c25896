------------------------------ MODULE LockProof ------------------------------
(***************************************************************************)
(* Theorems about Lock, for any number of tasks, any DATA_MASK and any     *)
(* choice of who may cancel, poison or clear.                              *)
(***************************************************************************)
EXTENDS Lock, SyncPrimitiveProof

LockOpcodes == {Exclusive, Shared, WaitExclusive, WaitShared}

(* Tasks only run operations of the lock. *)
OpsInv == \A t \in Tasks : op[t] \in LockOpcodes

LockWordInv == WordInv /\ OpsInv

LEMMA LockOpcodeFacts ==
    /\ LockOpcodes \subseteq Opcodes
    /\ acquired_count(Exclusive) = DATA_MASK
    /\ acquired_count(Shared) = 1
    /\ acquired_count(WaitExclusive) = 0
    /\ acquired_count(WaitShared) = 0
    /\ Exclusive # Shared /\ Exclusive # WaitExclusive /\ Exclusive # WaitShared
    /\ Shared # WaitExclusive /\ Shared # WaitShared
  BY DataMaskAssumption DEF LockOpcodes, Opcodes, Kinds, Exclusive, Shared, WaitExclusive,
     WaitShared, Wait, acquired_count

USE DEF NoResult, ACQUIRED, POISONED, NOT_ACQUIRED

LEMMA InitWord ==
    ASSUME Init
    PROVE  LockWordInv
<1>1. TypeOK
  <2>1. 0 \in 0..DATA_MASK /\ Exclusive \in Opcodes
    BY DataMaskAssumption DEF Exclusive, Opcodes, Kinds
  <2>2. data \in 0..DATA_MASK /\ locked \in BOOLEAN /\ queue \in Seq(Tasks)
    BY <2>1, NilSeq DEF Init, SyncInit
  <2>3. /\ pc \in [Tasks -> Labels] /\ then \in [Tasks -> {"idle", "complete"}]
        /\ op \in [Tasks -> Opcodes] /\ transferred \in [Tasks -> 0..DATA_MASK]
    BY <2>1 DEF Init, SyncInit, Labels
  <2>4. snap \in [Tasks -> Words] /\ outer \in [Tasks -> Words]
    BY FreeFacts DEF Init, SyncInit
  <2>5. /\ resolved \in [Tasks -> Seq(Tasks)] /\ holds \in [Tasks -> Int]
        /\ result \in [Tasks -> {NoResult, ACQUIRED, POISONED}]
    BY NilSeq DEF Init, SyncInit
  <2>6. QED BY <2>2, <2>3, <2>4, <2>5 DEF TypeOK
<1>2. WorkInv /\ OneWorker /\ RoundInv /\ FlagInv /\ PushInv
  BY DEF Init, SyncInit, WorkInv, OneWorker, RoundInv, FlagInv, PushInv, Processing
<1>3. OpsInv
  BY DEF Init, SyncInit, OpsInv, LockOpcodes
<1>4. QED BY <1>1, <1>2, <1>3 DEF LockWordInv, WordInv

LEMMA PoisonedWord ==
    /\ POISONED_STATE.data = 0 /\ POISONED_STATE.locked = TRUE
    /\ POISONED_STATE.tail = NoTask /\ POISONED_STATE \in Words
  BY DataMaskAssumption DEF POISONED_STATE, Word, Words

-----------------------------------------------------------------------------
LEMMA CallWord ==
    ASSUME LockWordInv, NEW t \in Tasks, NEW o \in Calls, Call(t, o)
    PROVE  WordInv'
<1> WordInv
  BY DEF LockWordInv
<1>q. transferred[t] = 0
  BY Quiet DEF Call
<1>1. TypeOK'
  <2>1. o \in Opcodes
    BY LockAssumption, LockOpcodeFacts DEF LockOpcodes
  <2>2. QED BY <2>1 DEF WordInv, TypeOK, Call, Goto, word, locals, Labels
<1>2. Respects(t)
  BY Shape, <1>q DEF Call, Goto, word, locals, Respects, Processing
<1>3. QED BY <1>1, <1>2, RespectsWord

(* An attempt that succeeds does not overflow the count, and does not      *)
(* raise it while somebody processes the queue.                            *)
LEMMA AttemptFacts ==
    ASSUME WordInv, NEW o \in LockOpcodes, Attempt(o) = ACQUIRED
    PROVE  /\ data + acquired_count(o) \in 0..DATA_MASK
           /\ acquired_count(o) = 0 \/ (~locked /\ queue = <<>>)
<1>s. /\ State.data = data /\ State.locked = locked
      /\ State.tail = NoTask <=> queue = <<>>
  BY StateFacts
<1>1. CASE o = Exclusive
  <2>1. State = Free
    BY <1>1, LockOpcodeFacts DEF Attempt, try_lock_internal
  <2>2. data = 0 /\ ~locked /\ queue = <<>>
    BY <2>1, <1>s, FreeWord
  <2>3. QED BY <2>2, <1>1, LockOpcodeFacts, DataMaskAssumption
<1>2. CASE o = Shared
  <2>1. BelowMax
    BY <1>2, LockOpcodeFacts DEF Attempt, try_share_internal
  <2>2. data < max_shared_owners /\ ~locked /\ queue = <<>>
    BY <2>1, <1>s DEF BelowMax
  <2>3. data + 1 \in 0..DATA_MASK
    BY <2>2, Shape, LockAssumption, DataMaskAssumption
  <2>4. QED BY <2>2, <2>3, <1>2, LockOpcodeFacts
<1>3. CASE o \in {WaitExclusive, WaitShared}
  <2>1. acquired_count(o) = 0
    BY <1>3, LockOpcodeFacts
  <2>2. data + 0 = data
    BY Shape
  <2>3. QED BY <2>1, <2>2, Shape
<1>4. QED BY <1>1, <1>2, <1>3 DEF LockOpcodes

LEMMA TryAcquiredWord ==
    ASSUME LockWordInv, NEW t \in Tasks, TryAcquired(t)
    PROVE  WordInv'
<1> WordInv /\ op[t] \in LockOpcodes
  BY DEF LockWordInv, OpsInv
<1>a. /\ data + acquired(t) \in 0..DATA_MASK /\ acquired(t) \in Int
      /\ acquired(t) = 0 \/ (~locked /\ queue = <<>>)
  BY AttemptFacts, ReleaseFacts DEF TryAcquired, acquired
<1>q. transferred[t] = 0
  BY Quiet DEF TryAcquired
<1>1. TypeOK'
  <2>1. data' \in 0..DATA_MASK /\ holds' \in [Tasks -> Int]
    BY <1>a DEF WordInv, TypeOK, TryAcquired
  <2>2. /\ pc' \in [Tasks -> Labels]
        /\ result' \in [Tasks -> {NoResult, ACQUIRED, POISONED}]
    BY DEF WordInv, TypeOK, TryAcquired, Goto, Labels
  <2>3. QED BY <2>1, <2>2 DEF WordInv, TypeOK, TryAcquired, locals
<1>2. Respects(t)
  <2>1. /\ \A u \in Tasks \ {t} : pc'[u] = pc[u]
        /\ snap' = snap /\ transferred' = transferred
        /\ locked' = locked /\ queue' = queue /\ pc'[t] \in {"wait", "own"}
    BY Shape DEF TryAcquired, Goto, locals
  <2>2. locked /\ queue # <<>> => data' <= data
    BY <1>a, Shape DEF TryAcquired
  <2>3. ~Processing(t) /\ ~Processing(t)'
    BY <2>1 DEF Processing, TryAcquired
  <2>4. locked /\ data = 0 /\ queue = <<>> => data' = 0
    BY <1>a, Shape DEF TryAcquired
  <2>5. Len(queue) <= Len(queue')
    BY <2>1, Shape
  <2>6. QED BY <1>q, <2>1, <2>2, <2>3, <2>4, <2>5 DEF Respects
<1>3. QED BY <1>1, <1>2, RespectsWord

LEMMA TryPoisonedWord ==
    ASSUME LockWordInv, NEW t \in Tasks, TryPoisoned(t)
    PROVE  WordInv'
<1> WordInv
  BY DEF LockWordInv
<1>q. transferred[t] = 0
  BY Quiet DEF TryPoisoned
<1>1. CASE t \in Pagers
  <2>1. TypeOK'
    BY <1>1 DEF WordInv, TypeOK, TryPoisoned, Goto, word, locals, Labels
  <2>2. Respects(t)
    BY <1>1, <1>q, Shape DEF TryPoisoned, Goto, word, locals, Respects, Processing
  <2>3. QED BY <2>1, <2>2, RespectsWord
<1>2. CASE t \notin Pagers
  <2>1. TypeOK /\ Return(t) /\ UNCHANGED <<word, result, holds>>
    BY <1>2 DEF WordInv, TryPoisoned
  <2>2. TypeOK'
    BY <2>1, ReturnTypes DEF TypeOK, word
  <2>3. Respects(t)
    BY <2>1, <1>q, Shape DEF TryPoisoned, Return, Goto, word, Respects, Processing
  <2>4. QED BY <2>2, <2>3, RespectsWord
<1>3. QED BY <1>1, <1>2

LEMMA TryBlockedWord ==
    ASSUME LockWordInv, NEW t \in Tasks, TryBlocked(t)
    PROVE  WordInv'
<1> WordInv /\ op[t] \in LockOpcodes
  BY DEF LockWordInv, OpsInv
<1>q. transferred[t] = 0
  BY Quiet DEF TryBlocked
<1>s. /\ State \in Words /\ State.data = data /\ State.locked = locked
      /\ State.tail = NoTask <=> queue = <<>>
  BY StateFacts
<1>p. State.tail # NoTask \/ State.data # 0
  <2>1. SUFFICES ASSUME State.tail = NoTask, State.data = 0 PROVE FALSE
    OBVIOUS
  <2>2. data = 0 /\ queue = <<>>
    BY <2>1, <1>s
  <2>3. State = Free \/ State = POISONED_STATE
    BY <2>2, Shape DEF State, Free, POISONED_STATE
  <2>4. State = Free => BelowMax
    BY <2>1, <2>2, <1>s, FreeWord, OwnersAssumption DEF BelowMax
  <2>5. Attempt(op[t]) # NOT_ACQUIRED
    BY <2>2, <2>3, <2>4, LockOpcodeFacts, OwnersAssumption
       DEF Attempt, try_lock_internal, try_share_internal, try_wait, LockOpcodes
  <2>6. QED BY <2>5 DEF TryBlocked
<1>1. TypeOK'
  BY <1>s DEF WordInv, TypeOK, TryBlocked, Goto, word, Labels
<1>2. Respects(t)
  <2>1. /\ \A u \in Tasks \ {t} : pc'[u] = pc[u] /\ snap'[u] = snap[u]
        /\ snap'[t] = State /\ transferred' = transferred /\ data' = data
        /\ locked' = locked /\ queue' = queue /\ pc'[t] = "push"
    BY Shape DEF TryBlocked, Goto, word
  <2>2. ~Processing(t) /\ ~Processing(t)'
    BY <2>1 DEF Processing, TryBlocked
  <2>3. snap'[t].tail # NoTask \/ snap'[t].data # 0
    BY <2>1, <1>p
  <2>4. data' <= data /\ Len(queue) <= Len(queue')
    BY <2>1, Shape
  <2>5. QED BY <1>q, <2>1, <2>2, <2>3, <2>4 DEF Respects
<1>3. QED BY <1>1, <1>2, RespectsWord

LEMMA TryOnceWord ==
    ASSUME LockWordInv, NEW t \in Tasks, NEW o \in Calls, TryOnce(t, o)
    PROVE  WordInv'
<1> WordInv
  BY DEF LockWordInv
<1>a. /\ o \in Opcodes /\ data + acquired_count(o) \in 0..DATA_MASK
      /\ acquired_count(o) \in Int
      /\ acquired_count(o) = 0 \/ (~locked /\ queue = <<>>)
  BY AttemptFacts, CountFacts, LockOpcodeFacts DEF TryOnce, LockOpcodes
<1>q. transferred[t] = 0
  BY Quiet DEF TryOnce
<1>1. TypeOK'
  <2>1. data' \in 0..DATA_MASK /\ holds' \in [Tasks -> Int]
    BY <1>a DEF WordInv, TypeOK, TryOnce
  <2>2. pc' \in [Tasks -> Labels] /\ op' \in [Tasks -> Opcodes]
    BY <1>a DEF WordInv, TypeOK, TryOnce, Goto, Labels
  <2>3. QED BY <2>1, <2>2 DEF WordInv, TypeOK, TryOnce, locals
<1>2. Respects(t)
  <2>1. /\ \A u \in Tasks \ {t} : pc'[u] = pc[u]
        /\ snap' = snap /\ transferred' = transferred
        /\ locked' = locked /\ queue' = queue /\ pc'[t] = "own"
    BY Shape DEF TryOnce, Goto, locals
  <2>2. locked /\ queue # <<>> => data' <= data
    BY <1>a, Shape DEF TryOnce
  <2>3. ~Processing(t) /\ ~Processing(t)'
    BY <2>1 DEF Processing, TryOnce
  <2>4. locked /\ data = 0 /\ queue = <<>> => data' = 0
    BY <1>a, Shape DEF TryOnce
  <2>5. Len(queue) <= Len(queue')
    BY <2>1, Shape
  <2>6. QED BY <1>q, <2>1, <2>2, <2>3, <2>4, <2>5 DEF Respects
<1>3. QED BY <1>1, <1>2, RespectsWord

LEMMA PollWord ==
    ASSUME LockWordInv, NEW t \in Tasks, Poll(t)
    PROVE  WordInv'
<1> WordInv
  BY DEF LockWordInv
<1>q. transferred[t] = 0
  BY Quiet DEF Poll
<1>r. result' \in [Tasks -> {NoResult, ACQUIRED, POISONED}]
  BY DEF WordInv, TypeOK, Poll
<1>1. CASE result[t] = ACQUIRED /\ acquired(t) > 0
  <2>1. Goto(t, "own") /\ UNCHANGED <<op, locals, word, holds>>
    BY <1>1 DEF Poll
  <2>2. TypeOK'
    BY <2>1, <1>r DEF WordInv, TypeOK, Goto, word, locals, Labels
  <2>3. Respects(t)
    BY <2>1, <1>q, Shape DEF Poll, Goto, word, locals, Respects, Processing
  <2>4. QED BY <2>2, <2>3, RespectsWord
<1>2. CASE ~(result[t] = ACQUIRED /\ acquired(t) > 0)
  <2>1. TypeOK /\ Return(t) /\ UNCHANGED <<word, holds>>
    BY <1>2 DEF WordInv, Poll
  <2>2. TypeOK'
    BY <2>1, <1>r, ReturnTypes DEF TypeOK, word
  <2>3. Respects(t)
    BY <2>1, <1>q, Shape DEF Poll, Return, Goto, word, Respects, Processing
  <2>4. QED BY <2>2, <2>3, RespectsWord
<1>3. QED BY <1>1, <1>2

-----------------------------------------------------------------------------
LEMMA ReleaseFastWord ==
    ASSUME LockWordInv, NEW t \in Tasks, ReleaseFast(t)
    PROVE  WordInv'
<1> WordInv /\ op[t] \in LockOpcodes
  BY DEF LockWordInv, OpsInv
<1>q. transferred[t] = 0
  BY Quiet DEF ReleaseFast
<1>f. ~locked /\ FastRelease(op[t])
  BY DEF ReleaseFast, FastRelease
<1>a. acquired(t) \in 0..DATA_MASK
  BY ReleaseFacts
<1>d. data - acquired(t) \in 0..DATA_MASK
  <2>1. CASE op[t] = Exclusive
    BY <2>1, <1>f, LockOpcodeFacts, Shape, DataMaskAssumption DEF FastRelease, acquired
  <2>2. CASE op[t] # Exclusive
    <3>1. data # 0
      BY <2>2, <1>f DEF FastRelease
    <3>2. acquired(t) \in {0, 1}
      BY <2>2, LockOpcodeFacts DEF LockOpcodes, acquired
    <3>3. QED BY <3>1, <3>2, Shape, DataMaskAssumption
  <2>3. QED BY <2>1, <2>2
<1>r. TypeOK /\ Return(t)
  BY DEF WordInv, ReleaseFast
<1>1. TypeOK'
  BY <1>r, ReturnTypes, <1>d, <1>a DEF TypeOK, ReleaseFast
<1>2. Respects(t)
  BY Shape, <1>q, <1>f DEF ReleaseFast, Return, Goto, Respects, Processing
<1>3. QED BY <1>1, <1>2, RespectsWord

(* release_lock and release_share enter release_loop with the word found. *)
LEMMA ReleaseSlowWord ==
    ASSUME LockWordInv, NEW t \in Tasks, ReleaseSlow(t) \/ ReleasePoisoned(t)
    PROVE  WordInv'
<1> WordInv
  BY DEF LockWordInv
<1>q. transferred[t] = 0
  BY Quiet DEF ReleaseSlow, ReleasePoisoned
<1>s. State \in Words
  BY StateFacts
<1>1. TypeOK'
  <2>1. pc' \in [Tasks -> Labels] /\ snap' \in [Tasks -> Words]
    BY <1>s, Shape DEF ReleaseSlow, ReleasePoisoned, Goto, Labels
  <2>2. UNCHANGED <<word, op, outer, then, transferred, resolved, result, holds>>
    BY DEF ReleaseSlow, ReleasePoisoned
  <2>3. QED BY <2>1, <2>2 DEF WordInv, TypeOK, word
<1>2. Respects(t)
  <2>1. /\ \A u \in Tasks \ {t} : pc'[u] = pc[u] /\ snap'[u] = snap[u]
        /\ transferred' = transferred /\ data' = data
        /\ locked' = locked /\ queue' = queue /\ pc'[t] = "release"
    BY Shape DEF ReleaseSlow, ReleasePoisoned, Goto, word
  <2>2. ~Processing(t) /\ ~Processing(t)'
    BY <2>1 DEF Processing, ReleaseSlow, ReleasePoisoned
  <2>3. data' <= data /\ Len(queue) <= Len(queue')
    BY <2>1, Shape
  <2>4. QED BY <1>q, <2>1, <2>2, <2>3 DEF Respects
<1>3. QED BY <1>1, <1>2, RespectsWord

-----------------------------------------------------------------------------
LEMMA PoisonWord ==
    ASSUME LockWordInv, NEW t \in Tasks, Poison(t)
    PROVE  WordInv'
<1> WordInv
  BY DEF LockWordInv
<1>q. transferred[t] = 0
  BY Quiet DEF Poison
<1>a. acquired(t) \in 0..DATA_MASK
  BY ReleaseFacts
<1>1. TypeOK'
  <2>1. data' \in 0..DATA_MASK /\ locked' \in BOOLEAN /\ queue' \in Seq(Tasks)
    BY NilSeq, DataMaskAssumption DEF Poison
  <2>2. pc' \in [Tasks -> Labels] /\ resolved' \in [Tasks -> Seq(Tasks)]
    BY DEF WordInv, TypeOK, Poison, Goto, Labels
  <2>3. holds' \in [Tasks -> Int]
    BY <1>a DEF WordInv, TypeOK, Poison
  <2>4. QED BY <2>1, <2>2, <2>3 DEF WordInv, TypeOK, Poison
<1>2. Respects(t)
  BY Shape, <1>q DEF Poison, Goto, Respects, Processing
<1>3. QED BY <1>1, <1>2, RespectsWord

LEMMA PoisonResolveWord ==
    ASSUME LockWordInv, NEW t \in Tasks, PoisonResolve(t)
    PROVE  WordInv'
<1> WordInv
  BY DEF LockWordInv
<1>q. transferred[t] = 0
  BY Quiet DEF PoisonResolve
<1>1. TypeOK'
  <2>1. resolved[t] \in Seq(Tasks) /\ resolved[t] # <<>>
    BY DEF WordInv, TypeOK, PoisonResolve, SetResult
  <2>2. SubSeq(resolved[t], 1, Len(resolved[t]) - 1) \in Seq(Tasks)
    BY <2>1
  <2>3. resolved' \in [Tasks -> Seq(Tasks)]
    BY <2>2 DEF WordInv, TypeOK, PoisonResolve, SetResult
  <2>4. result' \in [Tasks -> {NoResult, ACQUIRED, POISONED}]
    BY <2>1 DEF WordInv, TypeOK, PoisonResolve, SetResult
  <2>5. QED BY <2>3, <2>4 DEF WordInv, TypeOK, PoisonResolve, SetResult, word
<1>2. Respects(t)
  BY Shape, <1>q DEF PoisonResolve, SetResult, word, Respects, Processing
<1>3. QED BY <1>1, <1>2, RespectsWord

LEMMA PoisonReturnWord ==
    ASSUME LockWordInv, NEW t \in Tasks, PoisonReturn(t)
    PROVE  WordInv'
<1> WordInv
  BY DEF LockWordInv
<1>q. transferred[t] = 0
  BY Quiet DEF PoisonReturn
<1>r. TypeOK /\ Return(t)
  BY DEF WordInv, PoisonReturn
<1>1. TypeOK'
  BY <1>r, ReturnTypes DEF TypeOK, PoisonReturn, word
<1>2. Respects(t)
  BY Shape, <1>q DEF PoisonReturn, word, Return, Goto, Respects, Processing
<1>3. QED BY <1>1, <1>2, RespectsWord

LEMMA ClearPoisonWord ==
    ASSUME LockWordInv, NEW t \in Tasks, ClearPoison(t)
    PROVE  WordInv'
<1> WordInv
  BY DEF LockWordInv
<1>q. transferred[t] = 0
  BY Quiet DEF ClearPoison
<1>s. queue = <<>>
  BY StateFacts, PoisonedWord DEF ClearPoison
<1>1. TypeOK'
  BY DEF WordInv, TypeOK, ClearPoison, locals
<1>2. Respects(t)
  BY Shape, <1>q, <1>s DEF ClearPoison, locals, Respects, Processing
<1>3. QED BY <1>1, <1>2, RespectsWord

-----------------------------------------------------------------------------
(* The opcode of a task is the one it called with, or is reset. *)
LEMMA SyncStepOps ==
    ASSUME LockWordInv, NEW t \in Tasks, SyncStep(t) \/ Drop(t)
    PROVE  OpsInv'
<1>t. op \in [Tasks -> Opcodes]
  BY DEF LockWordInv, WordInv, TypeOK
<1>1. op' = op \/ op' = [op EXCEPT ![t] = Exclusive]
  <2>1. CASE PushOk(t) \/ PushFailed(t) \/ Drop(t)
    BY <2>1 DEF PushOk, PushFailed, Drop
  <2>2. CASE Release(t)
    BY <2>2 DEF Release, ReleaseRefused, ReleaseInPlace, ReleaseAndProcess, ReleaseRetry,
                Return
  <2>3. CASE Process(t)
    BY <2>3 DEF Process, PwqVisit, PwqReset, PwqResetFailed, PwqUnlock, PwqUnlockFailed,
                PwqAdd, Resolve, SetResult, PwqContinue, PwqReturn, Return
  <2>4. CASE Cancel(t)
    BY <2>4 DEF Cancel, CancelEmpty, CancelLock, RemoveInner, RemoveTail, RemoveSole,
                RemoveRetry, RemoveMissing, Complete, Return
  <2>5. QED BY <2>1, <2>2, <2>3, <2>4 DEF SyncStep
<1>2. QED BY <1>t, <1>1 DEF LockWordInv, OpsInv, LockOpcodes

LEMMA LockStepOps ==
    ASSUME LockWordInv, NEW t \in Tasks,
           LockStep(t) \/ Poison(t) \/ ReleasePoisoned(t) \/ ClearPoison(t)
    PROVE  OpsInv'
<1>t. op \in [Tasks -> Opcodes]
  BY DEF LockWordInv, WordInv, TypeOK
<1>1. op' = op \/ op' = [op EXCEPT ![t] = Exclusive]
  <2>1. CASE TryAcquired(t) \/ TryPoisoned(t) \/ TryBlocked(t) \/ Poll(t)
    BY <2>1 DEF TryAcquired, TryPoisoned, TryBlocked, Poll, Return
  <2>2. CASE PoisonResolve(t) \/ PoisonReturn(t) \/ ReleaseFast(t) \/ ReleaseSlow(t)
    BY <2>2 DEF PoisonResolve, SetResult, PoisonReturn, ReleaseFast, ReleaseSlow, Return
  <2>3. CASE Poison(t) \/ ReleasePoisoned(t) \/ ClearPoison(t)
    BY <2>3 DEF Poison, ReleasePoisoned, ClearPoison
  <2>4. QED BY <2>1, <2>2, <2>3 DEF LockStep
<1>2. QED BY <1>t, <1>1 DEF LockWordInv, OpsInv, LockOpcodes

LEMMA CallOps ==
    ASSUME LockWordInv, NEW t \in Tasks, NEW o \in Calls, Call(t, o) \/ TryOnce(t, o)
    PROVE  OpsInv'
<1>t. op \in [Tasks -> Opcodes]
  BY DEF LockWordInv, WordInv, TypeOK
<1>1. op' = [op EXCEPT ![t] = o] /\ o \in LockOpcodes
  BY LockAssumption DEF Call, TryOnce, LockOpcodes
<1>2. QED BY <1>t, <1>1 DEF LockWordInv, OpsInv

-----------------------------------------------------------------------------
(* Every step of Lock preserves LockWordInv. *)
LEMMA NextWord ==
    ASSUME LockWordInv, [Next]_vars
    PROVE  LockWordInv'
<1>w. WordInv
  BY DEF LockWordInv
<1>1. ASSUME NEW t \in Tasks, SyncStep(t) \/ Drop(t)
      PROVE  LockWordInv'
  BY <1>w, <1>1, SyncStepWord, SyncStepOps DEF LockWordInv
<1>2. ASSUME NEW t \in Tasks,
             LockStep(t) \/ Poison(t) \/ ReleasePoisoned(t) \/ ClearPoison(t)
      PROVE  LockWordInv'
  <2>1. OpsInv'
    BY <1>2, LockStepOps
  <2>2. CASE TryAcquired(t) \/ TryPoisoned(t) \/ TryBlocked(t) \/ Poll(t)
    BY <2>2, <2>1, TryAcquiredWord, TryPoisonedWord, TryBlockedWord, PollWord DEF LockWordInv
  <2>3. CASE ReleaseFast(t) \/ ReleaseSlow(t) \/ ReleasePoisoned(t)
    BY <2>3, <2>1, ReleaseFastWord, ReleaseSlowWord DEF LockWordInv
  <2>4. CASE PoisonResolve(t) \/ PoisonReturn(t) \/ Poison(t) \/ ClearPoison(t)
    BY <2>4, <2>1, PoisonResolveWord, PoisonReturnWord, PoisonWord, ClearPoisonWord
       DEF LockWordInv
  <2>5. QED BY <1>2, <2>2, <2>3, <2>4 DEF LockStep
<1>3. ASSUME NEW t \in Tasks, NEW o \in Calls, Call(t, o) \/ TryOnce(t, o)
      PROVE  LockWordInv'
  BY <1>3, CallOps, CallWord, TryOnceWord DEF LockWordInv
<1>4. CASE UNCHANGED vars
  <2>1. OpsInv'
    BY <1>4 DEF LockWordInv, OpsInv, vars
  <2>2. QED BY <1>w, <1>4, <2>1, StutterWord DEF LockWordInv
<1>5. CASE Next
  BY <1>5, <1>1, <1>2, <1>3 DEF Next, Client
<1>6. QED BY <1>4, <1>5

(* LockWordInv holds in every reachable state of the lock. *)
THEOREM LockWordInvariant == Spec => []LockWordInv
<1>1. Init => LockWordInv
  BY InitWord
<1>2. LockWordInv /\ [Next]_vars => LockWordInv'
  BY NextWord
<1>3. QED BY <1>1, <1>2, PTL DEF Spec

(* Type correctness: no release underflows and no transfer overflows the   *)
(* data bits, whatever the interleaving.                                   *)
THEOREM LockTypeCorrect == Spec => []TypeOK
<1>1. LockWordInv => TypeOK
  BY DEF LockWordInv, WordInv
<1>2. QED BY <1>1, LockWordInvariant, PTL

(* LOCKED_FLAG is held by at most one task, and it is set exactly while a  *)
(* task works on the list or when the lock is poisoned.                    *)
THEOREM LockFlagCorrect == Spec => []LockedFlag
<1>1. LockWordInv => LockedFlag
  BY WordImplies DEF LockWordInv
<1> QED  BY <1>1, LockWordInvariant, PTL

(* The debug assertions of wait_resources_sync, process_wait_queue and     *)
(* remove_wait_queue_entry hold.                                           *)
THEOREM LockDebugAsserts == Spec => []DebugAsserts
<1>1. LockWordInv => DebugAsserts
  BY WordImplies DEF LockWordInv
<1> QED  BY <1>1, LockWordInvariant, PTL

-----------------------------------------------------------------------------
(* On a poisoned lock nobody works on the list, and no step of the wait    *)
(* queue protocol changes the word: every compare-exchange that could      *)
(* succeed there adds or subtracts nothing.                                *)
LEMMA PoisonedQuiet ==
    ASSUME LockWordInv, State = POISONED_STATE
    PROVE  /\ data = 0 /\ locked /\ queue = <<>>
           /\ \A t \in Tasks : ~Processing(t)
           /\ \A t \in Tasks : pc[t] = "push" => State # snap[t]
           /\ \A t \in Tasks : CanRelease(t) /\ State = snap[t] => acquired(t) = 0
<1> WordInv
  BY DEF LockWordInv
<1>1. data = 0 /\ locked = TRUE /\ queue = <<>>
  BY StateFacts, PoisonedWord
<1>2. \A t \in Tasks : ~Processing(t)
  BY <1>1, Worker
<1>3. \A t \in Tasks : pc[t] = "push" => State # snap[t]
  <2> SUFFICES ASSUME NEW t \in Tasks, pc[t] = "push", State = snap[t] PROVE FALSE
    OBVIOUS
  <2>1. snap[t].tail # NoTask \/ snap[t].data # 0
    BY DEF WordInv, PushInv
  <2>2. QED BY <2>1, PoisonedWord
<1>4. \A t \in Tasks : CanRelease(t) /\ State = snap[t] => acquired(t) = 0
  <2> SUFFICES ASSUME NEW t \in Tasks, CanRelease(t), State = snap[t] PROVE acquired(t) = 0
    OBVIOUS
  <2>1. acquired(t) \in 0..DATA_MASK /\ acquired(t) <= snap[t].data
    BY ReleaseFacts
  <2>2. snap[t].data = 0
    BY PoisonedWord
  <2>3. QED BY <2>1, <2>2, DataMaskAssumption
<1>5. QED BY <1>1, <1>2, <1>3, <1>4

LEMMA PoisonedSyncStep ==
    ASSUME LockWordInv, State = POISONED_STATE, NEW t \in Tasks, SyncStep(t) \/ Drop(t)
    PROVE  data' = data /\ locked' = locked /\ queue' = queue
<1>q. /\ data = 0 /\ locked /\ queue = <<>>
      /\ pc[t] \notin {"remove", "pwq", "pwq_add", "resolve_more"}
      /\ pc[t] = "push" => State # snap[t]
      /\ CanRelease(t) /\ State = snap[t] => acquired(t) = 0
      /\ State.tail = NoTask
  BY PoisonedQuiet, PoisonedWord DEF Processing
<1>1. CASE PushOk(t) \/ PushFailed(t) \/ Drop(t)
  BY <1>1, <1>q DEF PushOk, PushFailed, Drop, word
<1>2. CASE Release(t)
  <2>1. CASE ReleaseInPlace(t)
    <3>1. data' = data - acquired(t) /\ locked' = locked /\ queue' = queue /\ acquired(t) = 0
      BY <2>1, <1>q DEF ReleaseInPlace
    <3>2. QED BY <3>1, <1>q
  <2>2. CASE ReleaseAndProcess(t)
    BY <2>2, <1>q DEF ReleaseAndProcess
  <2>3. CASE ReleaseRefused(t) \/ ReleaseRetry(t)
    BY <2>3 DEF ReleaseRefused, ReleaseRetry, word
  <2>4. QED BY <1>2, <2>1, <2>2, <2>3 DEF Release
<1>3. CASE Process(t)
  <2>1. Resolve(t) \/ PwqReturn(t)
    BY <1>3, <1>q DEF Process, PwqVisit, PwqReset, PwqResetFailed, PwqUnlock,
       PwqUnlockFailed, PwqAdd, PwqContinue
  <2>2. QED BY <2>1 DEF Resolve, SetResult, PwqReturn, word
<1>4. CASE Cancel(t)
  <2>1. Complete(t)
    BY <1>4, <1>q DEF Cancel, CancelEmpty, CancelLock, RemoveInner, RemoveTail, RemoveSole,
       RemoveRetry, RemoveMissing
  <2>2. QED BY <2>1 DEF Complete, word
<1>5. QED BY <1>1, <1>2, <1>3, <1>4 DEF SyncStep

LEMMA PoisonedLockStep ==
    ASSUME LockWordInv, State = POISONED_STATE, NEW t \in Tasks,
           \/ LockStep(t) \/ Poison(t) \/ ReleasePoisoned(t)
           \/ \E o \in Calls : Call(t, o) \/ TryOnce(t, o)
    PROVE  data' = data /\ locked' = locked /\ queue' = queue
<1>q. data = 0 /\ locked /\ queue = <<>>
  BY PoisonedQuiet
<1>w. WordInv
  BY DEF LockWordInv
<1>1. CASE TryAcquired(t)
  <2>1. op[t] \in LockOpcodes /\ Attempt(op[t]) = ACQUIRED
    BY <1>1 DEF LockWordInv, OpsInv, TryAcquired
  <2>2. acquired(t) = 0
    BY <2>1, <1>q, <1>w, AttemptFacts DEF acquired
  <2>3. data' = data + acquired(t) /\ locked' = locked /\ queue' = queue
    BY <1>1 DEF TryAcquired
  <2>4. QED BY <2>2, <2>3, <1>q
<1>2. CASE TryPoisoned(t) \/ TryBlocked(t) \/ Poll(t) \/ PoisonResolve(t) \/ PoisonReturn(t)
           \/ ReleaseSlow(t) \/ ReleasePoisoned(t)
  BY <1>2 DEF TryPoisoned, TryBlocked, Poll, PoisonResolve, SetResult, PoisonReturn,
     ReleaseSlow, ReleasePoisoned, word
<1>3. CASE ReleaseFast(t) \/ Poison(t)
  BY <1>3, <1>q DEF ReleaseFast, FastRelease, Poison
<1>4. ASSUME NEW o \in Calls, Call(t, o) \/ TryOnce(t, o)
      PROVE  data' = data /\ locked' = locked /\ queue' = queue
  <2>1. CASE Call(t, o)
    BY <2>1 DEF Call, word
  <2>2. CASE TryOnce(t, o)
    <3>1. o \in {Exclusive, Shared} /\ o \in LockOpcodes /\ Attempt(o) = ACQUIRED
      BY <2>2 DEF TryOnce, LockOpcodes
    <3>2. acquired_count(o) = 0
      BY <3>1, <1>q, <1>w, AttemptFacts
    <3>3. QED BY <3>1, <3>2, LockOpcodeFacts, DataMaskAssumption
  <2>3. QED BY <1>4, <2>1, <2>2
<1>5. QED BY <1>1, <1>2, <1>3, <1>4 DEF LockStep

(* A poisoned word stays until clear_poison: no compare-exchange, late     *)
(* fetch_add or unlock of an operation that began before the poisoning     *)
(* changes it.                                                             *)
THEOREM LockPoisonSticks == Spec => PoisonSticks
<1>1. ASSUME LockWordInv, [Next]_vars, State = POISONED_STATE, State' # POISONED_STATE
      PROVE  \E t \in Clearers : ClearPoison(t)
  <2>1. ~(data' = data /\ locked' = locked /\ queue' = queue)
    BY <1>1 DEF State
  <2>2. Next
    BY <1>1, <2>1 DEF vars
  <2>3. PICK t \in Tasks : SyncStep(t) \/ LockStep(t) \/ Client(t)
    BY <2>2 DEF Next
  <2>4. ClearPoison(t)
    BY <1>1, <2>1, <2>3, PoisonedSyncStep, PoisonedLockStep DEF Client
  <2>5. QED BY <2>4 DEF ClearPoison
<1>2. LockWordInv /\ [Next]_vars
      => [State = POISONED_STATE /\ State' # POISONED_STATE
          => \E t \in Clearers : ClearPoison(t)]_vars
  BY <1>1
<1>3. QED BY <1>2, LockWordInvariant, PTL DEF Spec, PoisonSticks

-----------------------------------------------------------------------------
(* The steps of the lock itself, seen from the entries. *)
LEMMA LockStepWait ==
    ASSUME LockWordInv, WaitInv, NEW t \in Tasks, LockStep(t)
    PROVE  WaitInv'
<1>t. /\ WordInv /\ TypeOK
      /\ pc \in [Tasks -> Labels] /\ then \in [Tasks -> {"idle", "complete"}]
      /\ queue \in Seq(Tasks) /\ result \in [Tasks -> {NoResult, ACQUIRED, POISONED}]
  BY DEF LockWordInv, WordInv, TypeOK
<1>1. CASE pc[t] \in {"try", "own", "poisoning"} /\ (pc[t] = "poisoning" => resolved[t] = <<>>)
  <2>0. ~Inside(t) /\ ~InQueue(t) /\ resolved[t] = <<>>
    BY <1>1 DEF WaitInv, ReachInv, OwnList, Lists, Inside
  <2>1. CASE TryAcquired(t) /\ t \in Pagers
    <3>1. Answers(t)
      BY <2>1, <1>t DEF TryAcquired, Answers, Goto, locals
    <3> QED  BY <3>1, AnswersWait
  <2>2. CASE TryPoisoned(t) /\ t \in Pagers
    <3>1. Answers(t)
      BY <2>2, <1>t DEF TryPoisoned, Answers, Goto, locals, word
    <3> QED  BY <3>1, AnswersWait
  <2>3. CASE (TryAcquired(t) /\ t \notin Pagers) \/ TryBlocked(t) \/ ReleaseSlow(t)
    <3>1. Moves(t)
      BY <2>3, <2>0, <1>t DEF TryAcquired, TryBlocked, ReleaseSlow, Moves, Goto, locals, word, Inside
    <3> QED  BY <3>1, MovesWait
  <2>4. CASE (TryPoisoned(t) /\ t \notin Pagers) \/ ReleaseFast(t) \/ PoisonReturn(t)
    <3>1. Return(t) /\ queue' = queue /\ result' = result
      BY <2>4 DEF TryPoisoned, ReleaseFast, PoisonReturn, word
    <3> QED  BY <3>1, <2>0, <1>t, ReturnMoves, MovesWait
  <2> QED  BY <1>1, <2>1, <2>2, <2>3, <2>4 DEF LockStep, Poll, PoisonResolve, SetResult
<1>2. CASE Poll(t)
  <2>1. Consumes(t)
    BY <1>2, <1>t DEF Poll, Consumes, Return, Goto, locals, word, Inside, Lists
  <2> QED  BY <2>1, ConsumesWait
<1>3. CASE PoisonResolve(t)
  <2>1. SetResult(t, POISONED) /\ POISONED # NoResult
    BY <1>3 DEF PoisonResolve
  <2> QED  BY <2>1, <1>t, SetResultWait
<1> QED  BY <1>1, <1>2, <1>3 DEF LockStep, TryAcquired, TryPoisoned, TryBlocked, PoisonReturn,
            ReleaseFast, ReleaseSlow

LEMMA ClientWait ==
    ASSUME LockWordInv, WaitInv, NEW t \in Tasks, Client(t)
    PROVE  WaitInv'
<1>t. /\ WordInv /\ pc \in [Tasks -> Labels]
  BY DEF LockWordInv, WordInv, TypeOK
<1>1. CASE Drop(t)
  BY <1>1, <1>t, SyncStepWait
<1>2. CASE Poison(t)
  <2>1. Detaches(t)
    BY <1>2, <1>t DEF Poison, Detaches, Goto
  <2> QED  BY <2>1, <1>t, DetachesWait
<1>3. CASE ReleasePoisoned(t) \/ ClearPoison(t) \/ \E o \in Calls : Call(t, o) \/ TryOnce(t, o)
  <2>0. ~Inside(t) /\ ~InQueue(t) /\ resolved[t] = <<>>
    BY <1>3 DEF WaitInv, ReachInv, OwnList, Lists, Inside, ReleasePoisoned, ClearPoison, Call, TryOnce
  <2>1. Moves(t)
    BY <1>3, <2>0, <1>t DEF ReleasePoisoned, ClearPoison, Call, TryOnce, Moves, Goto, locals, word, Inside
  <2> QED  BY <2>1, MovesWait
<1> QED  BY <1>1, <1>2, <1>3 DEF Client

LEMMA LockWaitInvariant == Spec => []WaitInv
<1>1. Init => WaitInv
  <2> SUFFICES ASSUME Init PROVE WaitInv
    OBVIOUS
  <2>1. Len(queue) = 0 /\ \A t \in Tasks : Len(resolved[t]) = 0 /\ resolved[t] = <<>>
    BY DEF Init, SyncInit
  <2>2. \A t \in Tasks : ~InQueue(t) /\ ~Pending(t) /\ ~Inside(t) /\ result[t] = NoResult
    BY <2>1 DEF InQueue, Pending, Inside, Init, SyncInit
  <2>3. \A t \in Tasks : 1..Len(resolved[t]) = {}
    BY <2>1
  <2>4. ListOnce
    BY <2>3, Zenon DEF ListOnce
  <2> QED  BY <2>1, <2>2, <2>4 DEF WaitInv, ReachInv, QueueOnce, OwnList
<1>2. LockWordInv /\ WaitInv /\ [Next]_vars => WaitInv'
  <2> SUFFICES ASSUME LockWordInv, WaitInv, [Next]_vars PROVE WaitInv'
    OBVIOUS
  <2>1. CASE UNCHANGED vars
    BY <2>1 DEF vars, WaitInv, ReachInv, QueueOnce, ListOnce, OwnList, InQueue, Pending, Inside
  <2>2. CASE Next
    BY <2>2, SyncStepWait, LockStepWait, ClientWait DEF Next, LockWordInv
  <2> QED  BY <2>1, <2>2
<1> QED  BY <1>1, <1>2, LockWordInvariant, PTL DEF Spec

(* Every task that waits for a result is reachable by whoever will store   *)
(* it, exactly once, and no reachable entry has been left by its owner:    *)
(* set_result is called once per entry, on an entry that still exists.     *)
THEOREM LockNoLostWaiter == Spec => []NoLostWaiter
<1>1. WaitInv => NoLostWaiter
  BY WaitImplies
<1> QED  BY <1>1, LockWaitInvariant, PTL

-----------------------------------------------------------------------------
LEMMA LockDesiredFacts ==
    /\ desired_count(Exclusive) = DATA_MASK
    /\ desired_count(Shared) = 1
    /\ desired_count(WaitExclusive) = DATA_MASK
    /\ desired_count(WaitShared) = 1
  BY DEF Exclusive, Shared, WaitExclusive, WaitShared, Wait, desired_count

(* An attempt fails only when the word says so: without a queue, what is   *)
(* asked for does not fit.                                                 *)
LEMMA BlockedFacts ==
    ASSUME WordInv, NEW o \in LockOpcodes, Attempt(o) = NOT_ACQUIRED, ~locked, queue = <<>>
    PROVE  ~Admits(data, o)
<1>s. /\ State.data = data /\ State.tail = NoTask /\ data \in 0..DATA_MASK
  BY StateFacts, Shape
<1>f. data = 0 => State = Free
  BY Shape DEF State, Free
<1>1. CASE o = Exclusive
  <2>1. data # 0
    BY <1>1, <1>f, LockOpcodeFacts DEF Attempt, try_lock_internal
  <2> QED  BY <1>1, <1>s, <2>1, LockDesiredFacts, LockAssumption, DataMaskAssumption DEF Admits
<1>2. CASE o = Shared
  <2>1. ~(data < max_shared_owners)
    BY <1>2, <1>s, LockOpcodeFacts DEF Attempt, try_share_internal, BelowMax
  <2> QED  BY <1>2, <1>s, <2>1, LockDesiredFacts, LockAssumption, DataMaskAssumption DEF Admits
<1>3. CASE o = WaitExclusive
  <2>1. data # 0
    BY <1>3, LockOpcodeFacts DEF Attempt, try_wait
  <2> QED  BY <1>3, <1>s, <2>1, LockDesiredFacts, LockAssumption, DataMaskAssumption DEF Admits
<1>4. CASE o = WaitShared
  <2>1. ~(data < max_shared_owners)
    BY <1>4, LockOpcodeFacts DEF Attempt, try_wait
  <2> QED  BY <1>4, <1>s, <2>1, LockDesiredFacts, LockAssumption, DataMaskAssumption DEF Admits
<1> QED  BY <1>1, <1>2, <1>3, <1>4 DEF LockOpcodes

LEMMA LockStepHead ==
    ASSUME LockWordInv, WaitInv, HeadInv, NEW t \in Tasks, LockStep(t)
    PROVE  HeadInv'
<1>t. WordInv /\ TypeOK /\ op[t] \in LockOpcodes
  BY DEF LockWordInv, WordInv, OpsInv
<1>s. /\ State.data = data /\ State.locked = locked
      /\ State.tail = NoTask <=> queue = <<>>
  BY <1>t, StateFacts
<1>1. KeepsHead(t)
  <2>1. CASE TryAcquired(t)
    <3>1. data' = data \/ queue = <<>>
      <4>1. acquired(t) = 0 \/ queue = <<>>
        BY <2>1, <1>t, AttemptFacts DEF TryAcquired, acquired
      <4>2. data + 0 = data
        BY <1>t, Shape
      <4> QED  BY <2>1, <4>1, <4>2 DEF TryAcquired
    <3> QED  BY <2>1, <3>1, <1>t DEF TryAcquired, Goto, locals, KeepsHead, TypeOK
  <2>2. CASE TryBlocked(t)
    <3>1. ~locked /\ queue = <<>> => ~Admits(data, op[t])
      BY <2>2, <1>t, BlockedFacts DEF TryBlocked
    <3>2. /\ snap'[t] = State /\ op' = op /\ data' = data /\ locked' = locked /\ queue' = queue
          /\ \A u \in Tasks \ {t} : pc'[u] = pc[u] /\ snap'[u] = snap[u]
      BY <2>2, <1>t DEF TryBlocked, Goto, word, TypeOK
    <3> QED  BY <3>1, <3>2, <1>s DEF KeepsHead
  <2>3. CASE TryPoisoned(t)
    <3>1. ~InQueue(t)
      BY <2>3 DEF TryPoisoned, WaitInv, ReachInv
    <3> QED  BY <2>3, <3>1, <1>t DEF TryPoisoned, Return, Goto, word, locals, KeepsHead, TypeOK
  <2>4. CASE Poll(t)
    <3>1. ~InQueue(t)
      BY <2>4 DEF Poll, WaitInv, ReachInv
    <3> QED  BY <2>4, <3>1, <1>t DEF Poll, Return, Goto, word, locals, KeepsHead, TypeOK
  <2>5. CASE ReleaseFast(t)
    <3>1. queue = <<>>
      BY <2>5, <1>s DEF ReleaseFast, FastRelease
    <3> QED  BY <2>5, <3>1, <1>t DEF ReleaseFast, Return, Goto, KeepsHead, TypeOK
  <2>6. CASE PoisonResolve(t) \/ ReleaseSlow(t)
    BY <2>6, <1>t DEF PoisonResolve, SetResult, ReleaseSlow, Goto, word, KeepsHead, TypeOK
  <2>7. CASE PoisonReturn(t)
    <3>1. ~InQueue(t)
      BY <2>7 DEF PoisonReturn, WaitInv, ReachInv
    <3> QED  BY <2>7, <3>1, <1>t DEF PoisonReturn, Return, Goto, word, KeepsHead, TypeOK
  <2> QED  BY <2>1, <2>2, <2>3, <2>4, <2>5, <2>6, <2>7 DEF LockStep
<1> QED  BY <1>1, <1>t, KeepsHeadInv

LEMMA ClientHead ==
    ASSUME LockWordInv, WaitInv, HeadInv, NEW t \in Tasks, Client(t)
    PROVE  HeadInv'
<1>t. WordInv /\ TypeOK
  BY DEF LockWordInv, WordInv
<1>s. State.tail = NoTask <=> queue = <<>>
  BY <1>t, StateFacts
<1>1. ASSUME ~Drop(t) PROVE KeepsHead(t)
  <2>1. ASSUME NEW o \in Calls, Call(t, o) PROVE KeepsHead(t)
    <3>1. ~InQueue(t)
      BY <2>1 DEF Call, WaitInv, ReachInv
    <3> QED  BY <2>1, <3>1, <1>t DEF Call, Goto, word, locals, KeepsHead, TypeOK
  <2>2. ASSUME NEW o \in Calls, TryOnce(t, o) PROVE KeepsHead(t)
    <3>1. ~InQueue(t)
      BY <2>2 DEF TryOnce, WaitInv, ReachInv
    <3>2. acquired_count(o) \in Nat /\ acquired_count(o) # 0
      BY <2>2, LockOpcodeFacts, DataMaskAssumption DEF TryOnce
    <3>3. queue = <<>>
      BY <2>2, <3>2, <1>t, AttemptFacts DEF TryOnce, LockOpcodes
    <3> QED  BY <2>2, <3>1, <3>3, <1>t DEF TryOnce, Goto, locals, KeepsHead, TypeOK
  <2>3. CASE Poison(t)
    BY <2>3, <1>t DEF Poison, Goto, KeepsHead, TypeOK
  <2>4. CASE ReleasePoisoned(t)
    BY <2>4, <1>t DEF ReleasePoisoned, Goto, word, KeepsHead, TypeOK
  <2>5. CASE ClearPoison(t)
    <3>1. queue = <<>>
      BY <2>5, <1>s, PoisonedWord DEF ClearPoison
    <3> QED  BY <2>5, <3>1, <1>t DEF ClearPoison, locals, KeepsHead, TypeOK
  <2> QED  BY <1>1, <2>1, <2>2, <2>3, <2>4, <2>5 DEF Client
<1> QED  BY <1>1, <1>t, KeepsHeadInv, SyncStepHead

LEMMA LockHeadInvariant == Spec => []HeadInv
<1>1. Init => HeadInv
  BY DEF Init, SyncInit, HeadInv, NoStuckHead, PushHead
<1>2. LockWordInv /\ WaitInv /\ HeadInv /\ [Next]_vars => HeadInv'
  <2> SUFFICES ASSUME LockWordInv, WaitInv, HeadInv, [Next]_vars PROVE HeadInv'
    OBVIOUS
  <2>1. CASE UNCHANGED vars
    BY <2>1 DEF vars, HeadInv, NoStuckHead, PushHead, Admits, desired_count
  <2>2. CASE Next
    BY <2>2, SyncStepHead, LockStepHead, ClientHead DEF Next, LockWordInv
  <2> QED  BY <2>1, <2>2
<1> QED  BY <1>1, <1>2, LockWordInvariant, LockWaitInvariant, PTL DEF Spec

(* No lost wake-up: whenever process_wait_queue drops LOCKED_FLAG, and as  *)
(* long as nobody takes it, the oldest entry could not be served.          *)
THEOREM LockNoStuckHead == Spec => []NoStuckHead
<1>1. HeadInv => NoStuckHead
  BY DEF HeadInv
<1> QED  BY <1>1, LockHeadInvariant, PTL

-----------------------------------------------------------------------------
(* Entries that were told, or are about to be told, that the lock is       *)
(* poisoned.                                                               *)
PoisonPending(t) == \E p \in Tasks : pc[p] = "poisoning" /\ InList(p, t)
Told(t) == result[t] = POISONED \/ PoisonPending(t)

(* A task outside has the default opcode; only droppable entries are       *)
(* dropped; the poisoned news reaches whoever wants to own the lock while  *)
(* it waits, and keeps a droppable one from leaving: its drop waits for a  *)
(* flag that nobody clears.  Without poisoners the flag has a worker.      *)
TaskInv(t) ==
    /\ pc[t] = "idle" => op[t] = Exclusive
    /\ pc[t] \in {"cancel", "remove", "complete"} \/ then[t] = "complete" => t \in Cancellable
ToldInv(t) ==
    Told(t) /\ acquired(t) > 0 =>
        /\ pc[t] \in {"wait", "cancel"}
        /\ t \in Cancellable => Clearers = {} /\ State = POISONED_STATE
NoPoison == Poisoners = {} /\ locked => \E t \in Tasks : Processing(t)

PoisonInv == NoPoison /\ \A t \in Tasks : TaskInv(t) /\ ToldInv(t)

(* Droppable entries, poisoners and clearers do not come together: with    *)
(* all three, a task that drops an entry that was told POISONED releases a *)
(* lock it never held (the finding drop_poisoned).                         *)
DropSafe == Cancellable = {} \/ Poisoners = {} \/ Clearers = {}

LEMMA ToldFacts ==
    ASSUME WaitInv, NEW t \in Tasks
    PROVE  /\ ~Inside(t) => ~Told(t)
           /\ InQueue(t) => ~Told(t)
           /\ result[t] # NoResult => ~PoisonPending(t)
<1>1. PoisonPending(t) => Pending(t)
  BY DEF PoisonPending, Pending, InList
<1> QED  BY <1>1 DEF WaitInv, ReachInv, Told

-----------------------------------------------------------------------------
(* A step of t after which no more tasks than before are told. *)
TellsNobody(t) ==
    /\ \A p \in Tasks \ {t} : /\ pc'[p] = pc[p] /\ resolved'[p] = resolved[p]
                              /\ op'[p] = op[p] /\ then'[p] = then[p]
    /\ \A u \in Tasks : result'[u] = POISONED => result[u] = POISONED
    /\ pc'[t] # "poisoning"

(* What it has to see to for t itself and for the flag. *)
OwnPart(t) ==
    /\ TaskInv(t)'
    /\ Told(t) /\ Told(t)' => op'[t] = op[t] /\ (acquired(t) > 0 => pc'[t] \in {"wait", "cancel"})
    /\ locked' => Processing(t)' \/ (locked /\ ~Processing(t))
    /\ State = POISONED_STATE /\ Clearers = {} => State' = POISONED_STATE

LEMMA TellsNobodyTold ==
    ASSUME NEW t \in Tasks, TellsNobody(t), NEW u \in Tasks, Told(u)'
    PROVE  Told(u)
<1>1. CASE result'[u] = POISONED
  BY <1>1 DEF TellsNobody, Told
<1>2. CASE PoisonPending(u)'
  <2>1. PICK p \in Tasks : pc'[p] = "poisoning" /\ InList(p, u)'
    BY <1>2 DEF PoisonPending
  <2>2. p # t /\ pc[p] = "poisoning" /\ resolved'[p] = resolved[p]
    BY <2>1 DEF TellsNobody
  <2>3. InList(p, u)
    BY <2>1, <2>2 DEF InList
  <2> QED  BY <2>2, <2>3 DEF Told, PoisonPending
<1> QED  BY <1>1, <1>2 DEF Told

(* The flag keeps a worker. *)
LEMMA FlagKept ==
    ASSUME NEW t \in Tasks, NoPoison, \A p \in Tasks \ {t} : pc'[p] = pc[p],
           locked' => Processing(t)' \/ (locked /\ ~Processing(t))
    PROVE  NoPoison'
<1> SUFFICES ASSUME Poisoners = {}, locked' PROVE \E u \in Tasks : Processing(u)'
  BY DEF NoPoison
<1>1. CASE locked /\ ~Processing(t)
  <2>1. PICK u \in Tasks : Processing(u)
    BY <1>1 DEF NoPoison
  <2>2. Processing(u)'
    BY <2>1, <1>1 DEF Processing
  <2> QED  BY <2>2
<1> QED  BY <1>1

LEMMA QuietPoison ==
    ASSUME PoisonInv, NEW t \in Tasks, TellsNobody(t), OwnPart(t)
    PROVE  PoisonInv'
<1>1. NoPoison'
  BY FlagKept DEF PoisonInv, TellsNobody, OwnPart
<1>2. ASSUME NEW u \in Tasks PROVE TaskInv(u)'
  BY DEF PoisonInv, TaskInv, TellsNobody, OwnPart
<1>3. ASSUME NEW u \in Tasks PROVE ToldInv(u)'
  <2> SUFFICES ASSUME Told(u)', acquired(u)' > 0
               PROVE  /\ pc'[u] \in {"wait", "cancel"}
                      /\ u \in Cancellable => Clearers = {} /\ State' = POISONED_STATE
    BY DEF ToldInv, POISONED_STATE, Word
  <2>1. Told(u)
    BY TellsNobodyTold
  <2>2. op'[u] = op[u]
    BY <2>1 DEF TellsNobody, OwnPart
  <2>3. acquired(u) > 0
    BY <2>2 DEF acquired, acquired_count
  <2>4. /\ pc[u] \in {"wait", "cancel"}
        /\ u \in Cancellable => Clearers = {} /\ State = POISONED_STATE
    BY <2>1, <2>3 DEF PoisonInv, ToldInv
  <2> QED  BY <2>1, <2>3, <2>4 DEF TellsNobody, OwnPart
<1> QED  BY <1>1, <1>2, <1>3 DEF PoisonInv

-----------------------------------------------------------------------------
LEMMA PoisonedStays ==
    ASSUME LockWordInv, NEW t \in Tasks, Clearers = {}, State = POISONED_STATE,
           SyncStep(t) \/ LockStep(t) \/ Client(t)
    PROVE  State' = POISONED_STATE
<1>1. data' = data /\ locked' = locked /\ queue' = queue
  BY PoisonedSyncStep, PoisonedLockStep DEF Client, ClearPoison
<1> QED  BY <1>1 DEF State, POISONED_STATE, Word

(* A task that returns tells nobody. *)
LEMMA ReturnFacts ==
    ASSUME TypeOK, NEW t \in Tasks, Return(t),
           result' = result \/ result' = [result EXCEPT ![t] = NoResult]
    PROVE  pc'[t] = "idle" /\ op'[t] = Exclusive /\ TellsNobody(t) /\ TaskInv(t)' /\ ~Processing(t)'
<1>1. /\ pc'[t] = "idle" /\ op'[t] = Exclusive /\ then'[t] = "idle" /\ resolved' = resolved
      /\ \A p \in Tasks \ {t} : pc'[p] = pc[p] /\ op'[p] = op[p] /\ then'[p] = then[p]
  BY DEF Return, Goto, TypeOK
<1>2. \A u \in Tasks : result'[u] = POISONED => result[u] = POISONED
  BY DEF TypeOK
<1> QED  BY <1>1, <1>2 DEF TellsNobody, TaskInv, Processing

LEMMA SyncStepPoison ==
    ASSUME LockWordInv, WaitInv, PoisonInv, NEW t \in Tasks, SyncStep(t) \/ Drop(t)
    PROVE  PoisonInv'
<1>t. WordInv /\ TypeOK
  BY DEF LockWordInv, WordInv
<1>y. /\ pc \in [Tasks -> Labels] /\ then \in [Tasks -> {"idle", "complete"}]
      /\ result \in [Tasks -> {NoResult, ACQUIRED, POISONED}]
  BY <1>t DEF TypeOK
<1>p. State = POISONED_STATE /\ Clearers = {} => State' = POISONED_STATE
  BY PoisonedStays DEF Client
<1>i. /\ TaskInv(t)
      /\ Told(t) /\ acquired(t) > 0 =>
           pc[t] \in {"wait", "cancel"} /\ (t \in Cancellable => State = POISONED_STATE)
  BY DEF PoisonInv, ToldInv
<1>w. State = POISONED_STATE => locked
  BY <1>t, StateFacts, PoisonedWord
<1>1. CASE PushOk(t) \/ PushFailed(t) \/ Release(t)
  <2>1. ~Told(t)
    BY <1>1, ToldFacts DEF Inside, PushOk, PushFailed, Release, ReleaseRefused, ReleaseInPlace,
       ReleaseAndProcess, ReleaseRetry
  <2>2. TellsNobody(t) /\ TaskInv(t)' /\ (locked' => Processing(t)' \/ (locked /\ ~Processing(t)))
    <3>1. CASE PushOk(t) \/ PushFailed(t)
      <4>1. /\ pc[t] = "push" /\ pc'[t] \in {"wait", "try"} /\ op' = op /\ then' = then
            /\ resolved' = resolved /\ result' = result /\ locked' = locked
            /\ \A p \in Tasks \ {t} : pc'[p] = pc[p]
        BY <3>1, <1>t DEF PushOk, PushFailed, Goto, TypeOK
      <4> QED  BY <4>1, <1>i DEF TellsNobody, TaskInv, Processing
    <3>2. CASE ReleaseRefused(t) \/ ReleaseInPlace(t)
      <4>1. Return(t) /\ result' = result /\ locked' = locked /\ pc[t] = "release"
        BY <3>2 DEF ReleaseRefused, ReleaseInPlace, word
      <4>2. TellsNobody(t) /\ TaskInv(t)'
        BY <4>1, <1>t, ReturnFacts
      <4> QED  BY <4>1, <4>2 DEF Processing
    <3>3. CASE ReleaseAndProcess(t) \/ ReleaseRetry(t)
      <4>1. /\ pc[t] = "release" /\ pc'[t] \in {"release", "pwq"} /\ \A p \in Tasks \ {t} : pc'[p] = pc[p]
            /\ op' = op /\ resolved' = resolved /\ result' = result
            /\ then' = then \/ then' = [then EXCEPT ![t] = "idle"]
            /\ locked' => pc'[t] = "pwq" \/ locked
        <5>1. CASE ReleaseAndProcess(t)
          BY <5>1, <1>y DEF ReleaseAndProcess, Goto
        <5>2. CASE ReleaseRetry(t)
          BY <5>2, <1>y DEF ReleaseRetry, word
        <5> QED  BY <3>3, <5>1, <5>2
      <4> QED  BY <4>1, <1>y, <1>i DEF TellsNobody, TaskInv, Processing
    <3> QED  BY <1>1, <3>1, <3>2, <3>3 DEF Release
  <2> QED  BY <2>1, <2>2, <1>p, QuietPoison DEF OwnPart
<1>2. CASE Process(t)
  <2>1. pc[t] \in {"pwq", "pwq_add", "resolve_more", "resolve_done"}
    BY <1>2 DEF Process, PwqVisit, PwqReset, PwqResetFailed, PwqUnlock, PwqUnlockFailed, PwqAdd,
       Resolve, PwqContinue, PwqReturn
  <2>2. op'[t] = op[t] \/ ~Told(t)
    <3>1. CASE PwqReturn(t) /\ then[t] = "idle"
      BY <3>1, <2>1, ToldFacts DEF Inside
    <3> QED  BY <1>2, <3>1 DEF Process, PwqVisit, PwqReset, PwqResetFailed, PwqUnlock,
       PwqUnlockFailed, PwqAdd, Resolve, SetResult, PwqContinue, PwqReturn
  <2>3. TellsNobody(t) /\ TaskInv(t)' /\ (locked' => Processing(t)' \/ (locked /\ ~Processing(t)))
    <3>1. CASE PwqVisit(t) \/ PwqReset(t)
      BY <3>1, <1>t, <1>i DEF PwqVisit, PwqReset, Goto, TypeOK, TellsNobody, TaskInv, Processing
    <3>2. CASE PwqUnlock(t) \/ PwqAdd(t)
      BY <3>2, <1>t, <1>i DEF PwqUnlock, PwqAdd, Goto, TypeOK, TellsNobody, TaskInv, Processing
    <3>3. CASE PwqResetFailed(t) \/ PwqUnlockFailed(t) \/ PwqContinue(t)
      BY <3>3, <1>t, <1>i DEF PwqResetFailed, PwqUnlockFailed, PwqContinue, Goto, word, locals,
         TypeOK, TellsNobody, TaskInv, Processing
    <3>4. CASE PwqReturn(t)
      BY <3>4, <1>t, <1>i DEF PwqReturn, Return, Goto, word, locals, TypeOK, TellsNobody, TaskInv,
         Processing
    <3>5. CASE Resolve(t)
      BY <3>5, <1>t, <1>i DEF Resolve, SetResult, word, TypeOK, TellsNobody, TaskInv, Processing
    <3> QED  BY <1>2, <3>1, <3>2, <3>3, <3>4, <3>5 DEF Process
  <2> QED  BY <2>1, <2>2, <2>3, <1>i, <1>p, QuietPoison DEF OwnPart
<1>3. CASE Cancel(t) \/ Drop(t)
  <2>1. pc[t] \in {"wait", "cancel", "remove", "complete"} /\ t \in Cancellable
    BY <1>3, <1>i DEF Cancel, CancelEmpty, CancelLock, RemoveInner, RemoveTail, RemoveSole,
       RemoveRetry, RemoveMissing, Complete, Drop, TaskInv
  <2>2. Told(t) => op'[t] = op[t] /\ (acquired(t) > 0 => pc'[t] \in {"wait", "cancel"})
    <3>1. CASE Drop(t)
      BY <3>1, <1>t DEF Drop, Goto, TypeOK
    <3>2. CASE CancelEmpty(t) \/ CancelLock(t)
      BY <3>2, <2>1, <1>i, <1>w DEF CancelEmpty, CancelLock
    <3>3. CASE RemoveInner(t) \/ RemoveTail(t) \/ RemoveRetry(t) \/ RemoveMissing(t) \/ Complete(t)
      BY <3>3, <1>i DEF RemoveInner, RemoveTail, RemoveRetry, RemoveMissing, Complete
    <3>4. CASE RemoveSole(t)
      <4>1. InQueue(t)
        <5>1. t = State.tail /\ t # NoTask
          BY <3>4, TasksAssumption DEF RemoveSole
        <5> QED  BY <5>1, <1>t, StateFacts DEF InQueue
      <4> QED  BY <4>1, ToldFacts
    <3> QED  BY <1>3, <3>1, <3>2, <3>3, <3>4 DEF Cancel
  <2>3. TellsNobody(t) /\ TaskInv(t)' /\ (locked' => Processing(t)' \/ (locked /\ ~Processing(t)))
    <3>1. CASE Drop(t) \/ CancelEmpty(t) \/ CancelLock(t)
      <4>1. /\ pc'[t] \in {"cancel", "complete", "remove"} /\ \A p \in Tasks \ {t} : pc'[p] = pc[p]
            /\ op' = op /\ then' = then /\ resolved' = resolved /\ result' = result
            /\ locked' => pc'[t] = "remove" \/ (locked /\ pc[t] # "remove")
        <5>1. CASE Drop(t)
          BY <5>1, <1>y DEF Drop, Goto, word, locals
        <5>2. CASE CancelEmpty(t)
          BY <5>2, <1>y DEF CancelEmpty, Goto, word
        <5>3. CASE CancelLock(t)
          BY <5>3, <1>y DEF CancelLock, Goto
        <5> QED  BY <3>1, <5>1, <5>2, <5>3
      <4> QED  BY <4>1, <2>1, <1>y DEF TellsNobody, TaskInv, Processing
    <3>5. CASE Complete(t)
      <4>1. /\ pc[t] = "complete" /\ pc' = [pc EXCEPT ![t] = "release"] /\ op' = op /\ then' = then
            /\ resolved' = resolved /\ locked' = locked /\ result' = [result EXCEPT ![t] = NoResult]
        BY <3>5 DEF Complete, Goto, word
      <4>2. \A u \in Tasks : result'[u] = POISONED => result[u] = POISONED
        BY <4>1, <1>y
      <4> QED  BY <4>1, <4>2, <2>1, <1>y DEF TellsNobody, TaskInv, Processing
    <3>2. CASE RemoveInner(t) \/ RemoveTail(t) \/ RemoveRetry(t) \/ RemoveMissing(t)
      BY <3>2, <2>1, <1>t, <1>i DEF RemoveInner, RemoveTail, RemoveRetry, RemoveMissing, Goto, word,
         TypeOK, TellsNobody, TaskInv, Processing
    <3>3. CASE RemoveSole(t)
      <4>1. Return(t) /\ result' = result /\ locked' = FALSE
        BY <3>3 DEF RemoveSole
      <4>2. TellsNobody(t) /\ TaskInv(t)'
        BY <4>1, <1>t, ReturnFacts
      <4> QED  BY <4>1, <4>2
    <3> QED  BY <1>3, <3>1, <3>2, <3>3, <3>5 DEF Cancel
  <2> QED  BY <2>2, <2>3, <1>p, QuietPoison DEF OwnPart
<1> QED  BY <1>1, <1>2, <1>3 DEF SyncStep

-----------------------------------------------------------------------------
LEMMA TellsNobodyPending ==
    ASSUME NEW t \in Tasks, TellsNobody(t), NEW u \in Tasks, PoisonPending(u)'
    PROVE  PoisonPending(u)
<1>1. PICK p \in Tasks : pc'[p] = "poisoning" /\ InList(p, u)'
  BY DEF PoisonPending
<1>2. p # t /\ pc[p] = "poisoning" /\ resolved'[p] = resolved[p]
  BY <1>1 DEF TellsNobody
<1>3. InList(p, u)
  BY <1>1, <1>2 DEF InList
<1> QED  BY <1>2, <1>3 DEF PoisonPending

(* A step of somebody outside, or of somebody who consumes a result. *)
Leaves(t) ==
    /\ ~Inside(t) \/ (result[t] # NoResult /\ result'[t] = NoResult)
    /\ TellsNobody(t) /\ TaskInv(t)' /\ ~Processing(t)
    /\ locked' => locked

LEMMA LeavesPoison ==
    ASSUME LockWordInv, WaitInv, PoisonInv, NEW t \in Tasks, Leaves(t),
           LockStep(t) \/ Client(t)
    PROVE  PoisonInv'
<1>1. ~Told(t) \/ ~Told(t)'
  <2>1. CASE ~Inside(t)
    BY <2>1, ToldFacts
  <2>2. CASE result[t] # NoResult /\ result'[t] = NoResult
    <3>1. ~PoisonPending(t)
      BY <2>2, ToldFacts
    <3>2. TellsNobody(t)
      BY DEF Leaves
    <3>3. ~PoisonPending(t)'
      BY <3>1, <3>2, TellsNobodyPending
    <3> QED  BY <3>3, <2>2 DEF Told
  <2> QED  BY <2>1, <2>2 DEF Leaves
<1>2. State = POISONED_STATE /\ Clearers = {} => State' = POISONED_STATE
  BY PoisonedStays
<1>3. OwnPart(t)
  BY <1>1, <1>2 DEF OwnPart, Leaves
<1> QED  BY <1>3, QuietPoison DEF Leaves

(* The state of a lock that nobody poisons is never the poisoned one. *)
LEMMA PoisonedBySomebody ==
    ASSUME LockWordInv, PoisonInv, State = POISONED_STATE
    PROVE  Poisoners # {}
<1>1. locked /\ \A t \in Tasks : ~Processing(t)
  BY PoisonedQuiet
<1> QED  BY <1>1 DEF PoisonInv, NoPoison

(* Everybody who is told now was told, or has the droppable entry of a     *)
(* lock that stays poisoned.                                               *)
LEMMA NewsPoison ==
    ASSUME PoisonInv, NoPoison', \A u \in Tasks : TaskInv(u)', op' = op,
           State = POISONED_STATE => State' = POISONED_STATE,
           \A u \in Tasks : Told(u)' =>
               \/ Told(u) /\ pc'[u] = pc[u]
               \/ acquired(u) > 0 => /\ pc'[u] \in {"wait", "cancel"}
                                     /\ u \in Cancellable => Clearers = {} /\ State' = POISONED_STATE
    PROVE  PoisonInv'
<1> SUFFICES ASSUME NEW u \in Tasks, Told(u)', acquired(u)' > 0
             PROVE  /\ pc'[u] \in {"wait", "cancel"}
                    /\ u \in Cancellable => Clearers = {} /\ State' = POISONED_STATE
  BY DEF PoisonInv, ToldInv, POISONED_STATE, Word
<1>1. acquired(u) > 0
  BY DEF acquired, acquired_count
<1>2. ToldInv(u)
  BY DEF PoisonInv
<1> QED  BY <1>1, <1>2 DEF ToldInv

LEMMA TryPoisonedPoison ==
    ASSUME LockWordInv, WaitInv, PoisonInv, DropSafe, NEW t \in Tasks, TryPoisoned(t), t \in Pagers
    PROVE  PoisonInv'
<1>t. WordInv /\ TypeOK /\ op[t] \in LockOpcodes
  BY DEF LockWordInv, WordInv, OpsInv
<1>0. /\ pc[t] = "try" /\ Attempt(op[t]) = POISONED /\ pc'[t] = "wait"
      /\ op' = op /\ then' = then /\ resolved' = resolved /\ locked' = locked
      /\ data' = data /\ queue' = queue
      /\ \A u \in Tasks \ {t} : pc'[u] = pc[u] /\ result'[u] = result[u]
  BY <1>t DEF TryPoisoned, Goto, TypeOK, word, locals
<1>1. State' = State
  BY <1>0 DEF State, Word
<1>2. acquired(t) > 0 => State = POISONED_STATE
  <2>1. CASE op[t] = Exclusive
    BY <2>1, <1>0, LockOpcodeFacts DEF Attempt, try_lock_internal
  <2>2. CASE op[t] = Shared
    BY <2>2, <1>0, LockOpcodeFacts DEF Attempt, try_share_internal
  <2>3. CASE op[t] = WaitExclusive \/ op[t] = WaitShared
    BY <2>3, LockOpcodeFacts DEF acquired
  <2> QED  BY <1>t, <2>1, <2>2, <2>3 DEF LockOpcodes
<1>3. acquired(t) > 0 /\ t \in Cancellable => Clearers = {} /\ State' = POISONED_STATE
  BY <1>1, <1>2, PoisonedBySomebody DEF DropSafe
<1>4. \A u \in Tasks \ {t} : Told(u)' => Told(u) /\ pc'[u] = pc[u]
  <2> SUFFICES ASSUME NEW u \in Tasks \ {t}, Told(u)' PROVE Told(u)
    BY <1>0
  <2>1. PoisonPending(u)' => PoisonPending(u)
    <3>1. \A p \in Tasks : InList(p, u)' <=> InList(p, u)
      BY <1>0 DEF InList
    <3> QED  BY <3>1, <1>0 DEF PoisonPending
  <2> QED  BY <2>1, <1>0 DEF Told
<1>5. NoPoison'
  <2>1. ~Processing(t)
    BY <1>0 DEF Processing
  <2> QED  BY <2>1, <1>0, FlagKept DEF PoisonInv
<1>6. \A u \in Tasks : TaskInv(u)'
  BY <1>0 DEF PoisonInv, TaskInv
<1> QED  BY <1>0, <1>1, <1>3, <1>4, <1>5, <1>6, NewsPoison

LEMMA PoisonResolvePoison ==
    ASSUME LockWordInv, WaitInv, PoisonInv, NEW t \in Tasks, PoisonResolve(t)
    PROVE  PoisonInv'
<1>0. /\ resolved[t] \in Seq(Tasks) /\ resolved[t] # <<>> /\ resolved \in [Tasks -> Seq(Tasks)]
      /\ result \in [Tasks -> {NoResult, ACQUIRED, POISONED}]
      /\ pc[t] = "poisoning" /\ pc' = pc /\ op' = op /\ then' = then
      /\ locked' = locked /\ data' = data /\ queue' = queue
  BY DEF LockWordInv, WordInv, TypeOK, PoisonResolve, SetResult, word
<1>n. PICK n \in Nat : n = Len(resolved[t])
  BY <1>0
<1>k. PICK k \in Tasks : k = resolved[t][n]
  BY <1>0, <1>n
<1>1. /\ n >= 1 /\ result' = [result EXCEPT ![k] = POISONED]
      /\ Len(resolved'[t]) = n - 1 /\ \A i \in 1..(n - 1) : resolved'[t][i] = resolved[t][i]
      /\ \A u \in Tasks \ {t} : resolved'[u] = resolved[u]
  BY <1>0, <1>n, <1>k, FrontFacts DEF PoisonResolve, SetResult
<1>2. n = Len(resolved[t]) /\ k = resolved[t][n] /\ n \in 1..n
  BY <1>1, <1>n, <1>k
<1>3. InList(t, k)
  BY <1>2 DEF InList
<1>4. \A p, u \in Tasks : InList(p, u)' => InList(p, u)
  <2>1. ASSUME NEW u \in Tasks, InList(t, u)' PROVE InList(t, u)
    <3>1. PICK i \in 1..(n - 1) : resolved'[t][i] = u
      BY <2>1, <1>1 DEF InList
    <3>2. i \in 1..n /\ resolved[t][i] = u
      BY <3>1, <1>1
    <3> QED  BY <3>2, <1>2 DEF InList
  <2>2. ASSUME NEW p \in Tasks, p # t, NEW u \in Tasks PROVE InList(p, u)' <=> InList(p, u)
    BY <2>2, <1>1 DEF InList
  <2> QED  BY <2>1, <2>2
<1>5. ASSUME NEW u \in Tasks, Told(u)' PROVE Told(u)
  <2>1. PoisonPending(k)
    BY <1>0, <1>3 DEF PoisonPending
  <2>2. PoisonPending(u)' => PoisonPending(u)
    BY <1>0, <1>4 DEF PoisonPending
  <2>3. u # k => result'[u] = result[u]
    BY <1>0, <1>1
  <2> QED  BY <1>5, <2>1, <2>2, <2>3 DEF Told
<1>6. State' = State
  BY <1>0 DEF State, Word
<1>7. NoPoison' /\ \A u \in Tasks : TaskInv(u)'
  BY <1>0 DEF PoisonInv, NoPoison, TaskInv, Processing
<1> QED  BY <1>0, <1>5, <1>6, <1>7, NewsPoison

LEMMA PoisonPoison ==
    ASSUME LockWordInv, WaitInv, PoisonInv, DropSafe, NEW t \in Tasks, Poison(t)
    PROVE  PoisonInv'
<1>t. WordInv /\ TypeOK
  BY DEF LockWordInv, WordInv
<1>0. /\ pc[t] = "own" /\ t \in Poisoners /\ ~locked /\ pc'[t] = "poisoning"
      /\ op' = op /\ then' = then /\ result' = result
      /\ \A u \in Tasks \ {t} : pc'[u] = pc[u] /\ resolved'[u] = resolved[u]
      /\ resolved'[t] = queue
  BY <1>t DEF Poison, Goto, TypeOK
<1>1. State' = POISONED_STATE
  BY DEF Poison, State, POISONED_STATE
<1>2. \A u \in Tasks : ~Processing(u)
  BY <1>0, <1>t, Worker
<1>3. ASSUME NEW u \in Tasks, InQueue(u)
      PROVE  /\ pc'[u] \in {"wait", "cancel"}
             /\ u \in Cancellable => Clearers = {} /\ State' = POISONED_STATE
  <2>1. pc[u] \in {"wait", "cancel", "remove"}
    BY <1>3 DEF WaitInv, ReachInv
  <2>2. pc[u] # "remove" /\ u # t
    BY <2>1, <1>0, <1>2 DEF Processing
  <2> QED  BY <2>1, <2>2, <1>0, <1>1 DEF DropSafe
<1>4. ASSUME NEW u \in Tasks, Told(u)', ~InQueue(u) PROVE Told(u) /\ pc'[u] = pc[u]
  <2>1. PoisonPending(u)' => PoisonPending(u)
    <3> SUFFICES ASSUME PoisonPending(u)' PROVE PoisonPending(u)
      OBVIOUS
    <3>1. PICK p \in Tasks : pc'[p] = "poisoning" /\ InList(p, u)'
      BY DEF PoisonPending
    <3>2. p # t
      BY <3>1, <1>0, <1>4 DEF InList, InQueue
    <3>3. InList(p, u) /\ pc[p] = "poisoning"
      BY <3>1, <3>2, <1>0 DEF InList
    <3> QED  BY <3>3 DEF PoisonPending
  <2>2. Told(u)
    BY <2>1, <1>0, <1>4 DEF Told
  <2>3. u # t
    BY <2>2, <1>0, ToldFacts DEF Inside
  <2> QED  BY <2>2, <2>3, <1>0
<1>5. NoPoison'
  BY <1>0 DEF NoPoison
<1>6. \A u \in Tasks : TaskInv(u)'
  BY <1>0 DEF PoisonInv, TaskInv
<1> QED  BY <1>0, <1>1, <1>3, <1>4, <1>5, <1>6, NewsPoison

LEMMA LockStepPoison ==
    ASSUME LockWordInv, WaitInv, PoisonInv, DropSafe, NEW t \in Tasks, LockStep(t)
    PROVE  PoisonInv'
<1>t. WordInv /\ TypeOK
  BY DEF LockWordInv, WordInv
<1>y. /\ pc \in [Tasks -> Labels] /\ result \in [Tasks -> {NoResult, ACQUIRED, POISONED}]
  BY <1>t DEF TypeOK
<1>i. TaskInv(t)
  BY DEF PoisonInv
<1>1. CASE TryAcquired(t)
  <2>1. /\ pc[t] = "try" /\ pc'[t] \in {"wait", "own"} /\ \A p \in Tasks \ {t} : pc'[p] = pc[p]
        /\ locked' = locked /\ op' = op /\ then' = then /\ resolved' = resolved
        /\ \A u \in Tasks : result'[u] = result[u] \/ result'[u] = ACQUIRED
    BY <1>1, <1>y DEF TryAcquired, Goto, locals
  <2>2. TellsNobody(t) /\ TaskInv(t)' /\ ~Processing(t) /\ ~Inside(t)
    BY <2>1, <1>i DEF TellsNobody, TaskInv, Processing, Inside
  <2> QED  BY <2>1, <2>2, LeavesPoison DEF Leaves
<1>2. CASE (TryPoisoned(t) /\ t \notin Pagers) \/ PoisonReturn(t) \/ ReleaseFast(t)
  <2>1. /\ Return(t) /\ result' = result /\ locked' = locked
        /\ pc[t] \in {"try", "own", "poisoning"}
    BY <1>2 DEF TryPoisoned, PoisonReturn, ReleaseFast, word
  <2>2. TellsNobody(t) /\ TaskInv(t)'
    BY <2>1, <1>t, ReturnFacts
  <2>3. ~Processing(t) /\ ~Inside(t)
    BY <2>1 DEF Processing, Inside
  <2> QED  BY <2>1, <2>2, <2>3, LeavesPoison DEF Leaves
<1>3. CASE TryPoisoned(t) /\ t \in Pagers
  BY <1>3, TryPoisonedPoison
<1>4. CASE TryBlocked(t) \/ ReleaseSlow(t)
  <2>1. /\ pc[t] \in {"try", "own"} /\ pc'[t] \in {"push", "release"}
        /\ \A p \in Tasks \ {t} : pc'[p] = pc[p]
        /\ locked' = locked /\ op' = op /\ then' = then /\ resolved' = resolved /\ result' = result
    BY <1>4, <1>y DEF TryBlocked, ReleaseSlow, Goto, word
  <2>2. TellsNobody(t) /\ TaskInv(t)' /\ ~Processing(t) /\ ~Inside(t)
    BY <2>1, <1>i DEF TellsNobody, TaskInv, Processing, Inside
  <2> QED  BY <2>1, <2>2, LeavesPoison DEF Leaves
<1>5. CASE Poll(t)
  <2>1. /\ pc[t] = "wait" /\ result[t] # NoResult /\ result' = [result EXCEPT ![t] = NoResult]
        /\ locked' = locked
    BY <1>5 DEF Poll, word
  <2>2. CASE Return(t)
    <3>1. TellsNobody(t) /\ TaskInv(t)'
      BY <2>1, <2>2, <1>t, ReturnFacts
    <3> QED  BY <2>1, <3>1, <1>y, LeavesPoison DEF Leaves, Processing
  <2>3. CASE ~Return(t)
    <3>1. /\ pc' = [pc EXCEPT ![t] = "own"] /\ op' = op /\ then' = then /\ resolved' = resolved
      BY <1>5, <2>3 DEF Poll, Goto, locals
    <3>2. \A u \in Tasks : result'[u] = POISONED => result[u] = POISONED
      BY <2>1, <1>y
    <3>3. TellsNobody(t) /\ TaskInv(t)'
      BY <3>1, <3>2, <1>i, <1>y DEF TellsNobody, TaskInv
    <3> QED  BY <2>1, <3>3, <1>y, LeavesPoison DEF Leaves, Processing
  <2> QED  BY <2>2, <2>3
<1>6. CASE PoisonResolve(t)
  BY <1>6, PoisonResolvePoison
<1> QED  BY <1>1, <1>2, <1>3, <1>4, <1>5, <1>6 DEF LockStep

LEMMA ClientPoison ==
    ASSUME LockWordInv, WaitInv, PoisonInv, DropSafe, NEW t \in Tasks, Client(t)
    PROVE  PoisonInv'
<1>y. pc \in [Tasks -> Labels] /\ op \in [Tasks -> Opcodes]
  BY DEF LockWordInv, WordInv, TypeOK
<1>i. TaskInv(t)
  BY DEF PoisonInv
<1>1. CASE Drop(t)
  BY <1>1, SyncStepPoison
<1>2. CASE Poison(t)
  BY <1>2, PoisonPoison
<1>3. CASE \E o \in Calls : Call(t, o) \/ TryOnce(t, o)
  <2>1. /\ pc[t] = "idle" /\ pc'[t] \in {"try", "own"} /\ \A p \in Tasks \ {t} : pc'[p] = pc[p]
        /\ locked' = locked /\ then' = then /\ resolved' = resolved /\ result' = result
        /\ \A p \in Tasks \ {t} : op'[p] = op[p]
    BY <1>3, <1>y DEF Call, TryOnce, Goto, word, locals
  <2>2. TellsNobody(t) /\ TaskInv(t)' /\ ~Processing(t) /\ ~Inside(t)
    BY <2>1, <1>i DEF TellsNobody, TaskInv, Processing, Inside
  <2> QED  BY <2>1, <2>2, LeavesPoison DEF Leaves
<1>4. CASE ReleasePoisoned(t)
  <2>1. /\ pc[t] = "idle" /\ pc' = [pc EXCEPT ![t] = "release"]
        /\ locked' = locked /\ op' = op /\ then' = then /\ resolved' = resolved /\ result' = result
    BY <1>4 DEF ReleasePoisoned, Goto, word
  <2>2. TellsNobody(t) /\ TaskInv(t)' /\ ~Processing(t) /\ ~Inside(t)
    BY <2>1, <1>i, <1>y DEF TellsNobody, TaskInv, Processing, Inside
  <2> QED  BY <2>1, <2>2, LeavesPoison DEF Leaves
<1>5. CASE ClearPoison(t)
  <2>1. /\ pc[t] \in {"idle", "own"} /\ pc' = pc /\ ~locked'
        /\ op' = op /\ then' = then /\ resolved' = resolved /\ result' = result
    BY <1>5 DEF ClearPoison, locals
  <2>2. TellsNobody(t) /\ TaskInv(t)' /\ ~Processing(t) /\ ~Inside(t)
    BY <2>1, <1>i DEF TellsNobody, TaskInv, Processing, Inside
  <2> QED  BY <2>1, <2>2, LeavesPoison DEF Leaves
<1> QED  BY <1>1, <1>2, <1>3, <1>4, <1>5 DEF Client

LEMMA LockPoisonInvariant == DropSafe => (Spec => []PoisonInv)
<1> SUFFICES ASSUME DropSafe PROVE Spec => []PoisonInv
  OBVIOUS
<1>1. Init => PoisonInv
  <2> SUFFICES ASSUME Init PROVE PoisonInv
    OBVIOUS
  <2>1. \A t \in Tasks : /\ pc[t] = "idle" /\ op[t] = Exclusive /\ then[t] = "idle"
                         /\ result[t] = NoResult
    BY DEF Init, SyncInit
  <2>2. \A t \in Tasks : ~Told(t)
    BY <2>1 DEF Told, PoisonPending
  <2>3. ~locked
    BY DEF Init, SyncInit
  <2> QED  BY <2>1, <2>2, <2>3 DEF PoisonInv, NoPoison, TaskInv, ToldInv
<1>2. LockWordInv /\ WaitInv /\ PoisonInv /\ [Next]_vars => PoisonInv'
  <2> SUFFICES ASSUME LockWordInv, WaitInv, PoisonInv, [Next]_vars PROVE PoisonInv'
    OBVIOUS
  <2>1. CASE UNCHANGED vars
    <3>1. /\ pc' = pc /\ op' = op /\ then' = then /\ result' = result /\ resolved' = resolved
          /\ State' = State /\ locked' = locked
      BY <2>1 DEF vars, State
    <3>2. \A t \in Tasks : /\ Told(t)' <=> Told(t)
                           /\ acquired(t)' = acquired(t)
                           /\ Processing(t)' <=> Processing(t)
      BY <3>1 DEF Told, PoisonPending, InList, acquired, acquired_count, Processing
    <3>3. NoPoison'
      BY <3>1, <3>2 DEF PoisonInv, NoPoison
    <3>4. \A t \in Tasks : TaskInv(t)'
      BY <3>1 DEF PoisonInv, TaskInv
    <3>5. \A t \in Tasks : ToldInv(t)'
      BY <3>1, <3>2 DEF PoisonInv, ToldInv, POISONED_STATE, Word
    <3> QED  BY <3>3, <3>4, <3>5 DEF PoisonInv
  <2>2. CASE Next
    BY <2>2, SyncStepPoison, LockStepPoison, ClientPoison DEF Next
  <2> QED  BY <2>1, <2>2
<1> QED  BY <1>1, <1>2, LockWordInvariant, LockWaitInvariant, PTL DEF Spec

-----------------------------------------------------------------------------
(* The count says which kind of ownership there is: it is only full when   *)
(* somebody has all of it.                                                 *)
ExclInv == Total(holds) <= max_shared_owners \/ \E t \in Tasks : holds[t] = DATA_MASK

LEMMA LockAcquired ==
    ASSUME LockWordInv, NEW t \in Tasks
    PROVE  \/ op[t] = Exclusive /\ acquired(t) = DATA_MASK
           \/ op[t] = Shared /\ acquired(t) = 1
           \/ op[t] \in {WaitExclusive, WaitShared} /\ acquired(t) = 0
  BY LockOpcodeFacts DEF LockWordInv, OpsInv, LockOpcodes, acquired

LEMMA LockMasks == DATA_MASK \in Nat /\ DATA_MASK >= 2 /\ max_shared_owners = DATA_MASK - 1
  BY DataMaskAssumption, LockAssumption

(* A task holds exactly what its operation was given. *)
LEMMA LockOwn ==
    ASSUME HoldsInv, NEW t \in Tasks
    PROVE  Exact /\ holds[t] = IF Granted(t) THEN acquired(t) ELSE 0
<1>1. Exact
  BY LockMasks DEF Exact
<1> QED  BY <1>1 DEF HoldsInv, LocalInv, Own

LEMMA LockCanGive ==
    ASSUME LockWordInv, HoldsInv, ExclInv
    PROVE  CanGive
<1> SUFFICES ASSUME NEW t \in Tasks, Granted(t), ~Open(t) PROVE can_release(op[t], data)
  BY DEF CanGive
<1>w. WordInv /\ data \in 0..DATA_MASK /\ holds \in [Tasks -> 0..DATA_MASK]
  BY Shape DEF LockWordInv, HoldsInv
<1>1. holds[t] = acquired(t) /\ holds[t] <= data
  BY <1>w, CommittedFacts, LockOwn
<1>2. CASE op[t] = Exclusive /\ acquired(t) = DATA_MASK
  <2>1. data = DATA_MASK
    BY <1>1, <1>2, <1>w, LockMasks
  <2> QED  BY <2>1, <1>2 DEF can_release, Exclusive
<1>3. CASE op[t] = Shared /\ acquired(t) = 1
  <2>1. data >= 1
    BY <1>1, <1>3, <1>w, LockMasks
  <2>2. data # DATA_MASK
    <3> SUFFICES ASSUME data = DATA_MASK PROVE FALSE
      OBVIOUS
    <3>1. Total(holds) \in 0..DATA_MASK /\ data <= Total(holds)
      BY <1>w, HeldBound
    <3>2. Total(holds) = DATA_MASK
      BY <3>1, LockMasks
    <3>3. PICK u \in Tasks : holds[u] = DATA_MASK
      BY <3>2, LockMasks DEF ExclInv
    <3>4. u # t
      BY <3>3, <1>1, <1>3, LockMasks
    <3>5. holds[u] + holds[t] <= Total(holds)
      BY <3>4, <1>w, TotalTwo
    <3> QED  BY <3>2, <3>3, <3>5, <1>1, <1>3, LockMasks
  <2> QED  BY <2>1, <2>2, <1>3 DEF can_release, Shared
<1>4. CASE op[t] \in {WaitExclusive, WaitShared}
  BY <1>4 DEF can_release, WaitExclusive, WaitShared, Wait
<1> QED  BY <1>2, <1>3, <1>4, LockAcquired

LEMMA LockNoPoisonedDrop ==
    ASSUME LockWordInv, PoisonInv
    PROVE  NoPoisonedDrop
<1> SUFFICES ASSUME NEW t \in Tasks, pc[t] = "complete", result[t] = POISONED
             PROVE  Exact /\ acquired(t) = 0
  BY DEF NoPoisonedDrop
<1>1. ~(acquired(t) > 0)
  BY DEF PoisonInv, ToldInv, Told
<1> QED  BY <1>1, LockAcquired, LockMasks DEF Exact

-----------------------------------------------------------------------------
(* A task outside takes units that fit. *)
Claims(t) ==
    /\ pc[t] \in {"try", "idle"}
    /\ pc'[t] = "own" \/ (pc'[t] = "wait" /\ result'[t] = ACQUIRED)
    /\ holds' = [holds EXCEPT ![t] = @ + acquired(t)'] /\ data' = data + acquired(t)'
    /\ SameOthers(t) /\ resolved' = resolved /\ transferred' = transferred

LEMMA ClaimsHolds ==
    ASSUME WordInv, WordInv', WaitInv, HoldsInv, NEW t \in Tasks, Claims(t)
    PROVE  HoldsInv' /\ holds[t] = 0
<1>a. acquired(t)' \in 0..DATA_MASK
  <2>1. op' \in [Tasks -> Opcodes]
    BY DEF WordInv, TypeOK
  <2> QED  BY <2>1, DataMaskAssumption DEF acquired, acquired_count, Opcodes
<1>b. PICK a \in 0..DATA_MASK : a = acquired(t)'
  BY <1>a
<1>0. holds \in [Tasks -> 0..DATA_MASK] /\ data \in 0..DATA_MASK
  BY Shape DEF HoldsInv
<1>1. ~Inside(t) /\ pc[t] \notin Lists
  BY DEF Claims, Inside, Lists
<1>2. /\ result[t] = NoResult /\ ~GrantPending(t) /\ ~Open(t) /\ resolved[t] = <<>>
  BY <1>1, Outside
<1>3. holds[t] = 0
  <2>1. ~Granted(t)
    BY <1>2 DEF Granted, Claims
  <2> QED  BY <2>1, LockOwn
<1>4. SameOthers(t) /\ SameLists(t)
  BY <1>2 DEF Claims, SameLists
<1>5. SameGrants
  BY <1>4, ListsGrants
<1>6. /\ holds' \in [Tasks -> 0..DATA_MASK] /\ holds'[t] = a
      /\ holds'[t] = holds[t] + a /\ a \in Int /\ data' = data + a
  <2>1. holds[t] + a = a
    BY <1>3
  <2>2. holds' = [holds EXCEPT ![t] = holds[t] + a]
    BY <1>b DEF Claims
  <2> QED  BY <2>1, <2>2, <1>0, <1>b, <1>3, DataMaskAssumption DEF Claims
<1>7. LocalInv(t)'
  <2>1. Granted(t)' /\ ~Leaving(t)'
    BY DEF Claims, Granted, Leaving
  <2>2. Own(t)' = a
    BY <2>1, <1>b DEF Own
  <2> QED  BY <2>1, <2>2, <1>6 DEF LocalInv, Exact
<1>8. Shifts(t, a)
  BY <1>2, <1>4, <1>5, <1>6, <1>7 DEF Shifts, Claims
<1> QED  BY <1>3, <1>6, <1>8, ShiftsHolds

LEMMA TryAcquiredHolds ==
    ASSUME LockWordInv, WordInv', WaitInv, HoldsInv, NEW t \in Tasks,
           TryAcquired(t) \/ \E o \in Calls : TryOnce(t, o)
    PROVE  HoldsInv'
<1>t. WordInv /\ TypeOK
  BY DEF LockWordInv, WordInv
<1>y. /\ pc \in [Tasks -> Labels] /\ op \in [Tasks -> Opcodes]
      /\ result \in [Tasks -> {NoResult, ACQUIRED, POISONED}] /\ holds \in [Tasks -> Int]
  BY <1>t DEF TypeOK
<1>1. Claims(t)
  <2>1. CASE TryAcquired(t)
    <3>1. acquired(t)' = acquired(t) /\ op' = op
      BY <2>1 DEF TryAcquired, acquired, acquired_count
    <3>2. SameOthers(t)
      BY <2>1, <1>y DEF TryAcquired, Goto, locals, SameOthers
    <3> QED  BY <2>1, <3>1, <3>2, <1>y DEF TryAcquired, Claims, Goto, locals
  <2>2. ASSUME NEW o \in Calls, TryOnce(t, o) PROVE Claims(t)
    <3>1. acquired(t)' = acquired_count(o)
      <4>1. op'[t] = o
        BY <2>2, <1>y DEF TryOnce
      <4> QED  BY <4>1 DEF acquired, acquired_count
    <3>2. SameOthers(t)
      BY <2>2, <1>y DEF TryOnce, Goto, locals, SameOthers
    <3> QED  BY <2>2, <3>1, <3>2, <1>y DEF TryOnce, Claims, Goto, locals
  <2> QED  BY <2>1, <2>2
<1> QED  BY <1>1, <1>t, ClaimsHolds

LEMMA PollHolds ==
    ASSUME LockWordInv, WordInv', WaitInv, HoldsInv, NEW t \in Tasks, Poll(t)
    PROVE  HoldsInv'
<1>t. WordInv /\ TypeOK
  BY DEF LockWordInv, WordInv
<1>0. /\ pc[t] = "wait" /\ result[t] \in {ACQUIRED, POISONED} /\ result'[t] = NoResult
      /\ \A u \in Tasks \ {t} : result'[u] = result[u]
      /\ data' = data /\ queue' = queue /\ holds' = holds
  BY <1>t DEF Poll, TypeOK, word
<1>1. ~GrantPending(t) /\ ~Open(t) /\ resolved[t] = <<>>
  BY <1>0, Outside DEF Lists
<1>2. CASE result[t] = ACQUIRED /\ acquired(t) > 0
  <2>1. /\ pc'[t] = "own" /\ op' = op /\ transferred' = transferred /\ resolved' = resolved
        /\ SameOthers(t)
    BY <1>0, <1>2, <1>t DEF Poll, Goto, locals, TypeOK, SameOthers
  <2>2. SameLists(t)
    BY <2>1, <1>1 DEF SameLists
  <2>3. KeepsLocal(t)
    BY <2>1, <1>0, <1>2 DEF KeepsLocal, Granted, Leaving
  <2> QED  BY <2>1, <2>2, <2>3, <1>0, <1>t, KeepsLocalInv, NeutralHolds DEF Neutral
<1>3. CASE ~(result[t] = ACQUIRED /\ acquired(t) > 0)
  <2>1. Return(t)
    BY <1>3 DEF Poll
  <2>2. /\ SameOthers(t) /\ pc'[t] = "idle" /\ resolved' = resolved /\ transferred' = transferred
    BY <2>1, <1>0, <1>t, ReturnOthers
  <2>3. SameLists(t)
    BY <2>2, <1>1 DEF SameLists
  <2>4. ~GrantPending(t)'
    BY <2>2, <2>3, <1>1, ListsGrants DEF SameGrants
  <2>5. ~Granted(t)'
    BY <2>2, <2>4, <1>0 DEF Granted
  <2>6. holds[t] = 0
    <3>1. acquired(t) > 0 => ~Granted(t)
      BY <1>0, <1>1, <1>3 DEF Granted
    <3>2. acquired(t) \in Nat
      BY LockAcquired, LockMasks
    <3> QED  BY <3>1, <3>2, LockOwn
  <2>7. LocalInv(t)'
    BY <2>2, <2>5, <2>6, <1>0 DEF LocalInv, Own
  <2> QED  BY <2>2, <2>3, <2>7, <1>0, <1>1, <1>t, NeutralHolds DEF Neutral
<1> QED  BY <1>2, <1>3

-----------------------------------------------------------------------------
LEMMA OwnerReleaseHolds ==
    ASSUME LockWordInv, WordInv', WaitInv, HoldsInv, CanGive, NEW t \in Tasks,
           ReleaseFast(t) \/ ReleaseSlow(t)
    PROVE  HoldsInv'
<1>t. WordInv /\ TypeOK
  BY DEF LockWordInv, WordInv
<1>0. pc[t] = "own" /\ Granted(t)
  BY DEF ReleaseFast, ReleaseSlow, Granted
<1>1. ~Open(t) /\ resolved[t] = <<>>
  BY <1>0, Outside DEF Inside, Lists
<1>2. CASE ReleaseFast(t)
  <2>1. Return(t) /\ result' = result /\ data' = data - acquired(t)
        /\ holds' = [holds EXCEPT ![t] = @ - acquired(t)]
    BY <1>2 DEF ReleaseFast
  <2>2. \A u \in Tasks \ {t} : holds'[u] = holds[u]
    BY <2>1, <1>t DEF TypeOK
  <2>3. /\ SameOthers(t) /\ pc'[t] = "idle" /\ resolved' = resolved /\ transferred' = transferred
    BY <2>1, <2>2, <1>t, ReturnOthers
  <2>4. GivesBack(t)
    BY <2>1, <2>3, <1>0 DEF GivesBack
  <2> QED  BY <2>4, <1>t, GivesBackHolds
<1>3. CASE ReleaseSlow(t)
  <2>1. /\ pc'[t] = "release" /\ op' = op /\ transferred' = transferred /\ resolved' = resolved
        /\ snap'[t] = State /\ holds' = holds /\ data' = data /\ SameOthers(t)
    BY <1>3, <1>t DEF ReleaseSlow, Goto, word, TypeOK, SameOthers
  <2>2. SameLists(t)
    BY <2>1, <1>1 DEF SameLists
  <2>3. can_release(op[t], State.data)
    BY <1>0, <1>1, <1>t, StateFacts DEF CanGive
  <2>4. Granted(t)' /\ ~Leaving(t)'
    BY <2>1, <2>3 DEF Granted, CanRelease, can_release, Leaving
  <2>5. KeepsLocal(t)
    BY <2>1, <2>4, <1>0 DEF KeepsLocal
  <2> QED  BY <2>1, <2>2, <2>5, <1>t, KeepsLocalInv, NeutralHolds DEF Neutral
<1> QED  BY <1>2, <1>3

LEMMA EmptyHandedHolds ==
    ASSUME LockWordInv, WordInv', WaitInv, HoldsInv, PoisonInv, NEW t \in Tasks,
           \/ TryPoisoned(t) \/ TryBlocked(t) \/ PoisonReturn(t) \/ ReleasePoisoned(t)
           \/ \E o \in Calls : Call(t, o)
    PROVE  HoldsInv'
<1>t. WordInv /\ TypeOK
  BY DEF LockWordInv, WordInv
<1>y. /\ pc \in [Tasks -> Labels] /\ op \in [Tasks -> Opcodes] /\ snap \in [Tasks -> Words]
      /\ result \in [Tasks -> {NoResult, ACQUIRED, POISONED}]
  BY <1>t DEF TypeOK
<1>0. /\ pc[t] \in {"try", "idle", "poisoning"} /\ (pc[t] = "poisoning" => resolved[t] = <<>>)
      /\ data' = data /\ holds' = holds
  BY DEF TryPoisoned, TryBlocked, PoisonReturn, ReleasePoisoned, Call, word
<1>1. ~Inside(t) /\ (pc[t] \in Lists => resolved[t] = <<>>)
  BY <1>0 DEF Inside, Lists
<1>2. result[t] = NoResult /\ ~GrantPending(t) /\ ~Open(t) /\ resolved[t] = <<>>
  BY <1>1, Outside
<1>3. CASE (TryPoisoned(t) /\ t \notin Pagers) \/ PoisonReturn(t)
  <2>1. Return(t) /\ result' = result
    BY <1>3 DEF TryPoisoned, PoisonReturn
  <2>2. SameOthers(t) /\ pc'[t] = "idle" /\ resolved' = resolved /\ transferred' = transferred
    BY <2>1, <1>0, <1>t, ReturnOthers
  <2>3. Passes(t)
    BY <2>1, <2>2, <1>0, <1>2 DEF Passes
  <2> QED  BY <2>3, <1>t, PassesHolds
<1>4. CASE TryPoisoned(t) /\ t \in Pagers
  <2>1. /\ pc'[t] = "wait" /\ resolved' = resolved /\ transferred' = transferred
        /\ result'[t] = POISONED /\ SameOthers(t)
    BY <1>4, <1>0, <1>y DEF TryPoisoned, Goto, locals, SameOthers
  <2>2. Passes(t)
    BY <2>1, <1>0, <1>2 DEF Passes
  <2> QED  BY <2>2, <1>t, PassesHolds
<1>5. CASE TryBlocked(t)
  <2>1. /\ pc'[t] = "push" /\ resolved' = resolved /\ transferred' = transferred
        /\ result' = result /\ SameOthers(t)
    BY <1>5, <1>0, <1>y DEF TryBlocked, Goto, SameOthers
  <2>2. Passes(t)
    BY <2>1, <1>0, <1>2 DEF Passes
  <2> QED  BY <2>2, <1>t, PassesHolds
<1>6. CASE ReleasePoisoned(t)
  <2>1. /\ pc'[t] = "release" /\ resolved' = resolved /\ transferred' = transferred
        /\ result' = result /\ SameOthers(t) /\ snap'[t] = State /\ op' = op
        /\ State = POISONED_STATE /\ pc[t] = "idle"
    BY <1>6, <1>0, <1>y DEF ReleasePoisoned, Goto, SameOthers
  <2>2. op[t] = Exclusive
    BY <2>1 DEF PoisonInv, TaskInv
  <2>3. ~CanRelease(t)'
    BY <2>1, <2>2, PoisonedWord, LockMasks DEF CanRelease, can_release, Exclusive
  <2>4. Passes(t)
    BY <2>1, <2>3, <1>0, <1>2, LockMasks DEF Passes, Exact
  <2> QED  BY <2>4, <1>t, PassesHolds
<1>7. ASSUME NEW o \in Calls, Call(t, o) PROVE HoldsInv'
  <2>1. /\ pc'[t] = "try" /\ resolved' = resolved /\ transferred' = transferred
        /\ result' = result /\ SameOthers(t)
    BY <1>7, <1>0, <1>y DEF Call, Goto, locals, SameOthers
  <2>2. Passes(t)
    BY <2>1, <1>0, <1>2 DEF Passes
  <2> QED  BY <2>2, <1>t, PassesHolds
<1> QED  BY <1>3, <1>4, <1>5, <1>6, <1>7

LEMMA ClearPoisonHolds ==
    ASSUME LockWordInv, WordInv', WaitInv, HoldsInv, NEW t \in Tasks, ClearPoison(t)
    PROVE  HoldsInv'
<1>t. WordInv
  BY DEF LockWordInv
<1>1. /\ pc' = pc /\ op' = op /\ snap' = snap /\ outer' = outer /\ then' = then /\ resolved' = resolved
      /\ transferred' = transferred /\ result' = result /\ holds' = holds /\ data' = data
      /\ queue' = queue
  BY DEF ClearPoison, locals
<1>2. SameOthers(t) /\ SameLists(t)
  BY <1>1 DEF SameOthers, SameLists, InRound
<1>3. GrantPending(t)' <=> GrantPending(t)
  BY <1>2, ListsGrants DEF SameGrants
<1>4. /\ Granted(t)' <=> Granted(t)
      /\ Leaving(t)' <=> Leaving(t)
  BY <1>1, <1>3 DEF Granted, Leaving, InQueue, CanRelease, can_release
<1>5. KeepsLocal(t)
  BY <1>1, <1>4 DEF KeepsLocal
<1> QED  BY <1>1, <1>2, <1>5, <1>t, KeepsLocalInv, NeutralHolds DEF Neutral

LEMMA PoisonHolds ==
    ASSUME LockWordInv, WordInv', WaitInv, HoldsInv, NEW t \in Tasks, Poison(t)
    PROVE  HoldsInv' /\ holds'[t] = 0
<1>t. WordInv /\ TypeOK
  BY DEF LockWordInv, WordInv
<1>0. /\ pc[t] = "own" /\ pc'[t] = "poisoning" /\ data = DATA_MASK /\ data' = 0
      /\ transferred' = transferred /\ result' = result /\ op[t] = Exclusive
      /\ resolved' = [resolved EXCEPT ![t] = queue]
      /\ holds' = [holds EXCEPT ![t] = @ - acquired(t)]
      /\ SameOthers(t)
  BY <1>t DEF Poison, Goto, TypeOK, SameOthers
<1>1. /\ result[t] = NoResult /\ ~GrantPending(t) /\ ~Open(t) /\ resolved[t] = <<>>
  BY <1>0, Outside DEF Inside, Lists
<1>2. holds[t] = DATA_MASK /\ acquired(t) = DATA_MASK
  <2>1. acquired(t) = DATA_MASK
    BY <1>0, LockOpcodeFacts DEF acquired
  <2> QED  BY <2>1, <1>0, LockOwn DEF Granted
<1>3. \A p \in Tasks, u \in Tasks : p # t => (InList(p, u)' <=> InList(p, u))
  BY <1>0, <1>t DEF InList, TypeOK
<1>4. \A u \in Tasks : ~InList(t, u)
  BY <1>1 DEF InList
<1>5. SameGrants
  BY <1>0, <1>3, <1>4 DEF SameGrants, SameOthers, Open, GrantPending, InRound
<1>6. /\ holds \in [Tasks -> 0..DATA_MASK]
      /\ holds' \in [Tasks -> 0..DATA_MASK] /\ holds'[t] = 0
      /\ holds'[t] = holds[t] + (0 - DATA_MASK) /\ data' = data + (0 - DATA_MASK)
      /\ 0 - DATA_MASK \in Int
  <2>1. holds \in [Tasks -> 0..DATA_MASK] /\ 0 \in 0..DATA_MASK /\ DATA_MASK - DATA_MASK = 0
    BY LockMasks DEF HoldsInv
  <2>2. holds' = [holds EXCEPT ![t] = 0]
    BY <2>1, <1>0, <1>2
  <2> QED  BY <2>1, <2>2, <1>0, <1>2, LockMasks
<1>7. LocalInv(t)'
  <2>1. ~Granted(t)'
    BY <1>0, <1>1, <1>5 DEF Granted, SameGrants
  <2> QED  BY <2>1, <1>0, <1>6 DEF LocalInv, Own
<1> DEFINE d == 0 - DATA_MASK
<1>8. d \in Int /\ Shifts(t, d)
  BY <1>0, <1>1, <1>5, <1>6, <1>7 DEF Shifts
<1> HIDE DEF d
<1> QED  BY <1>6, <1>8, <1>t, ShiftsHolds

LEMMA LockStepHolds ==
    ASSUME LockWordInv, LockWordInv', WaitInv, HoldsInv, ExclInv, PoisonInv, NEW t \in Tasks,
           SyncStep(t) \/ LockStep(t) \/ Client(t)
    PROVE  HoldsInv'
<1>w. WordInv /\ WordInv'
  BY DEF LockWordInv
<1>c. CanGive /\ NoPoisonedDrop
  BY LockCanGive, LockNoPoisonedDrop
<1>1. CASE SyncStep(t) \/ Drop(t)
  BY <1>1, <1>w, <1>c, SyncStepHolds
<1>2. CASE LockStep(t)
  <2>1. CASE PoisonResolve(t)
    BY <2>1, <1>w, SetResultHolds DEF PoisonResolve
  <2> QED  BY <2>1, <1>2, <1>w, <1>c, TryAcquiredHolds, PollHolds, OwnerReleaseHolds, EmptyHandedHolds
           DEF LockStep
<1>3. CASE Client(t) /\ ~Drop(t)
  BY <1>3, <1>w, TryAcquiredHolds, EmptyHandedHolds, ClearPoisonHolds, PoisonHolds DEF Client
<1> QED  BY <1>1, <1>2, <1>3

-----------------------------------------------------------------------------
LEMMA ExclGive ==
    ASSUME WordInv, HoldsInv, ExclInv, NEW t \in Tasks,
           holds' \in [Tasks -> 0..DATA_MASK], \A u \in Tasks \ {t} : holds'[u] = holds[u],
           holds'[t] = 0
    PROVE  ExclInv'
<1>h. holds \in [Tasks -> 0..DATA_MASK]
  BY DEF HoldsInv
<1>n. PICK n \in Nat : n = holds[t]
  BY <1>h
<1>0. /\ \A u \in Tasks \ {t} : holds[u] = holds'[u]
      /\ holds[t] = holds'[t] + n
  BY <1>n
<1>1. Total(holds) = Total(holds') + n
  BY <1>h, <1>0, TotalAdd
<1>2. Total(holds) \in Nat /\ Total(holds') \in Nat
  BY UnitsFinite
<1>3. Total(holds)' = Total(holds')
  BY DEF Total, UnitsOf
<1>4. CASE Total(holds) <= max_shared_owners
  BY <1>1, <1>2, <1>3, <1>4, LockMasks DEF ExclInv
<1>5. CASE \E u \in Tasks : holds[u] = DATA_MASK
  <2>1. PICK u \in Tasks : holds[u] = DATA_MASK
    BY <1>5
  <2>2. CASE u # t
    BY <2>1, <2>2, <1>0 DEF ExclInv
  <2>3. CASE u = t
    <3>1. ASSUME NEW v \in Tasks, v # t PROVE holds[v] = 0
      <4>1. holds[t] + holds[v] <= Total(holds)
        BY <1>h, <3>1, TotalTwo
      <4>2. Total(holds) <= DATA_MASK
        BY HeldBound
      <4> QED  BY <4>1, <4>2, <2>1, <2>3, <1>h, <1>2, LockMasks
    <3>2. \A v \in Tasks : holds'[v] = 0
      BY <3>1, <1>0
    <3>3. Total(holds') = 0
      BY <3>2, TotalZero
    <3> QED  BY <3>3, <1>3, LockMasks DEF ExclInv
  <2> QED  BY <2>2, <2>3
<1> QED  BY <1>4, <1>5 DEF ExclInv

LEMMA ExclTake ==
    ASSUME HoldsInv, ExclInv, NEW k \in Tasks, holds[k] = 0,
           NEW a \in {0, 1, DATA_MASK}, a = 1 => Total(holds) + 1 <= max_shared_owners,
           holds' \in [Tasks -> 0..DATA_MASK], \A u \in Tasks \ {k} : holds'[u] = holds[u],
           holds'[k] = a
    PROVE  ExclInv'
<1>0. /\ holds \in [Tasks -> 0..DATA_MASK] /\ a \in Nat
      /\ holds'[k] = holds[k] + a
  BY LockMasks DEF HoldsInv
<1>3. Total(holds)' = Total(holds')
  BY DEF Total, UnitsOf
<1>1. CASE a = DATA_MASK
  BY <1>0, <1>1 DEF ExclInv
<1>2. CASE a = 0
  <2>1. holds' = holds
    BY <1>0, <1>2
  <2> QED  BY <2>1, <1>3 DEF ExclInv
<1>4. CASE a = 1
  <2>1. Total(holds') = Total(holds) + a
    BY <1>0, TotalAdd
  <2> QED  BY <2>1, <1>3, <1>4 DEF ExclInv
<1> QED  BY <1>1, <1>2, <1>4

LEMMA GrantExcl ==
    ASSUME LockWordInv, WaitInv, HoldsInv, ExclInv, NEW t \in Tasks, PwqVisit(t) \/ PwqReset(t)
    PROVE  ExclInv'
<1>w. WordInv
  BY DEF LockWordInv
<1>y. /\ snap \in [Tasks -> Words] /\ transferred \in [Tasks -> 0..DATA_MASK] /\ data \in 0..DATA_MASK
  BY <1>w, Shape
<1>0. PICK k \in Tasks : k = Visited(t)
  BY <1>w, VisitFacts DEF PwqVisit, PwqReset
<1>a. PICK a : a = acquired(k)
  OBVIOUS
<1>1. InQueue(k)
  <2>1. queue \in Seq(Tasks) /\ queue # <<>> /\ k = queue[1]
    BY <1>w, <1>0 DEF WordInv, TypeOK, PwqVisit, PwqReset, Visited
  <2> QED  BY <2>1 DEF InQueue
<1>2. holds[k] = 0
  BY <1>1, Outside, LockOwn
<1>3. a \in {0, 1, DATA_MASK} /\ a \in Nat
  BY <1>a, LockAcquired, LockMasks
<1>4. /\ holds' \in [Tasks -> 0..DATA_MASK] /\ \A u \in Tasks \ {k} : holds'[u] = holds[u]
      /\ holds'[k] = a
  <2>1. holds' = [holds EXCEPT ![k] = holds[k] + a]
    BY <1>0, <1>a DEF PwqVisit, PwqReset
  <2>2. holds[k] + a = a /\ a \in 0..DATA_MASK /\ holds \in [Tasks -> 0..DATA_MASK]
    BY <1>2, <1>3, LockMasks DEF HoldsInv
  <2> QED  BY <2>1, <2>2
<1>5. ASSUME a = 1 PROVE Total(holds) + 1 <= max_shared_owners
  <2>1. op[k] = Shared
    BY <1>5, <1>a, LockAcquired, LockMasks
  <2>2. Base(t) = 0 \/ Base(t) + 1 <= max_shared_owners
    BY <2>1, <1>0, LockDesiredFacts DEF PwqVisit, PwqReset, Eligible, Admits
  <2>3. Processing(t)
    BY DEF PwqVisit, PwqReset, Processing
  <2>4. Total(holds) = data + transferred[t] /\ Total(holds) \in 0..DATA_MASK
    BY <2>3, <1>w, HeldBound
  <2>5. data <= snap[t].data /\ snap[t].data \in 0..DATA_MASK
    <3>1. snap[t].data \in 0..DATA_MASK
      BY <1>y DEF Words
    <3> QED  BY <3>1, <2>3, <1>w, Worker
  <2>6. Total(holds) <= Base(t) /\ Base(t) \in Nat
    BY <2>4, <2>5, <1>y, LockMasks DEF Base
  <2> QED  BY <2>2, <2>4, <2>6, LockMasks
<1> QED  BY <1>2, <1>3, <1>4, <1>5, ExclTake

LEMMA ClaimExcl ==
    ASSUME LockWordInv, LockWordInv', WaitInv, HoldsInv, ExclInv, NEW t \in Tasks,
           TryAcquired(t) \/ \E o \in Calls : TryOnce(t, o)
    PROVE  ExclInv'
<1>w. WordInv /\ TypeOK
  BY DEF LockWordInv, WordInv
<1>0. PICK o \in LockOpcodes : /\ Attempt(o) = ACQUIRED /\ pc[t] \in {"try", "idle"}
                               /\ holds' = [holds EXCEPT ![t] = @ + acquired_count(o)]
  <2>1. CASE TryAcquired(t)
    <3>1. op[t] \in LockOpcodes
      BY DEF LockWordInv, OpsInv
    <3> QED  BY <2>1, <3>1 DEF TryAcquired, acquired
  <2>2. ASSUME NEW o \in Calls, TryOnce(t, o) PROVE o \in LockOpcodes
    BY LockAssumption DEF LockOpcodes
  <2> QED  BY <2>1, <2>2 DEF TryOnce
<1>a. PICK a : a = acquired_count(o)
  OBVIOUS
<1>1. holds[t] = 0
  <2>1. ~Granted(t)
    BY <1>0, Outside DEF Granted, Inside
  <2> QED  BY <2>1, LockOwn
<1>2. a \in {0, 1, DATA_MASK} /\ a \in Nat /\ (a = 1 => o = Shared)
  BY <1>a, LockOpcodeFacts, LockMasks DEF LockOpcodes
<1>3. /\ holds' \in [Tasks -> 0..DATA_MASK] /\ \A u \in Tasks \ {t} : holds'[u] = holds[u]
      /\ holds'[t] = a
  <2>1. holds' = [holds EXCEPT ![t] = holds[t] + a]
    BY <1>0, <1>a
  <2>2. holds[t] + a = a /\ a \in 0..DATA_MASK /\ holds \in [Tasks -> 0..DATA_MASK]
    BY <1>1, <1>2, LockMasks DEF HoldsInv
  <2> QED  BY <2>1, <2>2
<1>4. ASSUME a = 1 PROVE Total(holds) + 1 <= max_shared_owners
  <2>1. data < max_shared_owners /\ ~locked
    BY <1>0, <1>2, <1>4, LockOpcodeFacts DEF Attempt, try_share_internal, BelowMax
  <2>2. \A p \in Tasks : ~Processing(p)
    BY <2>1, <1>w, Worker
  <2>3. Total(holds) = data /\ data \in 0..DATA_MASK
    BY <2>2, <1>w, HeldBound, Shape
  <2> QED  BY <2>1, <2>3, LockMasks
<1> QED  BY <1>1, <1>2, <1>3, <1>4, ExclTake

LEMMA GiveExcl ==
    ASSUME LockWordInv, WaitInv, HoldsInv, ExclInv, NEW t \in Tasks,
           ReleaseInPlace(t) \/ ReleaseAndProcess(t) \/ ReleaseFast(t) \/ Poison(t)
    PROVE  ExclInv'
<1>1. Granted(t) /\ holds' = [holds EXCEPT ![t] = holds[t] - acquired(t)]
  BY DEF ReleaseInPlace, ReleaseAndProcess, ReleaseFast, Poison, Granted
<1>2. holds[t] = acquired(t) /\ acquired(t) \in Nat
  BY <1>1, LockAcquired, LockMasks, LockOwn
<1>3. /\ holds' \in [Tasks -> 0..DATA_MASK] /\ \A u \in Tasks \ {t} : holds'[u] = holds[u]
      /\ holds'[t] = 0
  <2>1. holds[t] - acquired(t) = 0 /\ 0 \in 0..DATA_MASK /\ holds \in [Tasks -> 0..DATA_MASK]
    BY <1>2, LockMasks DEF HoldsInv
  <2> QED  BY <2>1, <1>1
<1>4. WordInv
  BY DEF LockWordInv
<1> QED  BY <1>3, <1>4, ExclGive

LEMMA LockStepExcl ==
    ASSUME LockWordInv, LockWordInv', WaitInv, HoldsInv, ExclInv, NEW t \in Tasks,
           SyncStep(t) \/ LockStep(t) \/ Client(t)
    PROVE  ExclInv'
<1>s. ASSUME holds' = holds PROVE ExclInv'
  <2>1. Total(holds)' = Total(holds)
    BY <1>s DEF Total, UnitsOf
  <2> QED  BY <2>1, <1>s DEF ExclInv
<1>1. CASE SyncStep(t)
  <2>1. CASE Process(t)
    <3>1. holds' = holds \/ PwqVisit(t) \/ PwqReset(t)
      BY <2>1 DEF Process, PwqResetFailed, PwqUnlock, PwqUnlockFailed, PwqAdd, Resolve, SetResult,
         PwqContinue, PwqReturn
    <3> QED  BY <3>1, <1>s, GrantExcl
  <2>2. CASE Release(t)
    BY <2>2, <1>s, GiveExcl DEF Release, ReleaseRefused, ReleaseRetry
  <2>3. CASE PushOk(t) \/ PushFailed(t) \/ Cancel(t)
    <3>1. holds' = holds
      BY <2>3 DEF PushOk, PushFailed, Cancel, CancelEmpty, CancelLock, RemoveInner, RemoveTail,
         RemoveSole, RemoveRetry, RemoveMissing, Complete
    <3> QED  BY <3>1, <1>s
  <2> QED  BY <1>1, <2>1, <2>2, <2>3 DEF SyncStep
<1>2. CASE LockStep(t)
  <2>1. holds' = holds \/ TryAcquired(t) \/ ReleaseFast(t)
    BY <1>2 DEF LockStep, TryPoisoned, TryBlocked, Poll, PoisonResolve, SetResult, PoisonReturn, ReleaseSlow
  <2> QED  BY <2>1, <1>s, ClaimExcl, GiveExcl
<1>3. CASE Client(t)
  <2>1. holds' = holds \/ Poison(t) \/ \E o \in Calls : TryOnce(t, o)
    BY <1>3 DEF Client, Call, Drop, ReleasePoisoned, ClearPoison
  <2> QED  BY <2>1, <1>s, ClaimExcl, GiveExcl
<1> QED  BY <1>1, <1>2, <1>3
-----------------------------------------------------------------------------
(* Units and owners agree in every reachable state. *)
LEMMA LockHoldsInvariant == DropSafe => (Spec => [](HoldsInv /\ ExclInv))
<1> SUFFICES ASSUME DropSafe PROVE Spec => [](HoldsInv /\ ExclInv)
  OBVIOUS
<1>1. Init => HoldsInv /\ ExclInv
  <2> SUFFICES ASSUME Init PROVE HoldsInv /\ ExclInv
    OBVIOUS
  <2>1. /\ data = 0 /\ holds = [t \in Tasks |-> 0]
        /\ \A t \in Tasks : pc[t] = "idle" /\ result[t] = NoResult /\ resolved[t] = <<>>
    BY DEF Init, SyncInit
  <2>2. \A t, u \in Tasks : ~InList(u, t)
    BY <2>1 DEF InList
  <2>3. \A t \in Tasks : ~Granted(t) /\ ~Open(t) /\ ~Processing(t)
    BY <2>1, <2>2 DEF Granted, GrantPending, Open, Processing
  <2>4. Total(holds) = 0
    BY <2>1, TotalZero
  <2>5. Total(Committed) = 0
    <3>1. \A t \in Tasks : Committed[t] = 0
      BY <2>1, <2>3 DEF Committed
    <3> HIDE DEF Committed
    <3> QED  BY <3>1, TotalZero
  <2>6. Accounting
    BY <2>1, <2>3, <2>4, UnitsTotal DEF Accounting
  <2>7. holds \in [Tasks -> 0..DATA_MASK]
    BY <2>1, LockMasks
  <2> QED  BY <2>1, <2>3, <2>4, <2>5, <2>6, <2>7, LockMasks DEF HoldsInv, LocalInv, Own, ExclInv
<1>2. LockWordInv /\ LockWordInv' /\ WaitInv /\ PoisonInv /\ (HoldsInv /\ ExclInv) /\ [Next]_vars
      => (HoldsInv /\ ExclInv)'
  <2> SUFFICES ASSUME LockWordInv, LockWordInv', WaitInv, PoisonInv, HoldsInv, ExclInv, [Next]_vars
               PROVE  HoldsInv' /\ ExclInv'
    OBVIOUS
  <2>1. CASE UNCHANGED vars
    <3>1. ExclInv'
      BY <2>1 DEF vars, ExclInv, Total, UnitsOf
    <3> QED  BY <3>1, <2>1, StutterHolds
  <2>2. CASE Next
    BY <2>2, LockStepHolds, LockStepExcl DEF Next
  <2> QED  BY <2>1, <2>2
<1> QED  BY <1>1, <1>2, LockWordInvariant, LockWaitInvariant, LockPoisonInvariant, PTL DEF Spec

LEMMA LockHoldsImply ==
    ASSUME LockWordInv, WaitInv, HoldsInv
    PROVE  Accounting /\ GrantsReal /\ ReleaseNeverRefused /\ MutualExclusion
<1>w. WordInv
  BY DEF LockWordInv
<1>1. ASSUME NEW t \in Tasks, NEW u \in Tasks, t # u, holds[t] = DATA_MASK PROVE holds[u] <= 0
  <2>1. holds \in [Tasks -> 0..DATA_MASK] /\ holds[u] \in Nat
    BY LockMasks DEF HoldsInv
  <2>2. holds[t] + holds[u] <= Total(holds)
    BY <1>1, <2>1, TotalTwo
  <2>3. Total(holds) \in 0..DATA_MASK
    BY <1>w, HeldBound
  <2> QED  BY <1>1, <2>1, <2>2, <2>3, LockMasks
<1> QED  BY <1>1, <1>w, HoldsImply DEF MutualExclusion

(* While somebody is granted the lock exclusively nobody else has a grant, *)
(* from the decision of process_wait_queue or the CAS of try_lock_internal *)
(* to the release or the poisoning, for any number of tasks that cancel,   *)
(* or poison and clear.                                                    *)
THEOREM LockMutualExclusion == DropSafe => (Spec => []MutualExclusion)
<1>1. LockWordInv /\ WaitInv /\ (HoldsInv /\ ExclInv) => MutualExclusion
  BY LockHoldsImply
<1> QED  BY <1>1, LockWordInvariant, LockWaitInvariant, LockHoldsInvariant, PTL

(* The data bits count what was granted and not released: no release in    *)
(* place, transfer of process_wait_queue, reset or dropped entry loses an  *)
(* owner or makes one up.                                                  *)
THEOREM LockAccounting == DropSafe => (Spec => []Accounting)
<1>1. LockWordInv /\ WaitInv /\ (HoldsInv /\ ExclInv) => Accounting
  BY LockHoldsImply
<1> QED  BY <1>1, LockWordInvariant, LockWaitInvariant, LockHoldsInvariant, PTL

(* Whoever was told ACQUIRED, by the attempt or by set_result, is counted  *)
(* as an owner until it releases.                                          *)
THEOREM LockGrantsReal == DropSafe => (Spec => []GrantsReal)
<1>1. LockWordInv /\ WaitInv /\ (HoldsInv /\ ExclInv) => GrantsReal
  BY LockHoldsImply
<1> QED  BY <1>1, LockWordInvariant, LockWaitInvariant, LockHoldsInvariant, PTL

(* release_loop never returns false to an owner, although it may start     *)
(* from a word read long before, by force_remove_wait_queue_entry.         *)
THEOREM LockReleaseNeverRefused == DropSafe => (Spec => []ReleaseNeverRefused)
<1>1. LockWordInv /\ WaitInv /\ (HoldsInv /\ ExclInv) => ReleaseNeverRefused
  BY LockHoldsImply
<1> QED  BY <1>1, LockWordInvariant, LockWaitInvariant, LockHoldsInvariant, PTL

-----------------------------------------------------------------------------
(* Whoever takes a share, or everything, at once, finds no one ahead and   *)
(* enough left; the Wait modes take nothing.                               *)
LEMMA AtOnceFacts ==
    ASSUME LockWordInv, HoldsInv, NEW o \in LockOpcodes, Attempt(o) = ACQUIRED,
           NEW n, n = acquired_count(o)
    PROVE  /\ n \in 0..DATA_MASK
           /\ n # 0 => /\ queue = <<>>
                       /\ Total(holds) = 0 \/ Total(holds) + n <= max_shared_owners
<1>w. WordInv
  BY DEF LockWordInv
<1>1. ASSUME queue = <<>> PROVE Total(holds) = data
  <2>1. \A p \in Tasks : ~Processing(p)
    BY <1>1, <1>w, Worker
  <2> QED  BY <2>1, <1>w, HeldBound
<1>5. o \in {Exclusive, Shared, WaitExclusive, WaitShared}
  BY DEF LockOpcodes
<1>2. CASE o = Exclusive
  <2>1. State = Free
    BY <1>2, LockOpcodeFacts DEF Attempt, try_lock_internal
  <2>2. queue = <<>> /\ data = 0
    BY <2>1, <1>w, FreeWord, StateFacts
  <2>3. n = DATA_MASK
    BY <1>2, LockOpcodeFacts
  <2> QED  BY <2>2, <2>3, <1>1, LockMasks
<1>3. CASE o = Shared
  <2>1. queue = <<>> /\ data < max_shared_owners /\ data \in 0..DATA_MASK
    BY <1>3, <1>w, StateFacts, Shape, LockOpcodeFacts DEF Attempt, try_share_internal, BelowMax
  <2>2. n = 1
    BY <1>3, LockOpcodeFacts
  <2> QED  BY <2>1, <2>2, <1>1, LockMasks
<1>4. CASE o = WaitExclusive \/ o = WaitShared
  <2>1. n = 0
    BY <1>4, LockOpcodeFacts
  <2> QED  BY <2>1, LockMasks
<1> QED  BY <1>2, <1>3, <1>4, <1>5

LEMMA ClaimFair ==
    ASSUME LockWordInv, WaitInv, HoldsInv, NEW t \in Tasks,
           TryAcquired(t) \/ \E o \in Calls : TryOnce(t, o)
    PROVE  FairStep
<1>w. WordInv /\ op \in [Tasks -> Opcodes]
  BY DEF LockWordInv, WordInv, TypeOK
<1>0. PICK o \in LockOpcodes :
         /\ Attempt(o) = ACQUIRED /\ queue' = queue
         /\ \A u \in Tasks \ {t} : op'[u] = op[u]
         /\ pc[t] \in {"try", "idle"}
         /\ holds' = [holds EXCEPT ![t] = holds[t] + acquired_count(o)]
  <2>1. CASE TryAcquired(t)
    <3>1. op[t] \in LockOpcodes
      BY DEF LockWordInv, OpsInv
    <3> QED  BY <2>1, <3>1 DEF TryAcquired, acquired
  <2>2. ASSUME NEW o \in Calls, TryOnce(t, o)
        PROVE  o \in LockOpcodes /\ \A u \in Tasks \ {t} : op'[u] = op[u]
    BY <2>2, <1>w, LockAssumption DEF LockOpcodes, TryOnce
  <2> QED  BY <2>1, <2>2 DEF TryOnce
<1>1. PICK n : n = acquired_count(o)
  OBVIOUS
<1>2. n \in 0..DATA_MASK /\ (n # 0 => queue = <<>> /\ (Total(holds) = 0 \/ Total(holds) + n <= max_shared_owners))
  BY <1>0, <1>1, AtOnceFacts
<1>3. KeepsAsked
  BY <1>0, NotQueued, OwnOpcode
<1> QED  BY <1>0, <1>1, <1>2, <1>3, <1>w, FairAcquire

(* Everybody who waits is turned away. *)
LEMMA PoisonFair ==
    ASSUME LockWordInv, WaitInv, HoldsInv, NEW t \in Tasks, Poison(t)
    PROVE  FairStep
<1>1. Granted(t) /\ acquired(t) = DATA_MASK
  BY LockOpcodeFacts DEF Poison, Granted, acquired
<1>2. holds[t] = DATA_MASK /\ holds[t] - acquired(t) = holds[t] + (-DATA_MASK)
  BY <1>1, LockOwn, LockMasks
<1>3. holds' = [holds EXCEPT ![t] = holds[t] + (-DATA_MASK)]
  BY <1>2 DEF Poison
<1>4. Requests' = <<>>
  BY RequestsNext DEF Poison, RequestsOf
<1>5. Fair!Close(t)
  BY <1>2, <1>3, <1>4 DEF Fair!Close, Fair!Give
<1> QED  BY <1>5 DEF FairStep, Fair!Next

LEMMA LockStepFair ==
    ASSUME LockWordInv, WaitInv, HoldsInv, NEW t \in Tasks, SyncStep(t) \/ LockStep(t) \/ Client(t)
    PROVE  FairStep
<1>w. WordInv /\ op \in [Tasks -> Opcodes]
  BY DEF LockWordInv, WordInv, TypeOK
<1>1. CASE SyncStep(t) \/ Drop(t)
  BY <1>1, <1>w, SyncStepFair
<1>2. CASE TryAcquired(t) \/ \E o \in Calls : TryOnce(t, o)
  BY <1>2, ClaimFair
<1>3. CASE TryBlocked(t) \/ PoisonResolve(t) \/ ReleaseSlow(t) \/ ReleasePoisoned(t) \/ ClearPoison(t)
  <2>1. op' = op /\ queue' = queue /\ holds' = holds
    BY <1>3 DEF TryBlocked, PoisonResolve, SetResult, ReleaseSlow, ReleasePoisoned, ClearPoison, word
  <2> QED  BY <2>1, <1>w, FairUnseen DEF KeepsAsked
<1>4. CASE TryPoisoned(t) \/ Poll(t) \/ PoisonReturn(t)
  <2>1. (Return(t) \/ op' = op) /\ queue' = queue /\ holds' = holds
    BY <1>4 DEF TryPoisoned, Poll, PoisonReturn, word
  <2>2. ~InQueue(t)
    BY <1>4, NotQueued DEF TryPoisoned, Poll, PoisonReturn
  <2>3. KeepsAsked
    BY <2>1, <2>2, <1>w, ReturnKeeps DEF KeepsAsked
  <2> QED  BY <2>1, <2>3, <1>w, FairUnseen
<1>5. CASE ReleaseFast(t)
  <2>1. Return(t) /\ queue' = queue /\ ~InQueue(t) /\ Granted(t)
        /\ holds' = [holds EXCEPT ![t] = @ - acquired(t)]
    BY <1>5, NotQueued DEF ReleaseFast, Granted
  <2>2. PICK n \in 0..DATA_MASK : n = acquired(t)
    BY <1>w, ReleaseFacts
  <2>3. n <= holds[t] /\ holds' = [holds EXCEPT ![t] = holds[t] - n]
    BY <2>1, <2>2, LockOwn
  <2>4. KeepsAsked
    BY <2>1, <1>w, ReturnKeeps
  <2> QED  BY <2>1, <2>3, <2>4, <1>w, FairRelease
<1>6. ASSUME NEW o \in Calls, Call(t, o) PROVE FairStep
  <2>1. op' = [op EXCEPT ![t] = o] /\ queue' = queue /\ holds' = holds /\ ~InQueue(t)
    BY <1>6, NotQueued DEF Call, word
  <2>2. KeepsAsked
    BY <2>1, <1>w, OwnOpcode
  <2> QED  BY <2>1, <2>2, <1>w, FairUnseen
<1> QED  BY <1>1, <1>2, <1>3, <1>4, <1>5, <1>6, PoisonFair DEF LockStep, Client

(* The lock is a fair allocator with one exclusive owner or a bounded      *)
(* number of shared ones: every atomic step is a request, a grant of the   *)
(* oldest request that fits, an immediate acquisition with nobody waiting, *)
(* a release, a withdrawal, or the poisoning that turns everybody away, as *)
(* long as no dropped entry can meet a poisoned lock that is cleared.      *)
THEOREM LockIsFair == DropSafe => (Spec => FairAllocator)
<1> SUFFICES ASSUME DropSafe PROVE Spec => FairAllocator
  OBVIOUS
<1>1. Init => Fair!Init
  <2> SUFFICES ASSUME Init PROVE Fair!Init
    OBVIOUS
  <2>1. queue = <<>> /\ holds \in [Tasks -> 0..DATA_MASK]
    BY LockMasks DEF Init, SyncInit
  <2> QED  BY <2>1, FairInit
<1>2. LockWordInv /\ WaitInv /\ (HoldsInv /\ ExclInv) /\ [Next]_vars => [Fair!Next]_(Fair!vars)
  <2> SUFFICES ASSUME LockWordInv, WaitInv, HoldsInv, [Next]_vars PROVE FairStep
    BY DEF FairStep
  <2>1. CASE UNCHANGED vars
    BY <2>1, StutterFair
  <2>2. CASE Next
    BY <2>2, LockStepFair DEF Next
  <2> QED  BY <2>1, <2>2
<1> QED  BY <1>1, <1>2, LockWordInvariant, LockWaitInvariant, LockHoldsInvariant, PTL
         DEF Spec, FairAllocator, Fair!Spec
=============================================================================
