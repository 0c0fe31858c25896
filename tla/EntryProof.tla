----------------------------- MODULE EntryProof -----------------------------
(***************************************************************************)
(* The safety of the handshake between the owner of a wait queue entry and *)
(* the thread that stores its result, for any number of threads, wakers    *)
(* and result codes, and that the entry implements a result cell.          *)
(***************************************************************************)
EXTENDS Entry, TLAPS

Waiting == {"enqueued", "poll", "load", "recheck", "clear", "install", "arm", "asleep", "drop"}
Before  == {"mark", "load", "cas"}
After   == {"take", "finalize"}

(* What the owner knows of its entry from where it is. *)
OwnerInv ==
    /\ pc = "enqueue" => linked = "no" /\ mem = "live" /\ ~pollable
    /\ pc = "idle" => (pollable <=> linked # "no")
    /\ pc \in Waiting => linked # "no" /\ (pc # "enqueued" => pollable)
    /\ linked # "no" => mem = "live"
    /\ linked = "claimed" => sent \in Results

(* Who may touch the monitor: the owner while WAKER_SET is clear. *)
WakerInv ==
    /\ pc = "clear" => ~loaded.set
    /\ pc \in {"install", "arm"} => ~state.waker
    /\ pc = "arm" => slot = cur
    /\ pc = "asleep" /\ linked = "queued" => (state.waker /\ slot = cur) \/ cur \in signaled

(* Where a setter is and what `state` says go together. *)
SetterInv ==
    /\ \A s \in Setters :
          /\ spc[s] \in Before => ~state.set /\ code[s] = sent
          /\ spc[s] \in After => state.set /\ ~state.fin
          /\ spc[s] = "take" => state.waker
          /\ spc[s] = "wake" => taken[s] # NoWaker
    /\ linked = "claimed" /\ ~state.fin => \E s \in Setters : Touching(s)

IInv == /\ TypeOK /\ OwnerInv /\ WakerInv /\ SetterInv
        /\ NoUseAfterFree /\ StoredOnce /\ NoLostWakeup

LEMMA ZeroType == Zero \in States
  BY DEF Zero, States

LEMMA RegisterStep ==
    ASSUME IInv, NEW m \in {"Sync", "Async"}, Register(m)
    PROVE  IInv'
<1>0. state' \in States
  BY ZeroType DEF TypeOK, IInv, Register, construct
<1>1. TypeOK'
  BY <1>0, EntryAssumption DEF TypeOK, OwnerLabels, SetterLabels, entry, owner, setter,
     IInv, Register, construct
<1>2. OwnerInv'
  BY DEF OwnerInv, Waiting, IInv, Register, construct
<1>3. WakerInv'
  BY DEF WakerInv, Register
<1>4. SetterInv'
  BY DEF OwnerInv, StoredOnce, Zero, SetterInv, After, setter, IInv, Register, construct
<1>5. NoUseAfterFree'
  BY DEF NoUseAfterFree, Touching, setter, IInv, Register, construct
<1>6. StoredOnce'
  BY DEF Zero, StoredOnce, setter, IInv, Register, construct
<1>7. NoLostWakeup'
  BY DEF NoLostWakeup, Register
<1> QED  BY <1>1, <1>2, <1>3, <1>4, <1>5, <1>6, <1>7 DEF IInv

LEMMA EnqueueStep ==
    ASSUME IInv, Enqueue
    PROVE  IInv'
<1>1. TypeOK'
  BY DEF TypeOK, OwnerLabels, setter, IInv, Enqueue
<1>2. OwnerInv'
  BY DEF OwnerInv, IInv, Enqueue
<1>3. WakerInv'
  BY DEF WakerInv, Enqueue
<1>4. SetterInv'
  BY DEF SetterInv, setter, IInv, Enqueue
<1>5. NoUseAfterFree'
  BY DEF OwnerInv, NoUseAfterFree, Touching, setter, IInv, Enqueue
<1>6. StoredOnce'
  BY DEF OwnerInv, StoredOnce, setter, IInv, Enqueue
<1>7. NoLostWakeup'
  BY DEF NoLostWakeup, Enqueue
<1> QED  BY <1>1, <1>2, <1>3, <1>4, <1>5, <1>6, <1>7 DEF IInv

LEMMA SetPollableStep ==
    ASSUME IInv, SetPollable
    PROVE  IInv'
<1>1. TypeOK'
  BY DEF TypeOK, OwnerLabels, setter, IInv, SetPollable
<1>2. OwnerInv'
  BY DEF OwnerInv, Waiting, IInv, SetPollable
<1>3. WakerInv'
  BY DEF WakerInv, SetPollable
<1>4. SetterInv'
  BY DEF SetterInv, Touching, setter, IInv, SetPollable
<1>5. NoUseAfterFree'
  BY DEF NoUseAfterFree, Touching, setter, IInv, SetPollable
<1>6. StoredOnce'
  BY DEF StoredOnce, setter, IInv, SetPollable
<1>7. NoLostWakeup'
  BY DEF NoLostWakeup, SetPollable
<1> QED  BY <1>1, <1>2, <1>3, <1>4, <1>5, <1>6, <1>7 DEF IInv

LEMMA SettleStep ==
    ASSUME IInv, NEW v \in Results, Settle(v)
    PROVE  IInv'
<1>1. TypeOK'
  BY EntryAssumption DEF OwnerInv, WakerInv, SetterInv, NoUseAfterFree, StoredOnce,
     Touching, Waiting, Before, After, TypeOK, States, Zero, OwnerLabels, SetterLabels,
     entry, owner, setter, IInv, Settle
<1>2. OwnerInv'
  BY DEF OwnerInv, IInv, Settle
<1>3. WakerInv'
  BY DEF WakerInv, Settle
<1>4. SetterInv'
  BY DEF OwnerInv, NoUseAfterFree, SetterInv, Touching, Before, After, setter, IInv,
     Settle
<1>5. NoUseAfterFree'
  BY DEF NoUseAfterFree, Touching, setter, IInv, Settle
<1>6. StoredOnce'
  BY DEF OwnerInv, StoredOnce, setter, IInv, Settle
<1>7. NoLostWakeup'
  BY DEF NoLostWakeup, Settle
<1> QED  BY <1>1, <1>2, <1>3, <1>4, <1>5, <1>6, <1>7 DEF IInv

LEMMA PollStep ==
    ASSUME IInv, NEW w \in Wakers, Poll(w)
    PROVE  IInv'
<1>1. TypeOK'
  BY DEF TypeOK, OwnerLabels, entry, setter, IInv, Poll
<1>2. OwnerInv'
  BY DEF OwnerInv, entry, IInv, Poll
<1>3. WakerInv'
  BY DEF WakerInv, Poll
<1>4. SetterInv'
  BY DEF SetterInv, Touching, entry, setter, IInv, Poll
<1>5. NoUseAfterFree'
  BY DEF NoUseAfterFree, Touching, entry, setter, IInv, Poll
<1>6. StoredOnce'
  BY DEF StoredOnce, entry, setter, IInv, Poll
<1>7. NoLostWakeup'
  BY DEF NoLostWakeup, Poll
<1> QED  BY <1>1, <1>2, <1>3, <1>4, <1>5, <1>6, <1>7 DEF IInv

LEMMA TryPollStep ==
    ASSUME IInv, TryPoll
    PROVE  IInv'
<1>1. TypeOK'
  BY EntryAssumption DEF OwnerInv, WakerInv, SetterInv, NoUseAfterFree, StoredOnce,
     Touching, Waiting, Before, After, TypeOK, States, Zero, OwnerLabels, SetterLabels,
     entry, owner, setter, IInv, TryPoll, Ready, Consume
<1>2. OwnerInv'
  BY DEF OwnerInv, Waiting, TryPoll, Consume
<1>3. WakerInv'
  BY DEF WakerInv, TryPoll, Consume
<1>4. SetterInv'
  BY DEF StoredOnce, SetterInv, After, setter, IInv, TryPoll, Ready, Consume
<1>5. NoUseAfterFree'
  BY DEF SetterInv, StoredOnce, Before, After, NoUseAfterFree, Touching, setter, IInv,
     TryPoll, Ready, Consume
<1>6. StoredOnce'
  BY DEF Zero, StoredOnce, setter, IInv, TryPoll, Consume
<1>7. NoLostWakeup'
  BY DEF NoLostWakeup, TryPoll, Consume
<1> QED  BY <1>1, <1>2, <1>3, <1>4, <1>5, <1>6, <1>7 DEF IInv

LEMMA PollReadyStep ==
    ASSUME IInv, PollReady
    PROVE  IInv'
<1>1. TypeOK'
  BY EntryAssumption DEF OwnerInv, WakerInv, SetterInv, NoUseAfterFree, StoredOnce,
     Touching, Waiting, Before, After, TypeOK, States, Zero, OwnerLabels, SetterLabels,
     entry, owner, setter, IInv, PollReady, Ready, Consume
<1>2. OwnerInv'
  BY DEF OwnerInv, Waiting, PollReady, Consume
<1>3. WakerInv'
  BY DEF WakerInv, PollReady, Consume
<1>4. SetterInv'
  BY DEF StoredOnce, SetterInv, After, setter, IInv, PollReady, Ready, Consume
<1>5. NoUseAfterFree'
  BY DEF SetterInv, StoredOnce, Before, After, NoUseAfterFree, Touching, setter, IInv,
     PollReady, Ready, Consume
<1>6. StoredOnce'
  BY DEF Zero, StoredOnce, setter, IInv, PollReady, Consume
<1>7. NoLostWakeup'
  BY DEF NoLostWakeup, PollReady, Consume
<1> QED  BY <1>1, <1>2, <1>3, <1>4, <1>5, <1>6, <1>7 DEF IInv

LEMMA PollNotReadyStep ==
    ASSUME IInv, PollNotReady
    PROVE  IInv'
<1>1. TypeOK'
  BY DEF TypeOK, OwnerLabels, entry, setter, IInv, PollNotReady
<1>2. OwnerInv'
  BY DEF OwnerInv, Waiting, entry, IInv, PollNotReady
<1>3. WakerInv'
  BY DEF WakerInv, PollNotReady
<1>4. SetterInv'
  BY DEF SetterInv, Touching, entry, setter, IInv, PollNotReady
<1>5. NoUseAfterFree'
  BY DEF NoUseAfterFree, Touching, entry, setter, IInv, PollNotReady
<1>6. StoredOnce'
  BY DEF StoredOnce, entry, setter, IInv, PollNotReady
<1>7. NoLostWakeup'
  BY DEF NoLostWakeup, PollNotReady
<1> QED  BY <1>1, <1>2, <1>3, <1>4, <1>5, <1>6, <1>7 DEF IInv

LEMMA LoadStep ==
    ASSUME IInv, Load
    PROVE  IInv'
<1>1. TypeOK'
  BY DEF TypeOK, OwnerLabels, entry, setter, IInv, Load
<1>2. OwnerInv'
  BY DEF OwnerInv, Waiting, entry, IInv, Load
<1>3. WakerInv'
  BY DEF WakerInv, entry, Load
<1>4. SetterInv'
  BY DEF SetterInv, Touching, entry, setter, IInv, Load
<1>5. NoUseAfterFree'
  BY DEF NoUseAfterFree, Touching, entry, setter, IInv, Load
<1>6. StoredOnce'
  BY DEF StoredOnce, entry, setter, IInv, Load
<1>7. NoLostWakeup'
  BY DEF NoLostWakeup, Load
<1> QED  BY <1>1, <1>2, <1>3, <1>4, <1>5, <1>6, <1>7 DEF IInv

LEMMA RecheckReadyStep ==
    ASSUME IInv, RecheckReady
    PROVE  IInv'
<1>1. TypeOK'
  BY EntryAssumption DEF OwnerInv, WakerInv, SetterInv, NoUseAfterFree, StoredOnce,
     Touching, Waiting, Before, After, TypeOK, States, Zero, OwnerLabels, SetterLabels,
     entry, owner, setter, IInv, RecheckReady, Ready, Consume
<1>2. OwnerInv'
  BY DEF OwnerInv, Waiting, RecheckReady, Consume
<1>3. WakerInv'
  BY DEF WakerInv, RecheckReady, Consume
<1>4. SetterInv'
  BY DEF StoredOnce, SetterInv, After, setter, IInv, RecheckReady, Ready, Consume
<1>5. NoUseAfterFree'
  BY DEF SetterInv, StoredOnce, Before, After, NoUseAfterFree, Touching, setter, IInv,
     RecheckReady, Ready, Consume
<1>6. StoredOnce'
  BY DEF Zero, StoredOnce, setter, IInv, RecheckReady, Consume
<1>7. NoLostWakeup'
  BY DEF NoLostWakeup, RecheckReady, Consume
<1> QED  BY <1>1, <1>2, <1>3, <1>4, <1>5, <1>6, <1>7 DEF IInv

LEMMA RecheckNotReadyStep ==
    ASSUME IInv, RecheckNotReady
    PROVE  IInv'
<1>1. TypeOK'
  BY DEF TypeOK, OwnerLabels, entry, setter, IInv, RecheckNotReady, Again
<1>2. OwnerInv'
  BY DEF OwnerInv, Waiting, entry, IInv, RecheckNotReady, Again
<1>3. WakerInv'
  BY DEF WakerInv, RecheckNotReady, Again
<1>4. SetterInv'
  BY DEF SetterInv, Touching, entry, setter, IInv, RecheckNotReady
<1>5. NoUseAfterFree'
  BY DEF NoUseAfterFree, Touching, entry, setter, IInv, RecheckNotReady
<1>6. StoredOnce'
  BY DEF StoredOnce, entry, setter, IInv, RecheckNotReady
<1>7. NoLostWakeup'
  BY DEF NoLostWakeup, WakeOwed, RecheckNotReady, Again
<1> QED  BY <1>1, <1>2, <1>3, <1>4, <1>5, <1>6, <1>7 DEF IInv

LEMMA ClearOkStep ==
    ASSUME IInv, ClearOk
    PROVE  IInv'
<1>1. TypeOK'
  BY EntryAssumption DEF OwnerInv, WakerInv, SetterInv, NoUseAfterFree, StoredOnce,
     Touching, Waiting, Before, After, TypeOK, States, Zero, OwnerLabels, SetterLabels,
     entry, owner, setter, IInv, ClearOk
<1>2. OwnerInv'
  BY DEF OwnerInv, Waiting, IInv, ClearOk
<1>3. WakerInv'
  BY DEF WakerInv, ClearOk
<1>4. SetterInv'
  BY DEF WakerInv, SetterInv, Touching, After, setter, IInv, ClearOk
<1>5. NoUseAfterFree'
  BY DEF NoUseAfterFree, Touching, setter, IInv, ClearOk
<1>6. StoredOnce'
  BY DEF StoredOnce, setter, IInv, ClearOk
<1>7. NoLostWakeup'
  BY DEF NoLostWakeup, ClearOk
<1> QED  BY <1>1, <1>2, <1>3, <1>4, <1>5, <1>6, <1>7 DEF IInv

LEMMA ClearFailedStep ==
    ASSUME IInv, ClearFailed
    PROVE  IInv'
<1>1. TypeOK'
  BY DEF TypeOK, States, Zero, OwnerLabels, entry, setter, IInv, ClearFailed, Again
<1>2. OwnerInv'
  BY DEF OwnerInv, Waiting, entry, IInv, ClearFailed, Again
<1>3. WakerInv'
  BY DEF WakerInv, ClearFailed, Again
<1>4. SetterInv'
  BY DEF SetterInv, Touching, entry, setter, IInv, ClearFailed
<1>5. NoUseAfterFree'
  BY DEF NoUseAfterFree, Touching, entry, setter, IInv, ClearFailed
<1>6. StoredOnce'
  BY DEF StoredOnce, entry, setter, IInv, ClearFailed
<1>7. NoLostWakeup'
  BY DEF NoLostWakeup, WakeOwed, ClearFailed, Again
<1> QED  BY <1>1, <1>2, <1>3, <1>4, <1>5, <1>6, <1>7 DEF IInv

LEMMA InstallStep ==
    ASSUME IInv, Install
    PROVE  IInv'
<1>1. TypeOK'
  BY DEF TypeOK, OwnerLabels, setter, IInv, Install
<1>2. OwnerInv'
  BY DEF OwnerInv, Waiting, IInv, Install
<1>3. WakerInv'
  BY DEF WakerInv, IInv, Install
<1>4. SetterInv'
  BY DEF SetterInv, Touching, setter, IInv, Install
<1>5. NoUseAfterFree'
  BY DEF NoUseAfterFree, Touching, setter, IInv, Install
<1>6. StoredOnce'
  BY DEF StoredOnce, setter, IInv, Install
<1>7. NoLostWakeup'
  BY DEF NoLostWakeup, Install
<1> QED  BY <1>1, <1>2, <1>3, <1>4, <1>5, <1>6, <1>7 DEF IInv

LEMMA ArmStep ==
    ASSUME IInv, Arm
    PROVE  IInv'
<1>0. state' \in States
  BY EntryAssumption DEF TypeOK, IInv, States, Zero, Arm, Again
<1>1. TypeOK'
  BY <1>0 DEF TypeOK, OwnerLabels, setter, IInv, Arm, Again
<1>2. OwnerInv'
  BY DEF OwnerInv, Waiting, IInv, Arm, Again
<1>3. WakerInv'
  BY DEF WakerInv, IInv, Arm, Again
<1>4. SetterInv'
  BY DEF SetterInv, Touching, setter, IInv, Arm
<1>5. NoUseAfterFree'
  BY DEF NoUseAfterFree, Touching, setter, IInv, Arm
<1>6. StoredOnce'
  BY DEF StoredOnce, setter, IInv, Arm
<1>7. NoLostWakeup'
  BY DEF WakerInv, SetterInv, StoredOnce, Touching, After, NoLostWakeup, WakeOwed,
     setter, IInv, Arm, Again
<1> QED  BY <1>1, <1>2, <1>3, <1>4, <1>5, <1>6, <1>7 DEF IInv

LEMMA WakeUpStep ==
    ASSUME IInv, NEW w \in Wakers, WakeUp(w)
    PROVE  IInv'
<1>1. TypeOK'
  BY DEF TypeOK, OwnerLabels, entry, setter, IInv, WakeUp
<1>2. OwnerInv'
  BY DEF OwnerInv, Waiting, entry, IInv, WakeUp
<1>3. WakerInv'
  BY DEF WakerInv, WakeUp
<1>4. SetterInv'
  BY DEF SetterInv, Touching, entry, setter, IInv, WakeUp
<1>5. NoUseAfterFree'
  BY DEF NoUseAfterFree, Touching, entry, setter, IInv, WakeUp
<1>6. StoredOnce'
  BY DEF StoredOnce, entry, setter, IInv, WakeUp
<1>7. NoLostWakeup'
  BY DEF NoLostWakeup, WakeUp
<1> QED  BY <1>1, <1>2, <1>3, <1>4, <1>5, <1>6, <1>7 DEF IInv

LEMMA SpuriousStep ==
    ASSUME IInv, NEW w \in Wakers, Spurious(w)
    PROVE  IInv'
<1>1. TypeOK'
  BY DEF TypeOK, OwnerLabels, entry, setter, IInv, Spurious
<1>2. OwnerInv'
  BY DEF OwnerInv, Waiting, entry, IInv, Spurious
<1>3. WakerInv'
  BY DEF WakerInv, Spurious
<1>4. SetterInv'
  BY DEF SetterInv, Touching, entry, setter, IInv, Spurious
<1>5. NoUseAfterFree'
  BY DEF NoUseAfterFree, Touching, entry, setter, IInv, Spurious
<1>6. StoredOnce'
  BY DEF StoredOnce, entry, setter, IInv, Spurious
<1>7. NoLostWakeup'
  BY DEF NoLostWakeup, Spurious
<1> QED  BY <1>1, <1>2, <1>3, <1>4, <1>5, <1>6, <1>7 DEF IInv

LEMMA AbandonStep ==
    ASSUME IInv, Abandon
    PROVE  IInv'
<1>1. TypeOK'
  BY DEF TypeOK, OwnerLabels, entry, setter, IInv, Abandon
<1>2. OwnerInv'
  BY DEF OwnerInv, Waiting, entry, IInv, Abandon
<1>3. WakerInv'
  BY DEF WakerInv, Abandon
<1>4. SetterInv'
  BY DEF SetterInv, Touching, entry, setter, IInv, Abandon
<1>5. NoUseAfterFree'
  BY DEF NoUseAfterFree, Touching, entry, setter, IInv, Abandon
<1>6. StoredOnce'
  BY DEF StoredOnce, entry, setter, IInv, Abandon
<1>7. NoLostWakeup'
  BY DEF NoLostWakeup, Abandon
<1> QED  BY <1>1, <1>2, <1>3, <1>4, <1>5, <1>6, <1>7 DEF IInv

LEMMA DropIdleStep ==
    ASSUME IInv, DropIdle
    PROVE  IInv'
<1>1. TypeOK'
  BY EntryAssumption DEF OwnerInv, WakerInv, SetterInv, NoUseAfterFree, StoredOnce,
     Touching, Waiting, Before, After, TypeOK, States, Zero, OwnerLabels, SetterLabels,
     entry, owner, setter, IInv, DropIdle, Droppable, Free
<1>2. OwnerInv'
  BY DEF OwnerInv, Waiting, DropIdle, Free
<1>3. WakerInv'
  BY DEF WakerInv, DropIdle, Free
<1>4. SetterInv'
  BY DEF OwnerInv, NoUseAfterFree, Waiting, SetterInv, Touching, Before, After, setter,
     IInv, DropIdle, Droppable, Free
<1>5. NoUseAfterFree'
  BY DEF OwnerInv, Waiting, NoUseAfterFree, Touching, setter, IInv, DropIdle, Droppable,
     Free
<1>6. StoredOnce'
  BY DEF Zero, StoredOnce, setter, IInv, DropIdle, Free
<1>7. NoLostWakeup'
  BY DEF NoLostWakeup, DropIdle, Free
<1> QED  BY <1>1, <1>2, <1>3, <1>4, <1>5, <1>6, <1>7 DEF IInv

LEMMA DropRegisteredStep ==
    ASSUME IInv, DropRegistered
    PROVE  IInv'
<1>1. TypeOK'
  BY DEF TypeOK, OwnerLabels, entry, setter, IInv, DropRegistered
<1>2. OwnerInv'
  BY DEF OwnerInv, Waiting, entry, IInv, DropRegistered, Droppable
<1>3. WakerInv'
  BY DEF WakerInv, DropRegistered
<1>4. SetterInv'
  BY DEF SetterInv, Touching, entry, setter, IInv, DropRegistered
<1>5. NoUseAfterFree'
  BY DEF NoUseAfterFree, Touching, entry, setter, IInv, DropRegistered
<1>6. StoredOnce'
  BY DEF StoredOnce, entry, setter, IInv, DropRegistered
<1>7. NoLostWakeup'
  BY DEF NoLostWakeup, DropRegistered
<1> QED  BY <1>1, <1>2, <1>3, <1>4, <1>5, <1>6, <1>7 DEF IInv

LEMMA DropRemovedStep ==
    ASSUME IInv, DropRemoved
    PROVE  IInv'
<1>1. TypeOK'
  BY EntryAssumption DEF OwnerInv, WakerInv, SetterInv, NoUseAfterFree, StoredOnce,
     Touching, Waiting, Before, After, TypeOK, States, Zero, OwnerLabels, SetterLabels,
     entry, owner, setter, IInv, DropRemoved, Free
<1>2. OwnerInv'
  BY DEF OwnerInv, Waiting, DropRemoved, Free
<1>3. WakerInv'
  BY DEF WakerInv, DropRemoved, Free
<1>4. SetterInv'
  BY DEF NoUseAfterFree, SetterInv, Touching, Before, After, setter, IInv, DropRemoved,
     Free
<1>5. NoUseAfterFree'
  BY DEF NoUseAfterFree, Touching, setter, IInv, DropRemoved, Free
<1>6. StoredOnce'
  BY DEF Zero, StoredOnce, setter, IInv, DropRemoved, Free
<1>7. NoLostWakeup'
  BY DEF NoLostWakeup, DropRemoved, Free
<1> QED  BY <1>1, <1>2, <1>3, <1>4, <1>5, <1>6, <1>7 DEF IInv

LEMMA DropClaimedStep ==
    ASSUME IInv, DropClaimed
    PROVE  IInv'
<1>1. TypeOK'
  BY EntryAssumption DEF OwnerInv, WakerInv, SetterInv, NoUseAfterFree, StoredOnce,
     Touching, Waiting, Before, After, TypeOK, States, Zero, OwnerLabels, SetterLabels,
     entry, owner, setter, IInv, DropClaimed, Ready, Free
<1>2. OwnerInv'
  BY DEF OwnerInv, Waiting, DropClaimed, Free
<1>3. WakerInv'
  BY DEF WakerInv, DropClaimed, Free
<1>4. SetterInv'
  BY DEF StoredOnce, SetterInv, After, setter, IInv, DropClaimed, Ready, Free
<1>5. NoUseAfterFree'
  BY DEF SetterInv, StoredOnce, Before, After, NoUseAfterFree, Touching, setter, IInv,
     DropClaimed, Ready, Free
<1>6. StoredOnce'
  BY DEF Zero, StoredOnce, setter, IInv, DropClaimed, Free
<1>7. NoLostWakeup'
  BY DEF NoLostWakeup, DropClaimed, Free
<1> QED  BY <1>1, <1>2, <1>3, <1>4, <1>5, <1>6, <1>7 DEF IInv

LEMMA ClaimStep ==
    ASSUME IInv, NEW s \in Setters, NEW v \in Results, Claim(s, v)
    PROVE  IInv'
<1>1. TypeOK'
  BY EntryAssumption DEF TypeOK, SetterLabels, owner, IInv, Claim
<1>2. OwnerInv'
  BY DEF OwnerInv, owner, IInv, Claim
<1>3. WakerInv'
  BY DEF WakerInv, owner, IInv, Claim
<1>4. SetterInv'
  BY DEF NoUseAfterFree, StoredOnce, TypeOK, SetterInv, Touching, Before, After, IInv,
     Claim
<1>5. NoUseAfterFree'
  BY DEF OwnerInv, NoUseAfterFree, Touching, IInv, Claim
<1>6. StoredOnce'
  BY DEF StoredOnce, IInv, Claim
<1>7. NoLostWakeup'
  BY DEF WakerInv, TypeOK, NoLostWakeup, WakeOwed, owner, IInv, Claim
<1> QED  BY <1>1, <1>2, <1>3, <1>4, <1>5, <1>6, <1>7 DEF IInv

LEMMA MarkStep ==
    ASSUME IInv, NEW s \in Setters, Mark(s)
    PROVE  IInv'
<1>1. TypeOK'
  BY DEF TypeOK, SetterLabels, owner, IInv, Mark
<1>2. OwnerInv'
  BY DEF NoUseAfterFree, Touching, OwnerInv, owner, IInv, Mark
<1>3. WakerInv'
  BY DEF WakerInv, owner, IInv, Mark
<1>4. SetterInv'
  BY DEF SetterInv, Touching, Before, After, IInv, Mark
<1>5. NoUseAfterFree'
  BY DEF NoUseAfterFree, Touching, IInv, Mark
<1>6. StoredOnce'
  BY DEF StoredOnce, IInv, Mark
<1>7. NoLostWakeup'
  BY DEF NoLostWakeup, WakeOwed, owner, IInv, Mark
<1> QED  BY <1>1, <1>2, <1>3, <1>4, <1>5, <1>6, <1>7 DEF IInv

LEMMA SetterLoadStep ==
    ASSUME IInv, NEW s \in Setters, SetterLoad(s)
    PROVE  IInv'
<1>1. TypeOK'
  BY DEF TypeOK, SetterLabels, entry, owner, IInv, SetterLoad
<1>2. OwnerInv'
  BY DEF OwnerInv, entry, owner, IInv, SetterLoad
<1>3. WakerInv'
  BY DEF WakerInv, entry, owner, IInv, SetterLoad
<1>4. SetterInv'
  BY DEF SetterInv, Touching, Before, After, entry, IInv, SetterLoad
<1>5. NoUseAfterFree'
  BY DEF NoUseAfterFree, Touching, entry, IInv, SetterLoad
<1>6. StoredOnce'
  BY DEF SetterInv, Before, TypeOK, StoredOnce, entry, IInv, SetterLoad
<1>7. NoLostWakeup'
  BY DEF NoLostWakeup, WakeOwed, entry, owner, IInv, SetterLoad
<1> QED  BY <1>1, <1>2, <1>3, <1>4, <1>5, <1>6, <1>7 DEF IInv

LEMMA CasOkStep ==
    ASSUME IInv, NEW s \in Setters, CasOk(s)
    PROVE  IInv'
<1>0. state' \in States
  BY EntryAssumption DEF TypeOK, IInv, States, Zero, CasOk
<1>1. TypeOK'
  BY <1>0, ZeroType DEF TypeOK, SetterLabels, owner, IInv, CasOk
<1>2. OwnerInv'
  BY DEF OwnerInv, owner, IInv, CasOk
<1>3. WakerInv'
  BY DEF WakerInv, owner, IInv, CasOk
<1>4. SetterInv'
  BY DEF NoUseAfterFree, StoredOnce, TypeOK, SetterInv, Touching, Before, IInv, CasOk
<1>5. NoUseAfterFree'
  BY DEF NoUseAfterFree, Touching, IInv, CasOk
<1>6. StoredOnce'
  BY DEF SetterInv, NoUseAfterFree, Touching, Before, Zero, StoredOnce, IInv, CasOk
<1>7. NoLostWakeup'
  BY DEF NoLostWakeup, WakeOwed, owner, IInv, CasOk
<1> QED  BY <1>1, <1>2, <1>3, <1>4, <1>5, <1>6, <1>7 DEF IInv

LEMMA CasFailedStep ==
    ASSUME IInv, NEW s \in Setters, CasFailed(s)
    PROVE  IInv'
<1>1. TypeOK'
  BY DEF TypeOK, entry, owner, IInv, CasFailed
<1>2. OwnerInv'
  BY DEF OwnerInv, entry, owner, IInv, CasFailed
<1>3. WakerInv'
  BY DEF WakerInv, entry, owner, IInv, CasFailed
<1>4. SetterInv'
  BY DEF SetterInv, Touching, entry, IInv, CasFailed
<1>5. NoUseAfterFree'
  BY DEF NoUseAfterFree, Touching, entry, IInv, CasFailed
<1>6. StoredOnce'
  BY DEF SetterInv, Before, StoredOnce, entry, IInv, CasFailed
<1>7. NoLostWakeup'
  BY DEF NoLostWakeup, WakeOwed, entry, owner, IInv, CasFailed
<1> QED  BY <1>1, <1>2, <1>3, <1>4, <1>5, <1>6, <1>7 DEF IInv

LEMMA TakeStep ==
    ASSUME IInv, NEW s \in Setters, Take(s)
    PROVE  IInv'
<1>1. TypeOK'
  BY DEF TypeOK, SetterLabels, owner, IInv, Take
<1>2. OwnerInv'
  BY DEF OwnerInv, owner, IInv, Take
<1>3. WakerInv'
  BY DEF SetterInv, StoredOnce, After, WakerInv, owner, IInv, Take
<1>4. SetterInv'
  BY DEF SetterInv, Touching, Before, After, IInv, Take
<1>5. NoUseAfterFree'
  BY DEF NoUseAfterFree, Touching, IInv, Take
<1>6. StoredOnce'
  BY DEF StoredOnce, IInv, Take
<1>7. NoLostWakeup'
  BY DEF TypeOK, NoLostWakeup, WakeOwed, owner, IInv, Take
<1> QED  BY <1>1, <1>2, <1>3, <1>4, <1>5, <1>6, <1>7 DEF IInv

LEMMA FinalizeStep ==
    ASSUME IInv, NEW s \in Setters, Finalize(s)
    PROVE  IInv'
<1>0. state' \in States
  BY EntryAssumption DEF TypeOK, IInv, States, Zero, Finalize
<1>1. TypeOK'
  BY <1>0 DEF TypeOK, SetterLabels, owner, IInv, Finalize
<1>2. OwnerInv'
  BY DEF OwnerInv, owner, IInv, Finalize
<1>3. WakerInv'
  BY DEF WakerInv, owner, IInv, Finalize
<1>4. SetterInv'
  BY DEF NoUseAfterFree, TypeOK, SetterInv, Touching, Before, After, IInv, Finalize
<1>5. NoUseAfterFree'
  BY DEF NoUseAfterFree, Touching, IInv, Finalize
<1>6. StoredOnce'
  BY DEF SetterInv, After, StoredOnce, IInv, Finalize
<1>7. NoLostWakeup'
  BY EntryAssumption DEF TypeOK, NoLostWakeup, WakeOwed, owner, IInv, Finalize
<1> QED  BY <1>1, <1>2, <1>3, <1>4, <1>5, <1>6, <1>7 DEF IInv

LEMMA WakeStep ==
    ASSUME IInv, NEW s \in Setters, Wake(s)
    PROVE  IInv'
<1>1. TypeOK'
  BY DEF SetterInv, TypeOK, SetterLabels, entry, owner, IInv, Wake
<1>2. OwnerInv'
  BY DEF OwnerInv, entry, owner, IInv, Wake
<1>3. WakerInv'
  BY DEF WakerInv, entry, owner, IInv, Wake
<1>4. SetterInv'
  BY DEF TypeOK, SetterInv, Touching, Before, After, entry, IInv, Wake
<1>5. NoUseAfterFree'
  BY DEF NoUseAfterFree, Touching, entry, IInv, Wake
<1>6. StoredOnce'
  BY DEF StoredOnce, entry, IInv, Wake
<1>7. NoLostWakeup'
  BY DEF NoLostWakeup, WakeOwed, entry, owner, IInv, Wake
<1> QED  BY <1>1, <1>2, <1>3, <1>4, <1>5, <1>6, <1>7 DEF IInv

-----------------------------------------------------------------------------
LEMMA InitInv ==
    ASSUME Init
    PROVE  IInv
<1>1. TypeOK
  BY ZeroType DEF Init, TypeOK, OwnerLabels, SetterLabels
<1>2. \A s \in Setters : spc[s] = "idle"
  BY DEF Init
<1>3. ~state.set /\ ~state.fin /\ state.code = {} /\ ~state.waker
  BY DEF Init, Zero
<1> QED  BY <1>1, <1>2, <1>3 DEF Init, IInv, OwnerInv, WakerInv, SetterInv, Waiting, Before, After,
            NoUseAfterFree, Touching, StoredOnce, NoLostWakeup

LEMMA NextInv ==
    ASSUME IInv, [Next]_vars
    PROVE  IInv'
<1>1. CASE UNCHANGED vars
  BY <1>1 DEF vars, entry, owner, setter, IInv, TypeOK, OwnerInv, WakerInv, SetterInv,
     NoUseAfterFree, Touching, StoredOnce, NoLostWakeup, WakeOwed
<1>2. CASE OwnerStep
  BY <1>2, EnqueueStep, SetPollableStep, PollReadyStep, PollNotReadyStep, LoadStep, RecheckReadyStep,
     RecheckNotReadyStep, ClearOkStep, ClearFailedStep, InstallStep, ArmStep, DropRemovedStep,
     DropClaimedStep, WakeUpStep DEF OwnerStep
<1>3. CASE OwnerCall
  BY <1>3, RegisterStep, SettleStep, PollStep, SpuriousStep, TryPollStep, AbandonStep,
     DropIdleStep, DropRegisteredStep DEF OwnerCall
<1>4. ASSUME NEW s \in Setters, SetterStep(s) PROVE IInv'
  BY <1>4, MarkStep, SetterLoadStep, CasOkStep, CasFailedStep, TakeStep, FinalizeStep, WakeStep
     DEF SetterStep
<1>5. ASSUME NEW s \in Setters, NEW v \in Results, Claim(s, v) PROVE IInv'
  BY <1>5, ClaimStep
<1> QED  BY <1>1, <1>2, <1>3, <1>4, <1>5 DEF Next

LEMMA EntryInvariant == Spec => []IInv
<1>1. Init => IInv
  BY InitInv
<1>2. IInv /\ [Next]_vars => IInv'
  BY NextInv
<1> QED  BY <1>1, <1>2, PTL DEF Spec

-----------------------------------------------------------------------------
(* The variables of an entry and of the threads that use it have their     *)
(* types; in particular the bits of `state` above the flags are always a   *)
(* result code (Entry::state, wait_queue.rs).                              *)
THEOREM EntryTypeCorrect == Spec => []TypeOK
<1>1. IInv => TypeOK
  BY DEF IInv
<1> QED  BY <1>1, EntryInvariant, PTL

(* No use after free and none after reuse: a thread inside set_result has  *)
(* the entry to itself, live and registered, however the owner polls,      *)
(* registers again or drops it.                                            *)
THEOREM EntryNoUseAfterFree == Spec => []NoUseAfterFree
<1>1. IInv => NoUseAfterFree
  BY DEF IInv
<1> QED  BY <1>1, EntryInvariant, PTL

(* The waker stored in the entry, which nothing but the flags of `state`   *)
(* protects, is not written by a poll while set_result takes it out.       *)
THEOREM EntryMonitorExclusive == Spec => []MonitorExclusive
<1>1. IInv => MonitorExclusive
  BY DEF IInv, WakerInv, SetterInv, MonitorExclusive
<1> QED  BY <1>1, EntryInvariant, PTL

(* set_result stores one result per registration, into a cleared word, and *)
(* what can be read is what was stored.                                    *)
THEOREM EntryStoredOnce == Spec => []StoredOnce
<1>1. IInv => StoredOnce
  BY DEF IInv
<1> QED  BY <1>1, EntryInvariant, PTL

(* No lost wake-up: an owner that sleeps while a result is on the way is   *)
(* going to be woken through the waker it gave last.                       *)
THEOREM EntryNoLostWakeup == Spec => []NoLostWakeup
<1>1. IInv => NoLostWakeup
  BY DEF IInv
<1> QED  BY <1>1, EntryInvariant, PTL

-----------------------------------------------------------------------------
(* The refinement: what the cell holds is the finalized code. *)
Filled == IF state.fin /\ linked = "claimed" THEN state.code ELSE NoResult

(* Steps that the cell does not see. *)
Unseen == /\ (linked' # "no") = (linked # "no")
          /\ Filled' = Filled /\ got' = got

LEMMA CodeFacts ==
    ASSUME IInv
    PROVE  /\ \A v \in Results : v # NoResult
           /\ state.code # NoResult
           /\ state.fin => linked = "claimed" /\ state.code \in Results
<1>1. state.code \in SUBSET Bits
  BY DEF IInv, TypeOK, States
<1>2. state.fin => linked = "claimed" /\ state.code = sent
  BY DEF IInv, StoredOnce
<1> QED  BY <1>1, <1>2, EntryAssumption DEF IInv, OwnerInv

LEMMA OwnerUnseen ==
    ASSUME IInv,
           \/ SetPollable \/ PollNotReady \/ Load \/ RecheckNotReady
           \/ ClearOk \/ ClearFailed \/ Install \/ Arm
           \/ \E w \in Wakers : WakeUp(w) \/ Poll(w) \/ Spurious(w)
           \/ Abandon \/ DropRegistered
    PROVE  Unseen
<1>1. CASE ClearOk
  <2>1. state'.fin = state.fin /\ state'.code = state.code
    BY <1>1 DEF ClearOk, IInv, TypeOK, States
  <2> QED  BY <1>1, <2>1 DEF ClearOk, Unseen, Filled
<1>2. CASE Arm
  <2>1. state'.fin = state.fin /\ state'.code = state.code
    BY <1>2 DEF Arm, IInv, TypeOK, States
  <2> QED  BY <1>2, <2>1 DEF Arm, Unseen, Filled
<1>3. CASE SetPollable \/ Install
  BY <1>3 DEF SetPollable, Install, Unseen, Filled
<1>4. CASE PollNotReady \/ Load \/ RecheckNotReady \/ ClearFailed \/ Abandon \/ DropRegistered
  BY <1>4 DEF PollNotReady, Load, RecheckNotReady, ClearFailed, Abandon, DropRegistered, entry,
     Unseen, Filled
<1>5. CASE \E w \in Wakers : WakeUp(w) \/ Poll(w) \/ Spurious(w)
  BY <1>5 DEF WakeUp, Poll, Spurious, entry, Unseen, Filled
<1> QED  BY <1>1, <1>2, <1>3, <1>4, <1>5

(* A registration before the entry is enqueued, and a drop of an entry     *)
(* that is not registered, concern the memory only.                        *)
LEMMA MemoryUnseen ==
    ASSUME IInv, DropIdle \/ \E m \in {"Sync", "Async"} : Register(m)
    PROVE  Unseen
<1>1. linked = "no" /\ linked' = "no" /\ got' = got
  BY DEF DropIdle, Droppable, Free, Register, construct, IInv, OwnerInv, Waiting
<1> QED  BY <1>1 DEF Unseen, Filled

LEMMA SetterUnseen ==
    ASSUME IInv, NEW s \in Setters,
           Mark(s) \/ SetterLoad(s) \/ CasOk(s) \/ CasFailed(s) \/ Take(s) \/ Wake(s)
           \/ \E v \in Results : Claim(s, v)
    PROVE  Unseen
<1>1. CASE CasOk(s)
  <2>1. ~state.fin /\ ~state'.fin
    BY <1>1 DEF CasOk, IInv, StoredOnce, TypeOK, States
  <2> QED  BY <1>1, <2>1 DEF CasOk, Unseen, Filled
<1>2. CASE \E v \in Results : Claim(s, v)
  <2>1. ~state.fin
    BY <1>2, CodeFacts DEF Claim
  <2> QED  BY <1>2, <2>1 DEF Claim, Unseen, Filled
<1>3. CASE Mark(s) \/ SetterLoad(s) \/ CasFailed(s) \/ Take(s) \/ Wake(s)
  BY <1>3 DEF Mark, SetterLoad, CasFailed, Take, Wake, entry, Unseen, Filled
<1> QED  BY <1>1, <1>2, <1>3

(* What the other steps do to the cell. *)
LEMMA SeenSteps ==
    ASSUME IInv
    PROVE  /\ Enqueue => linked = "no" /\ linked' # "no" /\ Filled' = Filled /\ got' = got
           /\ \A v \in Results : Settle(v) =>
                 linked = "no" /\ linked' # "no" /\ Filled' = v /\ got' = got
           /\ TryPoll \/ PollReady \/ RecheckReady =>
                 /\ linked # "no" /\ Filled # NoResult
                 /\ linked' = "no" /\ Filled' = NoResult /\ got' = Filled
           /\ DropRemoved \/ DropClaimed =>
                 linked # "no" /\ linked' = "no" /\ Filled' = NoResult /\ got' = got
           /\ \A s \in Setters : Finalize(s) =>
                 /\ linked # "no" /\ Filled = NoResult /\ linked' = linked
                 /\ Filled' \in Results /\ got' = got
<1>1. ASSUME Enqueue
      PROVE  linked = "no" /\ linked' # "no" /\ Filled' = Filled /\ got' = got
  <2>1. linked = "no" /\ ~state.fin
    BY <1>1, CodeFacts DEF Enqueue, IInv, OwnerInv
  <2> QED  BY <1>1, <2>1 DEF Enqueue, Filled
<1>2. ASSUME NEW v \in Results, Settle(v)
      PROVE  linked = "no" /\ linked' # "no" /\ Filled' = v /\ got' = got
  <2>1. linked = "no" /\ state.code = {}
    BY <1>2 DEF Settle, IInv, OwnerInv, StoredOnce
  <2>2. state'.fin /\ state'.code = v
    BY <1>2, <2>1 DEF Settle, IInv, TypeOK, States
  <2> QED  BY <1>2, <2>1, <2>2 DEF Settle, Filled
<1>3. ASSUME TryPoll \/ PollReady \/ RecheckReady
      PROVE  /\ linked # "no" /\ Filled # NoResult
             /\ linked' = "no" /\ Filled' = NoResult /\ got' = Filled
  <2>1. state.fin /\ Consume
    BY <1>3 DEF TryPoll, PollReady, RecheckReady, Ready
  <2> QED  BY <2>1, CodeFacts DEF Consume, Filled
<1>4. ASSUME DropRemoved \/ DropClaimed
      PROVE  linked # "no" /\ linked' = "no" /\ Filled' = NoResult /\ got' = got
  BY <1>4 DEF DropRemoved, DropClaimed, Free, Filled
<1>5. ASSUME NEW s \in Setters, Finalize(s)
      PROVE  /\ linked # "no" /\ Filled = NoResult /\ linked' = linked
             /\ Filled' \in Results /\ got' = got
  <2>1. linked = "claimed" /\ state.set /\ ~state.fin
    BY <1>5 DEF Finalize, IInv, NoUseAfterFree, Touching, SetterInv, After
  <2>2. state.code \in Results
    BY <2>1 DEF IInv, StoredOnce, OwnerInv
  <2>3. state'.fin /\ state'.code = state.code
    BY <1>5 DEF Finalize, IInv, TypeOK, States
  <2> QED  BY <1>5, <2>1, <2>2, <2>3 DEF Finalize, Filled
<1> QED  BY <1>1, <1>2, <1>3, <1>4, <1>5

LEMMA CellStep ==
    ASSUME IInv, [Next]_vars
    PROVE  [Cell!Next]_(Cell!vars)
<1>u. ASSUME Unseen PROVE UNCHANGED Cell!vars
  BY <1>u DEF Unseen, Filled, Cell!vars
<1>1. CASE UNCHANGED vars
  BY <1>1 DEF vars, entry, Cell!vars
<1>2. CASE Enqueue
  BY <1>2, SeenSteps DEF Filled, Cell!Next, Cell!Register
<1>3. ASSUME NEW v \in Results, Settle(v) PROVE Cell!RegisterSettled(v)
  BY <1>3, SeenSteps DEF Filled, Cell!RegisterSettled
<1>4. CASE TryPoll \/ PollReady \/ RecheckReady
  BY <1>4, SeenSteps DEF Filled, Cell!Next, Cell!Consume
<1>5. CASE DropRemoved \/ DropClaimed
  BY <1>5, SeenSteps DEF Filled, Cell!Next, Cell!Withdraw
<1>6. ASSUME NEW s \in Setters, Finalize(s) PROVE \E v \in Results : Cell!Store(v)
  <2>1. PICK v \in Results : v = Filled'
    BY <1>6, SeenSteps
  <2>2. Cell!Store(v)
    BY <1>6, <2>1, SeenSteps DEF Filled, Cell!Store
  <2> QED  BY <2>2
<1>7. CASE OwnerStep
  BY <1>7, <1>u, <1>2, <1>4, <1>5, OwnerUnseen DEF OwnerStep
<1>8. CASE OwnerCall
  BY <1>8, <1>u, <1>3, <1>4, OwnerUnseen, MemoryUnseen DEF OwnerCall, Cell!Next
<1>9. ASSUME NEW s \in Setters, SetterStep(s) \/ \E v \in Results : Claim(s, v)
      PROVE  [Cell!Next]_(Cell!vars)
  BY <1>9, <1>u, <1>6, SetterUnseen DEF SetterStep, Cell!Next
<1> QED  BY <1>1, <1>7, <1>8, <1>9 DEF Next

(* A wait queue entry is a result cell: all that the owner and the threads *)
(* do to it is to register it, to fill it once with a result and to read   *)
(* that result once or to take the cell back (WaitQueue, Entry::set_result *)
(* and try_consume_result).                                                *)
THEOREM EntryIsCell == Spec => CellSpec
<1>1. Init => Cell!Init
  BY DEF Init, Cell!Init
<1>2. IInv /\ [Next]_vars => [Cell!Next]_(Cell!vars)
  BY CellStep
<1> QED  BY <1>1, <1>2, EntryInvariant, PTL DEF Spec, CellSpec, Cell!Spec
=============================================================================
