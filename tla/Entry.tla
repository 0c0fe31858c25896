-------------------------------- MODULE Entry --------------------------------
(***************************************************************************)
(* One wait queue entry (src/src/wait_queue.rs) between its owner, who     *)
(* registers it, polls it and drops it through a Pager, a future or a      *)
(* blocking call, and the threads that store a result in it.  One action   *)
(* is one atomic access to `state`, one access to the unprotected monitor, *)
(* or one wake-up.                                                         *)
(*                                                                         *)
(* Of the primitive only this is known: an entry that is linked is claimed *)
(* by one thread or unlinked by its owner (NoLostWaiter of SyncPrimitive,  *)
(* ReachableOnce of Gate).  After a result was consumed the same entry may *)
(* be registered again while the thread that stored it is still about to   *)
(* wake the owner.                                                         *)
(***************************************************************************)
CONSTANTS Setters,    \* threads that store results
          Wakers,     \* wakers, or threads that can be unparked
          NoWaker,
          Bits,       \* the bits of a result code
          Results,    \* result codes, as sets of bits
          NoResult,
          NoSetter

ASSUME EntryAssumption ==
    /\ NoWaker \notin Wakers /\ NoSetter \notin Setters
    /\ Results \subseteq SUBSET Bits /\ \A v \in SUBSET Bits : v # NoResult

VARIABLES
    mem,        \* the memory of the entry: never constructed, live or freed
    mode,       \* which Monitor the entry has
    slot,       \* what the monitor holds
    state,      \* Entry::state, by its flags and the code
    pollable,   \* Entry::pollable
    linked,     \* how the primitive refers to the entry
    claimant,   \* the thread that is to store the result
    signaled,   \* wakers woken, and park tokens
    pc, cur, loaded,         \* owner: location, its waker, local `state`
    spc, seen, code, taken,  \* setters: location, local `state`, `result`, waker
    sent, got   \* history: the code stored for this registration, the one last read

entry  == <<mem, mode, slot, state, pollable, linked, claimant>>
owner  == <<pc, cur, loaded>>
setter == <<spc, seen, code, taken>>
vars   == <<entry, signaled, owner, setter, sent, got>>

States == [set : BOOLEAN, waker : BOOLEAN, fin : BOOLEAN, code : SUBSET Bits]
Zero   == [set |-> FALSE, waker |-> FALSE, fin |-> FALSE, code |-> {}]

OwnerLabels  == {"idle", "enqueue", "enqueued", "poll", "load", "recheck", "clear",
                 "install", "arm", "asleep", "drop"}
SetterLabels == {"idle", "mark", "load", "cas", "take", "finalize", "wake"}

Init ==
    /\ mem = "raw" /\ mode = "Sync" /\ slot = NoWaker /\ state = Zero /\ pollable = FALSE
    /\ linked = "no" /\ claimant = NoSetter /\ signaled = {}
    /\ pc = "idle" /\ cur \in Wakers /\ loaded = Zero
    /\ spc = [s \in Setters |-> "idle"]
    /\ seen = [s \in Setters |-> Zero]
    /\ code = [s \in Setters |-> {}]
    /\ taken = [s \in Setters |-> NoWaker]
    /\ sent = {} /\ got = NoResult

-----------------------------------------------------------------------------
(* WaitQueue::construct: a new entry, or an old one with a new monitor,    *)
(* whose `state` is left as it is.                                         *)
construct(m) ==
    /\ mem' = "live" /\ mode' = m /\ slot' = NoWaker
    /\ IF mem = "live" THEN UNCHANGED <<state, pollable>>
                       ELSE state' = Zero /\ pollable' = FALSE

(* register_pager, refused when the Pager is registered, or a new wait. *)
Register(m) ==
    /\ pc = "idle" /\ ~pollable
    /\ construct(m)
    /\ pc' = "enqueue"
    /\ UNCHANGED <<linked, claimant, signaled, cur, loaded, setter, sent, got>>

(* try_push_wait_queue_entry: the CAS that publishes the entry ... *)
Enqueue ==
    /\ pc = "enqueue"
    /\ linked' = "queued"
    /\ pc' = "enqueued"
    /\ UNCHANGED <<mem, mode, slot, state, pollable, claimant, signaled, cur, loaded, setter, sent, got>>

(* ... and set_pollable, which a setter may overtake. *)
SetPollable ==
    /\ pc = "enqueued"
    /\ pollable' = TRUE
    /\ pc' = "idle"
    /\ UNCHANGED <<mem, mode, slot, state, linked, claimant, signaled, cur, loaded, setter, sent, got>>

(* Nobody needs to be waited for: set_result on the own entry. *)
Settle(v) ==
    /\ pc = "enqueue"
    /\ state' = [state EXCEPT !.set = TRUE, !.fin = TRUE, !.code = @ \cup v]
    /\ pollable' = TRUE /\ linked' = "claimed" /\ sent' = v
    /\ pc' = "idle"
    /\ UNCHANGED <<mem, mode, slot, claimant, signaled, cur, loaded, setter, got>>

-----------------------------------------------------------------------------
(* try_consume_result: the condition and the effect. *)
Ready == state.fin

(* Mutant: the bits of the code stay behind. *)
ConsumeKeepsCode ==
    /\ state' = [Zero EXCEPT !.code = state.code] /\ pollable' = FALSE
    /\ linked' = "no" /\ claimant' = NoSetter /\ got' = state.code /\ sent' = {}
    /\ pc' = "idle"
    /\ UNCHANGED <<mem, mode, slot, signaled, cur, loaded, setter>>

(* Mutant: the code is read from the copy of `state` loaded before. *)
ConsumeLoaded ==
    /\ state' = Zero /\ pollable' = FALSE
    /\ linked' = "no" /\ claimant' = NoSetter /\ got' = loaded.code /\ sent' = {}
    /\ pc' = "idle"
    /\ UNCHANGED <<mem, mode, slot, signaled, cur, loaded, setter>>

Consume ==
    /\ state' = Zero /\ pollable' = FALSE
    /\ linked' = "no" /\ claimant' = NoSetter /\ got' = state.code /\ sent' = {}
    /\ pc' = "idle"
    /\ UNCHANGED <<mem, mode, slot, signaled, cur, loaded, setter>>

(* poll_sync, poll_async: the entry is registered. *)
Poll(w) ==
    /\ pc = "idle" /\ pollable
    /\ pc' = "poll" /\ cur' = w
    /\ UNCHANGED <<entry, signaled, loaded, setter, sent, got>>

TryPoll == pc = "idle" /\ pollable /\ Ready /\ Consume

PollReady == pc = "poll" /\ Ready /\ Consume

PollNotReady ==
    /\ pc = "poll" /\ ~Ready
    /\ pc' = "load"
    /\ UNCHANGED <<entry, signaled, cur, loaded, setter, sent, got>>

(* Mutant: an installed waker is replaced without clearing the flag. *)
LoadNoClear ==
    /\ pc = "load"
    /\ pc' = IF state.set THEN "recheck" ELSE "install"
    /\ UNCHANGED <<entry, signaled, cur, loaded, setter, sent, got>>

Load ==
    /\ pc = "load"
    /\ pc' = IF state.set THEN "recheck" ELSE IF state.waker THEN "clear" ELSE "install"
    /\ loaded' = IF pc' = "clear" THEN state ELSE loaded
    /\ UNCHANGED <<entry, signaled, cur, setter, sent, got>>

(* Not waiting to be woken: yield_now and go round, or wake_by_ref. *)
Again == IF mode = "Sync" THEN pc' = "poll" /\ UNCHANGED signaled
                          ELSE pc' = "asleep" /\ signaled' = signaled \cup {cur}

RecheckReady == pc = "recheck" /\ Ready /\ Consume

RecheckNotReady ==
    /\ pc = "recheck" /\ ~Ready
    /\ Again
    /\ UNCHANGED <<entry, cur, loaded, setter, sent, got>>

(* Clear WAKER_SET before the waker is replaced. *)
ClearOk ==
    /\ pc = "clear" /\ state = loaded
    /\ state' = [state EXCEPT !.waker = FALSE]
    /\ loaded' = Zero
    /\ pc' = "install"
    /\ UNCHANGED <<mem, mode, slot, pollable, linked, claimant, signaled, cur, setter, sent, got>>

(* The CAS is weak: it may fail without a reason. *)
ClearFailed ==
    /\ pc = "clear"
    /\ loaded' = Zero
    /\ Again
    /\ UNCHANGED <<entry, cur, setter, sent, got>>

Install ==
    /\ pc = "install"
    /\ slot' = cur
    /\ pc' = "arm"
    /\ UNCHANGED <<mem, mode, state, pollable, linked, claimant, signaled, cur, loaded, setter, sent, got>>

(* Mutant: the owner goes to sleep whatever fetch_or returned. *)
ArmAndSleep ==
    /\ pc = "arm"
    /\ state' = [state EXCEPT !.waker = TRUE]
    /\ pc' = "asleep"
    /\ UNCHANGED <<mem, mode, slot, pollable, linked, claimant, signaled, cur, loaded, setter, sent, got>>

(* fetch_or(WAKER_SET): park or return Pending, unless a result was set. *)
Arm ==
    /\ pc = "arm"
    /\ state' = [state EXCEPT !.waker = TRUE]
    /\ IF state.set THEN Again ELSE pc' = "asleep" /\ UNCHANGED signaled
    /\ UNCHANGED <<mem, mode, slot, pollable, linked, claimant, cur, loaded, setter, sent, got>>

(* A parked thread is unparked; a task is polled again, perhaps with       *)
(* another waker.                                                          *)
WakeUp(w) ==
    /\ pc = "asleep" /\ cur \in signaled
    /\ mode = "Sync" => w = cur
    /\ signaled' = signaled \ {cur}
    /\ pc' = "poll" /\ cur' = w
    /\ UNCHANGED <<entry, loaded, setter, sent, got>>

(* park returns for no reason; a task is polled for another one. *)
Spurious(w) ==
    /\ pc = "asleep"
    /\ mode = "Sync" => w = cur
    /\ pc' = "poll" /\ cur' = w
    /\ UNCHANGED <<entry, signaled, loaded, setter, sent, got>>

(* The future of poll_async is dropped and the Pager is kept. *)
Abandon ==
    /\ pc = "asleep" /\ mode = "Async"
    /\ pc' = "idle"
    /\ UNCHANGED <<entry, signaled, cur, loaded, setter, sent, got>>

-----------------------------------------------------------------------------
(* WaitQueue::drop and prepare_drop: what is not registered goes at once,  *)
(* anything else through drop_wait_queue_entry of the primitive.           *)
Free ==
    /\ mem' = "freed" /\ slot' = NoWaker /\ state' = Zero /\ pollable' = FALSE
    /\ linked' = "no" /\ claimant' = NoSetter /\ sent' = {}
    /\ pc' = "idle"
    /\ UNCHANGED <<mode, signaled, cur, loaded, setter, got>>

Droppable == pc = "idle" \/ (pc = "asleep" /\ mode = "Async")

DropIdle == Droppable /\ mem = "live" /\ ~pollable /\ Free

DropRegistered ==
    /\ Droppable /\ pollable
    /\ pc' = "drop"
    /\ UNCHANGED <<entry, signaled, cur, loaded, setter, sent, got>>

(* force_remove_wait_queue_entry found the entry in the queue. *)
DropRemoved == pc = "drop" /\ linked = "queued" /\ Free

(* Mutant: a claimed entry is freed without waiting for the result. *)
DropClaimedAtOnce == pc = "drop" /\ linked = "claimed" /\ Free

(* Or it waits for result_finalized (acknowledge_result_sync in a gate).   *)
(* What the drop does besides, waiting for LOCKED_FLAG before and giving   *)
(* back the units after (sync_primitive.rs:285, 319), is in SyncPrimitive. *)
DropClaimed == pc = "drop" /\ linked = "claimed" /\ Ready /\ Free

-----------------------------------------------------------------------------
(* A thread takes the entry off the queue, with a result for it. *)
Claim(s, v) ==
    /\ spc[s] = "idle" /\ linked = "queued"
    /\ linked' = "claimed" /\ claimant' = s /\ sent' = v
    /\ code' = [code EXCEPT ![s] = v]
    /\ spc' = [spc EXCEPT ![s] = "mark"]
    /\ UNCHANGED <<mem, mode, slot, state, pollable, signaled, owner, seen, taken, got>>

(* set_result *)
Mark(s) ==
    /\ spc[s] = "mark"
    /\ pollable' = TRUE
    /\ spc' = [spc EXCEPT ![s] = "load"]
    /\ UNCHANGED <<mem, mode, slot, state, linked, claimant, signaled, owner, seen, code, taken, sent, got>>

SetterLoad(s) ==
    /\ spc[s] = "load"
    /\ seen' = [seen EXCEPT ![s] = state]
    /\ spc' = [spc EXCEPT ![s] = "cas"]
    /\ UNCHANGED <<entry, signaled, owner, code, taken, sent, got>>

CasOk(s) ==
    /\ spc[s] = "cas" /\ state = seen[s]
    /\ state' = [state EXCEPT !.set = TRUE, !.code = @ \cup code[s]]
    /\ spc' = [spc EXCEPT ![s] = IF state.waker THEN "take" ELSE "finalize"]
    /\ seen' = [seen EXCEPT ![s] = Zero]
    /\ code' = [code EXCEPT ![s] = {}]
    /\ UNCHANGED <<mem, mode, slot, pollable, linked, claimant, signaled, owner, taken, sent, got>>

CasFailed(s) ==
    /\ spc[s] = "cas" /\ state # seen[s]
    /\ seen' = [seen EXCEPT ![s] = state]
    /\ UNCHANGED <<entry, signaled, owner, spc, code, taken, sent, got>>

(* The waker or thread is taken out of the monitor. *)
Take(s) ==
    /\ spc[s] = "take"
    /\ taken' = [taken EXCEPT ![s] = slot]
    /\ slot' = NoWaker
    /\ spc' = [spc EXCEPT ![s] = "finalize"]
    /\ UNCHANGED <<mem, mode, state, pollable, linked, claimant, signaled, owner, seen, code, sent, got>>

(* Mutant: nobody is woken once the result is finalized. *)
FinalizeOnly(s) ==
    /\ spc[s] = "finalize"
    /\ state' = [state EXCEPT !.fin = TRUE]
    /\ taken' = [taken EXCEPT ![s] = NoWaker]
    /\ spc' = [spc EXCEPT ![s] = "idle"]
    /\ UNCHANGED <<mem, mode, slot, pollable, linked, claimant, signaled, owner, seen, code, sent, got>>

(* Mutant: a waker is expected where none was installed. *)
FinalizeAndWake(s) ==
    /\ spc[s] = "finalize"
    /\ state' = [state EXCEPT !.fin = TRUE]
    /\ spc' = [spc EXCEPT ![s] = "wake"]
    /\ UNCHANGED <<mem, mode, slot, pollable, linked, claimant, signaled, owner, seen, code, taken, sent, got>>

Finalize(s) ==
    /\ spc[s] = "finalize"
    /\ state' = [state EXCEPT !.fin = TRUE]
    /\ spc' = [spc EXCEPT ![s] = IF taken[s] = NoWaker THEN "idle" ELSE "wake"]
    /\ UNCHANGED <<mem, mode, slot, pollable, linked, claimant, signaled, owner, seen, code, taken, sent, got>>

(* wake or unpark: the entry is not touched any more. *)
Wake(s) ==
    /\ spc[s] = "wake"
    /\ signaled' = signaled \cup {taken[s]}
    /\ taken' = [taken EXCEPT ![s] = NoWaker]
    /\ spc' = [spc EXCEPT ![s] = "idle"]
    /\ UNCHANGED <<entry, owner, seen, code, sent, got>>

-----------------------------------------------------------------------------
(* What the owner does by itself once it polls, registers or drops. *)
OwnerStep == \/ Enqueue \/ SetPollable \/ PollReady \/ PollNotReady \/ Load
             \/ RecheckReady \/ RecheckNotReady \/ ClearOk \/ ClearFailed
             \/ Install \/ Arm \/ DropRemoved \/ DropClaimed
             \/ \E w \in Wakers : WakeUp(w)

OwnerCall == \/ \E m \in {"Sync", "Async"} : Register(m)
             \/ \E v \in Results : Settle(v)
             \/ \E w \in Wakers : Poll(w) \/ Spurious(w)
             \/ TryPoll \/ Abandon \/ DropIdle \/ DropRegistered

SetterStep(s) == \/ Mark(s) \/ SetterLoad(s) \/ CasOk(s) \/ CasFailed(s)
                 \/ Take(s) \/ Finalize(s) \/ Wake(s)

Next == \/ OwnerStep \/ OwnerCall
        \/ \E s \in Setters : SetterStep(s) \/ \E v \in Results : Claim(s, v)

Spec == Init /\ [][Next]_vars

(* Threads run, a task that was woken is polled again, and polls without a *)
(* wake-up do not make the CAS of a setter fail for ever.                  *)
FairSpec == /\ Spec /\ WF_vars(OwnerStep)
            /\ \A s \in Setters : WF_vars(SetterStep(s)) /\ SF_vars(CasOk(s))

-----------------------------------------------------------------------------
TypeOK ==
    /\ mem \in {"raw", "live", "freed"} /\ mode \in {"Sync", "Async"}
    /\ slot \in Wakers \cup {NoWaker}
    /\ state \in States /\ pollable \in BOOLEAN
    /\ linked \in {"no", "queued", "claimed"} /\ claimant \in Setters \cup {NoSetter}
    /\ signaled \subseteq Wakers
    /\ pc \in OwnerLabels /\ cur \in Wakers /\ loaded \in States
    /\ spc \in [Setters -> SetterLabels] /\ seen \in [Setters -> States]
    /\ code \in [Setters -> SUBSET Bits] /\ taken \in [Setters -> Wakers \cup {NoWaker}]
    /\ sent \in SUBSET Bits /\ (got = NoResult \/ got \in SUBSET Bits)

(* A setter between claiming the entry and its last access to it. *)
Touching(s) == spc[s] \in {"mark", "load", "cas", "take", "finalize"}

(* No use after free, and none after reuse: whoever is inside set_result   *)
(* works on a live entry and on the registration it claimed; the owner can *)
(* neither consume, free nor reuse the entry under it (the order of        *)
(* wait_queue.rs:464-465).                                                 *)
NoUseAfterFree == \A s \in Setters : Touching(s) => mem = "live" /\ linked = "claimed" /\ claimant = s

(* The monitor is not protected by anything but the protocol: the owner    *)
(* never writes it while a setter takes the waker out of it.               *)
MonitorExclusive == \A s \in Setters : spc[s] = "take" => pc # "install"

(* wait_queue.rs:441, 442 and 562: a result is stored once per             *)
(* registration, into a state word that was cleared, and is set before it  *)
(* is finalized; what can be read is what was stored.                      *)
StoredOnce ==
    /\ \A s \in Setters : spc[s] = "cas" => ~seen[s].set /\ ~seen[s].fin
    /\ state.fin => state.set
    /\ IF state.set THEN linked = "claimed" /\ state.code = sent ELSE state.code = {}

(* Somebody is going to wake waker w, or has. *)
WakeOwed(w) ==
    \/ w \in signaled
    \/ \E s \in Setters : taken[s] = w /\ spc[s] \in {"finalize", "wake"}
    \/ \E s \in Setters : spc[s] \in {"mark", "load", "cas"} /\ state.waker /\ slot = w
    \/ \E s \in Setters : spc[s] = "take" /\ slot = w

(* No lost wake-up: an owner that sleeps while its result is on the way is *)
(* going to be woken through the waker it gave last, however often it      *)
(* replaced it.                                                            *)
NoLostWakeup == pc = "asleep" /\ linked = "claimed" => WakeOwed(cur)

(* Once a thread has claimed the entry, a poll returns and a drop need not *)
(* wait for the entry any longer (sync_primitive.rs:316).                  *)
PollReturns == pc \notin {"idle", "enqueue", "enqueued"} /\ linked = "claimed" ~> pc = "idle"

(* The entry is a result cell: filled once, read once. *)
Cell == INSTANCE ResultCell WITH
            waiting <- linked # "no",
            result  <- IF state.fin /\ linked = "claimed" THEN state.code ELSE NoResult

CellSpec == Cell!Spec
=============================================================================
