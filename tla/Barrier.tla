------------------------------- MODULE Barrier -------------------------------
(***************************************************************************)
(* The barrier (src/src/barrier.rs) on top of the wait queue protocol of   *)
(* SyncPrimitive.  The data bits count the tasks still missing.  A task    *)
(* that counts down enqueues itself; the last one empties the word, tells  *)
(* the waiters, puts the count back and tells those that came in between   *)
(* to try again.                                                           *)
(*                                                                         *)
(* Two more labels:                                                        *)
(*   releasing   the last task, telling the waiters, the count being 0     *)
(*   waking      the last task, telling those that must try again          *)
(***************************************************************************)
EXTENDS SyncPrimitive

CONSTANTS Count,      \* argument of with_count
          Regulars,   \* tasks that come to the barrier again and again
          Rounds      \* bound: how often each of the other tasks comes

MAX_TASKS == DATA_MASK

ASSUME BarrierAssumption == /\ max_shared_owners = MAX_TASKS
                            /\ Count \in 1..MAX_TASKS
                            /\ Regulars \subseteq Tasks /\ Rounds \in Nat

VARIABLES
    count,      \* per task: local variable `count` of count_down
    waitOnly,   \* per task: count_down returned the callback, try again
    rounds,     \* per task that is not regular: how often it came
    inBatch,    \* history: arrivals since the last complete batch
    credit,     \* history: tasks of complete batches that have not returned
    leaders     \* history: complete batches whose last task has not returned

barrierVars == <<count, waitOnly, rounds, inBatch, credit, leaders>>
allVars     == <<vars, barrierVars>>

RELEASED == 0
LAST     == 1
RETRY    == 2

(* with_count *)
Init ==
    /\ data = Count /\ locked = FALSE /\ queue = <<>>
    /\ pc = [t \in Tasks |-> "idle"]
    /\ op = [t \in Tasks |-> Exclusive]
    /\ snap = [t \in Tasks |-> Free]
    /\ outer = [t \in Tasks |-> Free]
    /\ then = [t \in Tasks |-> "idle"]
    /\ transferred = [t \in Tasks |-> 0]
    /\ resolved = [t \in Tasks |-> <<>>]
    /\ result = [t \in Tasks |-> NoResult]
    /\ holds = [t \in Tasks |-> 0]
    /\ count = [t \in Tasks |-> 0]
    /\ waitOnly = [t \in Tasks |-> FALSE]
    /\ rounds = [t \in Tasks |-> 0]
    /\ inBatch = 0 /\ credit = 0 /\ leaders = 0

-----------------------------------------------------------------------------
(* History: a task has arrived, has been told to pass. *)
Arrive == LET full == inBatch + 1 = Count IN
    /\ inBatch' = IF full THEN 0 ELSE inBatch + 1
    /\ credit'  = IF full THEN credit + Count ELSE credit
    /\ leaders' = IF full THEN leaders + 1 ELSE leaders

Pass(last) ==
    /\ credit' = credit - 1
    /\ leaders' = IF last THEN leaders - 1 ELSE leaders
    /\ UNCHANGED inBatch

(* wait_async, wait_sync and their _with forms *)
Call(t) ==
    /\ pc[t] = "idle"
    /\ IF t \in Regulars THEN UNCHANGED rounds
       ELSE rounds[t] < Rounds /\ rounds' = [rounds EXCEPT ![t] = @ + 1]
    /\ op' = [op EXCEPT ![t] = Barrier(FALSE)]
    /\ Goto(t, "try")
    /\ UNCHANGED <<word, locals, result, holds, count, waitOnly, inBatch, credit, leaders>>

(* count_down.  A failed CAS only reloads: it is a stutter where the entry *)
(* is not changed.                                                         *)

(* The count is being reset: wait for that, with an entry that counts 0. *)
TryZero(t) ==
    /\ pc[t] = "try" /\ data = 0
    /\ op' = [op EXCEPT ![t] = Barrier(TRUE)]
    /\ snap' = [snap EXCEPT ![t] = State]
    /\ Goto(t, "push")
    /\ UNCHANGED <<word, outer, then, transferred, resolved, result, holds, barrierVars>>

PushZero(t) ==
    /\ PushOk(t)
    /\ waitOnly' = [waitOnly EXCEPT ![t] = TRUE]
    /\ UNCHANGED <<count, rounds, inBatch, credit, leaders>>

(* Count down and push in one CAS. *)
CountDown(t) ==
    /\ pc[t] = "try" /\ data > 1
    /\ data' = data - 1
    /\ queue' = Append(queue, t)
    /\ waitOnly' = [waitOnly EXCEPT ![t] = FALSE]
    /\ Goto(t, "wait")
    /\ Arrive
    /\ UNCHANGED <<locked, op, locals, result, holds, count, rounds>>

(* Mutant: the count is put back at once, before the waiters are told. *)
LastKeepsCount(t) ==
    /\ pc[t] = "try" /\ data = 1
    /\ data' = Count /\ locked' = FALSE /\ queue' = <<>>
    /\ resolved' = [resolved EXCEPT ![t] = queue]
    /\ count' = [count EXCEPT ![t] = 1]
    /\ waitOnly' = [waitOnly EXCEPT ![t] = FALSE]
    /\ Goto(t, "releasing")
    /\ Arrive
    /\ UNCHANGED <<op, snap, outer, then, transferred, result, holds, rounds>>

(* The last task: one CAS of the whole word to 0, LOCKED_FLAG included. *)
Last(t) ==
    /\ pc[t] = "try" /\ data = 1
    /\ data' = 0 /\ locked' = FALSE /\ queue' = <<>>
    /\ resolved' = [resolved EXCEPT ![t] = queue]
    /\ count' = [count EXCEPT ![t] = 1]
    /\ waitOnly' = [waitOnly EXCEPT ![t] = FALSE]
    /\ Goto(t, "releasing")
    /\ Arrive
    /\ UNCHANGED <<op, snap, outer, then, transferred, result, holds, rounds>>

ReleaseOne(t) ==
    /\ pc[t] = "releasing" /\ SetResult(t, RELEASED)
    /\ count' = [count EXCEPT ![t] = @ + 1]
    /\ UNCHANGED <<waitOnly, rounds, inBatch, credit, leaders>>

(* Mutants: the count does not include the last task itself; tasks that    *)
(* came while the count was 0 are forgotten.                               *)
ResetOneShort(t) ==
    /\ pc[t] = "releasing" /\ resolved[t] = <<>>
    /\ data' = count[t] - 1 /\ locked' = FALSE /\ queue' = <<>>
    /\ resolved' = [resolved EXCEPT ![t] = queue]
    /\ count' = [count EXCEPT ![t] = 0]
    /\ Goto(t, "waking")
    /\ UNCHANGED <<op, snap, outer, then, transferred, result, holds,
                   waitOnly, rounds, inBatch, credit, leaders>>

ResetForgets(t) ==
    /\ pc[t] = "releasing" /\ resolved[t] = <<>>
    /\ data' = count[t] /\ locked' = FALSE /\ queue' = <<>>
    /\ count' = [count EXCEPT ![t] = 0]
    /\ Goto(t, "waking")
    /\ UNCHANGED <<op, locals, result, holds,
                   waitOnly, rounds, inBatch, credit, leaders>>

(* swap(count): put the count back and detach those who came meanwhile. *)
Reset(t) ==
    /\ pc[t] = "releasing" /\ resolved[t] = <<>>
    /\ data' = count[t] /\ locked' = FALSE /\ queue' = <<>>
    /\ resolved' = [resolved EXCEPT ![t] = queue]
    /\ count' = [count EXCEPT ![t] = 0]
    /\ Goto(t, "waking")
    /\ UNCHANGED <<op, snap, outer, then, transferred, result, holds,
                   waitOnly, rounds, inBatch, credit, leaders>>

WakeOne(t) == pc[t] = "waking" /\ SetResult(t, RETRY) /\ UNCHANGED barrierVars

(* Mutant: the last task is told the same as the others. *)
SetLastReleased(t) ==
    /\ pc[t] = "waking" /\ resolved[t] = <<>>
    /\ result' = [result EXCEPT ![t] = RELEASED]
    /\ Goto(t, "wait")
    /\ UNCHANGED <<word, op, locals, holds, barrierVars>>

(* The own result comes last; it is consumed like any other. *)
SetLast(t) ==
    /\ pc[t] = "waking" /\ resolved[t] = <<>>
    /\ result' = [result EXCEPT ![t] = LAST]
    /\ Goto(t, "wait")
    /\ UNCHANGED <<word, op, locals, holds, barrierVars>>

(* The result is consumed: count_down asked to try again, whatever it is. *)
PollRetry(t) ==
    /\ pc[t] = "wait" /\ result[t] # NoResult /\ waitOnly[t]
    /\ result' = [result EXCEPT ![t] = NoResult]
    /\ op' = [op EXCEPT ![t] = Barrier(FALSE)]
    /\ waitOnly' = [waitOnly EXCEPT ![t] = FALSE]
    /\ Goto(t, "try")
    /\ UNCHANGED <<word, locals, holds, count, rounds, inBatch, credit, leaders>>

(* to_result: TRUE for the last task only. *)
PollPass(t) ==
    /\ pc[t] = "wait" /\ result[t] # NoResult /\ ~waitOnly[t]
    /\ result' = [result EXCEPT ![t] = NoResult]
    /\ Return(t)
    /\ Pass(result[t] = LAST)
    /\ UNCHANGED <<word, holds, count, waitOnly, rounds>>

(* The steps of SyncPrimitive a barrier takes besides PushZero: a failed   *)
(* push, and force_remove_wait_queue_entry with all it calls.              *)
Dropping(t) == (PushFailed(t) \/ Release(t) \/ Process(t) \/ Cancel(t)) /\ UNCHANGED barrierVars

StartDrop(t) == Drop(t) /\ UNCHANGED barrierVars

-----------------------------------------------------------------------------
BarrierStep(t) == \/ TryZero(t) \/ PushZero(t) \/ CountDown(t) \/ Last(t)
                  \/ ReleaseOne(t) \/ Reset(t) \/ WakeOne(t) \/ SetLast(t)
                  \/ PollRetry(t) \/ PollPass(t) \/ Dropping(t)

Next == \E t \in Tasks : Call(t) \/ BarrierStep(t) \/ StartDrop(t)

Spec == Init /\ [][Next]_allVars

(* Threads run, woken tasks are polled, and tasks that may come do come. *)
FairSpec == Spec /\ \A t \in Tasks : WF_allVars(Call(t) \/ BarrierStep(t))

-----------------------------------------------------------------------------
(* "Waits until a sufficient number of tasks have reached the barrier"     *)
(* (barrier.rs:72): nobody returns before the batch it belongs to is       *)
(* complete.                                                               *)
NobodyPassesEarly == credit >= 0

(* Each batch has exactly one task that is told it was the last, never one *)
(* that must try again (barrier.rs:120, 171), and all of a batch return.   *)
OneLeaderEach ==
    /\ leaders >= 0
    /\ \A t \in Tasks : waitOnly[t] => result[t] # LAST
    /\ (\A t \in Tasks : pc[t] = "idle") => leaders = 0 /\ credit = 0 /\ inBatch = 0

Counted == {i \in 1..Len(queue) : ~waitOnly[queue[i]]}

(* The count is restored to what it was, although it is computed from the  *)
(* entries that were found: while nobody resets it, the tasks missing and  *)
(* the tasks waiting add up; while somebody does, no second task can be    *)
(* last and only tasks that will try again are in the queue.               *)
CountConserved ==
    IF \E t \in Tasks : pc[t] = "releasing"
    THEN /\ data = 0 /\ Counted = {}
         /\ \A t \in Tasks : pc[t] = "releasing" => count[t] + Len(resolved[t]) = Count
    ELSE data + Cardinality(Counted) = Count

(* LOCKED_FLAG "indicates that the wait queue is being processed by a      *)
(* thread" (wait_queue.rs:96), as remove_wait_queue_entry and              *)
(* process_wait_queue assert in each round (sync_primitive.rs:221, 125):   *)
(* nobody takes the flag from the task that works on the list.  The code   *)
(* breaks it: Last writes 0 over the flag of a waiter that is dropped.     *)
ProcessorHoldsFlag == \A t \in Tasks : Processing(t) => locked

(* Every wait ends, for as long as enough tasks come: a task that counted  *)
(* down passes, and one that found the count at 0 (barrier.rs:192) is told *)
(* to try again.  How often it must try again is not bounded: the others   *)
(* may complete a batch each time before it counts down.                   *)
EveryWaitEnds ==
    \A t \in Tasks : /\ pc[t] = "wait" /\ ~waitOnly[t] ~> pc[t] = "idle"
                     /\ pc[t] = "wait" /\ waitOnly[t] ~> pc[t] = "try"
=============================================================================
