-------------------------------- MODULE Gate --------------------------------
(***************************************************************************)
(* The gate (src/src/gate.rs).  Its word holds one of three states and the *)
(* tail of the wait queue; the list that starts at the tail is `queue`,    *)
(* oldest entry first.  LOCKED_FLAG is never used: whoever wakes the       *)
(* waiters detaches the whole list with one atomic update of the word.     *)
(*                                                                         *)
(* Tasks enter, blocking, asynchronously or through a Pager; Controllers   *)
(* permit, reject, open, seal and reset.  pc[t] says where a task is:      *)
(*   idle     outside the library                                          *)
(*   enter    about to load the word, in push_wait_queue_entry             *)
(*   push     about to CAS its entry onto the queue, from snap[t]          *)
(*   wait     its entry is enqueued, or a result was stored in it          *)
(*   drop     dropping a Pager without a result, before wake_all           *)
(*   waking   in wake_all, storing results in the detached entries         *)
(*   ack      in acknowledge_result_sync                                   *)
(*   reset    reset has changed the word and returns the state before      *)
(***************************************************************************)
EXTENDS Integers, Sequences

CONSTANTS Tasks,         \* threads and asynchronous tasks that enter
          Controllers,   \* threads that operate the gate
          NoTask,        \* the null tail address
          Cancellable    \* tasks whose entry may be dropped while waiting

ASSUME GateAssumption == /\ NoTask \notin Tasks
                         /\ Tasks \cap Controllers = {}
                         /\ Cancellable \subseteq Tasks

VARIABLES
    data,        \* the state of the gate
    queue,       \* the linked list of entries, oldest first
    pc,          \* per thread: location
    snap,        \* per task: local variable `state` of push_wait_queue_entry
    resolved,    \* per thread: detached entries still without a result
    value,       \* per thread: local variable `result` of wake_all
    result,      \* per task: the result stored in its entry
    verdict      \* history, per task: the operation that settled its entry

vars == <<data, queue, pc, snap, resolved, value, result, verdict>>

Threads == Tasks \cup Controllers

(* enum State and the errors of enum Error a task can be told by the gate. *)
Controlled == 0
Sealed     == 1
Open       == 2
States     == {Controlled, Sealed, Open}

Rejected        == 4
SealedError     == 8
SpuriousFailure == 12
NoError         == 0

NoResult == -1
Labels == {"idle", "enter", "push", "wait", "drop", "waking", "ack", "reset"}
Operations == {"permit", "reject", "open", "seal", "spurious", "sealed", "opened"}

(* Mutant of into_u8: the error is stored without its state bits cleared. *)
into_u8_shifted(s, e) == s + e + e

(* into_u8: the state and the error share a byte. *)
into_u8(s, e) == s + e

(* SyncResult::to_result: what the caller makes of that byte. *)
to_result(v) ==
    IF v \div 4 # 0 THEN [ok |-> FALSE, code |-> 4 * (v \div 4)]
                    ELSE [ok |-> TRUE,  code |-> v % 4]

Word == [data |-> data, tail |-> IF queue = <<>> THEN NoTask ELSE queue[Len(queue)]]

Initial == [data |-> Controlled, tail |-> NoTask]

InQueue(t) == \E i \in 1..Len(queue) : queue[i] = t
Pending(t) == \E u \in Threads : \E i \in 1..Len(resolved[u]) : resolved[u][i] = t

Goto(t, label) == pc' = [pc EXCEPT ![t] = label]

Init ==
    /\ data = Controlled /\ queue = <<>>
    /\ pc = [t \in Threads |-> "idle"]
    /\ snap = [t \in Tasks |-> Initial]
    /\ resolved = [t \in Threads |-> <<>>]
    /\ value = [t \in Threads |-> 0]
    /\ result = [t \in Tasks |-> NoResult]
    /\ verdict = [t \in Tasks |-> "none"]

-----------------------------------------------------------------------------
(* enter_async, enter_sync and register_pager, which all end up in         *)
(* push_wait_queue_entry.                                                  *)
Enter(t) ==
    /\ pc[t] = "idle"
    /\ Goto(t, "enter")
    /\ UNCHANGED <<data, queue, snap, resolved, value, result, verdict>>

EnterControlled(t) ==
    /\ pc[t] = "enter" /\ data = Controlled
    /\ snap' = [snap EXCEPT ![t] = Word]
    /\ Goto(t, "push")
    /\ UNCHANGED <<data, queue, resolved, value, result, verdict>>

(* The gate is sealed or open: the answer is stored in the own entry. *)
EnterSettled(t) ==
    /\ pc[t] = "enter" /\ data # Controlled
    /\ result' = [result EXCEPT ![t] = IF data = Sealed THEN into_u8(Sealed, SealedError)
                                                        ELSE into_u8(Open, NoError)]
    /\ verdict' = [verdict EXCEPT ![t] = IF data = Sealed THEN "sealed" ELSE "opened"]
    /\ Goto(t, "wait")
    /\ UNCHANGED <<data, queue, snap, resolved, value>>

(* Mutant: only the address is compared, so a state set meanwhile is kept. *)
PushOkByTail(t) ==
    /\ pc[t] = "push" /\ Word.tail = snap[t].tail
    /\ queue' = Append(queue, t)
    /\ Goto(t, "wait")
    /\ snap' = [snap EXCEPT ![t] = Initial]
    /\ UNCHANGED <<data, resolved, value, result, verdict>>

(* try_push_wait_queue_entry *)
PushOk(t) ==
    /\ pc[t] = "push" /\ Word = snap[t]
    /\ queue' = Append(queue, t)
    /\ Goto(t, "wait")
    /\ snap' = [snap EXCEPT ![t] = Initial]
    /\ UNCHANGED <<data, resolved, value, result, verdict>>

PushFailed(t) ==
    /\ pc[t] = "push" /\ Word # snap[t]
    /\ Goto(t, "enter")
    /\ snap' = [snap EXCEPT ![t] = Initial]
    /\ UNCHANGED <<data, queue, resolved, value, result, verdict>>

(* The finalized result is consumed by await, poll_sync or try_poll. *)
Poll(t) ==
    /\ pc[t] = "wait" /\ result[t] # NoResult
    /\ result' = [result EXCEPT ![t] = NoResult]
    /\ verdict' = [verdict EXCEPT ![t] = "none"]
    /\ Goto(t, "idle")
    /\ UNCHANGED <<data, queue, snap, resolved, value>>

-----------------------------------------------------------------------------
(* Mutant of wake_all: the detached entries are told the old state. *)
wake_all_old_state(t, next, error, operation) ==
    /\ data' = next /\ queue' = <<>>
    /\ resolved' = [resolved EXCEPT ![t] = queue]
    /\ value' = [value EXCEPT ![t] = into_u8(data, error)]
    /\ verdict' = [u \in Tasks |-> IF InQueue(u) THEN operation ELSE verdict[u]]
    /\ Goto(t, "waking")
    /\ UNCHANGED <<snap, result>>

(* Mutant: the state is changed and the waiters are left where they are. *)
wake_all_keeps_queue(t, next, error, operation) ==
    /\ data' = next
    /\ value' = [value EXCEPT ![t] = into_u8(next, error)]
    /\ Goto(t, "waking")
    /\ UNCHANGED <<queue, snap, resolved, result, verdict>>

(* wake_all: one update of the word sets the state and detaches the list. *)
wake_all(t, next, error, operation) ==
    /\ data' = next /\ queue' = <<>>
    /\ resolved' = [resolved EXCEPT ![t] = queue]
    /\ value' = [value EXCEPT ![t] = into_u8(next, error)]
    /\ verdict' = [u \in Tasks |-> IF InQueue(u) THEN operation ELSE verdict[u]]
    /\ Goto(t, "waking")
    /\ UNCHANGED <<snap, result>>

permit(c) == pc[c] = "idle" /\ wake_all(c, data, NoError, "permit")
reject(c) == pc[c] = "idle" /\ wake_all(c, data, Rejected, "reject")
open(c)   == pc[c] = "idle" /\ wake_all(c, Open, NoError, "open")
seal(c)   == pc[c] = "idle" /\ wake_all(c, Sealed, SealedError, "seal")

(* Mutant: a newer entry is taken from the list before it has a result. *)
SetResultSkips(t) ==
    /\ pc[t] = "waking" /\ resolved[t] # <<>>
    /\ result' = [result EXCEPT ![resolved[t][1]] = value[t]]
    /\ resolved' = [resolved EXCEPT ![t] = <<>>]
    /\ UNCHANGED <<data, queue, pc, snap, value, verdict>>

(* Entry::set_result on the newest detached entry (iter_forward). *)
SetResult(t) ==
    /\ pc[t] = "waking" /\ resolved[t] # <<>>
    /\ LET n == Len(resolved[t]) IN
       /\ result' = [result EXCEPT ![resolved[t][n]] = value[t]]
       /\ resolved' = [resolved EXCEPT ![t] = SubSeq(@, 1, n - 1)]
    /\ UNCHANGED <<data, queue, pc, snap, value, verdict>>

(* wake_all returns, to a controller or to the drop that called it. *)
WakeReturn(t) ==
    /\ pc[t] = "waking" /\ resolved[t] = <<>>
    /\ value' = [value EXCEPT ![t] = 0]
    /\ Goto(t, IF t \in Tasks THEN "ack" ELSE "idle")
    /\ UNCHANGED <<data, queue, snap, resolved, result, verdict>>

(* reset: a gate that is not controlled gets back the state it has. *)
reset(c) ==
    /\ pc[c] = "idle" /\ data # Controlled
    /\ data' = data
    /\ Goto(c, "reset")
    /\ UNCHANGED <<queue, snap, resolved, value, result, verdict>>

ResetReturn(c) ==
    /\ pc[c] = "reset"
    /\ Goto(c, "idle")
    /\ UNCHANGED <<data, queue, snap, resolved, value, result, verdict>>

-----------------------------------------------------------------------------
(* drop_wait_queue_entry: a result that is there is thrown away. *)
DropSettled(t) ==
    /\ pc[t] = "wait" /\ t \in Cancellable /\ result[t] # NoResult
    /\ result' = [result EXCEPT ![t] = NoResult]
    /\ verdict' = [verdict EXCEPT ![t] = "none"]
    /\ Goto(t, "idle")
    /\ UNCHANGED <<data, queue, snap, resolved, value>>

(* Without a result everybody is woken, to get the own entry out. *)
DropPending(t) ==
    /\ pc[t] = "wait" /\ t \in Cancellable /\ result[t] = NoResult
    /\ Goto(t, "drop")
    /\ UNCHANGED <<data, queue, snap, resolved, value, result, verdict>>

DropWake(t) == pc[t] = "drop" /\ wake_all(t, data, SpuriousFailure, "spurious")

(* acknowledge_result_sync: yields until the result is finalized. *)
Acknowledge(t) ==
    /\ pc[t] = "ack" /\ result[t] # NoResult
    /\ result' = [result EXCEPT ![t] = NoResult]
    /\ verdict' = [verdict EXCEPT ![t] = "none"]
    /\ Goto(t, "idle")
    /\ UNCHANGED <<data, queue, snap, resolved, value>>

-----------------------------------------------------------------------------
(* Steps the library takes once called, and the consumption of results. *)
TaskStep(t) == EnterControlled(t) \/ EnterSettled(t) \/ PushOk(t) \/ PushFailed(t)
               \/ Poll(t) \/ DropWake(t) \/ Acknowledge(t)

Waking(t) == SetResult(t) \/ WakeReturn(t)

Next == \/ \E t \in Tasks : Enter(t) \/ TaskStep(t) \/ DropSettled(t) \/ DropPending(t)
        \/ \E t \in Threads : Waking(t)
        \/ \E c \in Controllers : permit(c) \/ reject(c) \/ open(c) \/ seal(c)
                                \/ reset(c) \/ ResetReturn(c)

Spec == Init /\ [][Next]_vars

(* Threads run and woken tasks are polled; nobody must enter, drop or      *)
(* operate the gate.                                                       *)
FairSpec == /\ Spec
            /\ \A t \in Tasks : WF_vars(TaskStep(t))
            /\ \A t \in Threads : WF_vars(Waking(t))

-----------------------------------------------------------------------------
TypeOK ==
    /\ data \in States
    /\ queue \in Seq(Tasks)
    /\ pc \in [Threads -> Labels]
    /\ snap \in [Tasks -> [data : {Controlled}, tail : Tasks \cup {NoTask}]]
    /\ resolved \in [Threads -> Seq(Tasks)]
    /\ value \in [Threads -> 0..15]
    /\ result \in [Tasks -> -1..15]
    /\ verdict \in [Tasks -> Operations \cup {"none"}]

(* Nobody waits at a gate that is open or sealed: permit and reject woke   *)
(* nobody when they report an error (gate.rs:194, 239), and reset finds no *)
(* tail to throw away (145).                                               *)
NobodyWaitsAtSettledGate == data # Controlled => queue = <<>>

(* A waiting task is reachable in exactly one way until it has its result: *)
(* by the queue or by one list that one thread detached, whoever else      *)
(* wakes the gate or drops a Pager meanwhile.  Nobody else is reachable: a *)
(* dropped Pager stays in memory while somebody refers to it.              *)
ReachableOnce ==
    \A t \in Tasks :
        /\ pc[t] \in {"wait", "drop", "waking", "ack"} /\ result[t] = NoResult
           <=> InQueue(t) \/ Pending(t)
        /\ ~(InQueue(t) /\ Pending(t))
        /\ \A u, v \in Threads : \A i \in 1..Len(resolved[u]), j \in 1..Len(resolved[v]) :
               resolved[u][i] = t /\ resolved[v][j] = t => u = v /\ i = j

(* What a caller is told: by the operation that took its entry. *)
Told(operation) ==
    CASE operation = "permit"              -> [ok |-> TRUE,  code |-> Controlled]
      [] operation \in {"open", "opened"}  -> [ok |-> TRUE,  code |-> Open]
      [] operation \in {"seal", "sealed"}  -> [ok |-> FALSE, code |-> SealedError]
      [] operation = "reject"              -> [ok |-> FALSE, code |-> Rejected]
      [] operation = "spurious"            -> [ok |-> FALSE, code |-> SpuriousFailure]

(* Every task is told the answer of the operation that detached it, not of *)
(* one that ran in between, and decodes it to what that operation meant.   *)
AnswersMatch ==
    \A t \in Tasks :
        result[t] # NoResult => /\ verdict[t] # "none"
                                /\ to_result(result[t]) = Told(verdict[t])

(* A task waiting at a gate that was opened or sealed gets out, and so     *)
(* does one whose entry was detached.                                      *)
SettledGateEmpties ==
    \A t \in Tasks : pc[t] = "wait" /\ (data # Controlled \/ verdict[t] # "none")
                     ~> pc[t] # "wait"

(* Dropping a Pager terminates (gate.rs:597-603): it wakes itself if       *)
(* nobody else does.                                                       *)
DropTerminates == \A t \in Tasks : pc[t] = "drop" ~> pc[t] = "idle"
=============================================================================
