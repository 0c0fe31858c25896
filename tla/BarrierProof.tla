---------------------------- MODULE BarrierProof ----------------------------
(***************************************************************************)
(* The safety of the barrier, for any number of tasks, any size of the     *)
(* batches and any number of rounds.  The code keeps it in two cases: when *)
(* no entry is dropped, batches are complete and have one leader; when the *)
(* tasks that come are too few for a batch, dropped entries lose nobody.   *)
(***************************************************************************)
EXTENDS Barrier, SyncPrimitiveProof

(* The locations and values of a barrier without dropped entries. *)
Phases == {"idle", "try", "push", "wait", "releasing", "waking"}
Leading == {"releasing", "waking"}

BatchType ==
    /\ data \in 0..DATA_MASK /\ locked = FALSE /\ queue \in Seq(Tasks)
    /\ pc \in [Tasks -> Phases] /\ snap \in [Tasks -> Words]
    /\ resolved \in [Tasks -> Seq(Tasks)]
    /\ result \in [Tasks -> {NoResult, RELEASED, LAST, RETRY}]
    /\ count \in [Tasks -> Nat] /\ waitOnly \in [Tasks -> BOOLEAN]

(* Whoever waits without a result is reachable, by the queue or by one     *)
(* list of a last task, and nobody else is.                                *)
ReachBatch ==
    \A t \in Tasks :
        /\ pc[t] = "wait" /\ result[t] = NoResult <=> InQueue(t) \/ Pending(t)
        /\ ~(InQueue(t) /\ Pending(t))
        /\ result[t] # NoResult => pc[t] = "wait"
        /\ resolved[t] # <<>> => pc[t] \in Leading
LinkInv == ReachBatch /\ QueueOnce /\ ListOnce

(* What the last task goes through: first the batch, which it counts, then *)
(* those that came while the count was 0.                                  *)
Leads(t) ==
    /\ pc[t] \in Leading \/ result[t] = LAST => ~waitOnly[t]
    /\ pc[t] = "push" => snap[t].data = 0
    /\ pc[t] = "releasing" => /\ \A i \in 1..Len(resolved[t]) : ~waitOnly[resolved[t][i]]
                             /\ count[t] + Len(resolved[t]) = Count
    /\ pc[t] = "waking" => \A i \in 1..Len(resolved[t]) : waitOnly[resolved[t][i]]
LeaderInv == \A t \in Tasks : Leads(t)

(* The count is 0 while one task resets it, and then the queue has only    *)
(* those that must try again.                                              *)
OneLast == \A t, u \in Tasks : pc[t] = "releasing" /\ pc[u] = "releasing" => t = u
Resetting == \E t \in Tasks : pc[t] = "releasing"
PhaseInv ==
    /\ Resetting => /\ data = 0 /\ inBatch = 0
                    /\ \A i \in 1..Len(queue) : waitOnly[queue[i]]
    /\ ~Resetting => /\ data >= 1 /\ data + Len(queue) = Count /\ inBatch = Len(queue)
                     /\ \A i \in 1..Len(queue) : ~waitOnly[queue[i]]

(* The tasks of complete batches, and their leaders, that have not         *)
(* returned.                                                               *)
IsLeader(t) == pc[t] \in Leading \/ result[t] = LAST
IsOwed(t)   == pc[t] \in Leading \/ (pc[t] = "wait" /\ ~waitOnly[t] /\ ~InQueue(t))
Leaders == {t \in Tasks : IsLeader(t)}
Owed    == {t \in Tasks : IsOwed(t)}
HistoryInv == credit = Cardinality(Owed) /\ leaders = Cardinality(Leaders)

BatchInv == BatchType /\ LinkInv /\ LeaderInv /\ OneLast /\ PhaseInv

USE DEF NoResult, RELEASED, LAST, RETRY

LEMMA BatchCount == Count \in Nat /\ Count >= 1 /\ Count <= DATA_MASK /\ DATA_MASK \in Nat
  BY BarrierAssumption, DataMaskAssumption DEF MAX_TASKS
-----------------------------------------------------------------------------
(* What each kind of step does to the entries. *)
Others(t) == \A u \in Tasks \ {t} : pc'[u] = pc[u]

Strolls(t) ==
    /\ queue' = queue /\ resolved' = resolved /\ result' = result /\ Others(t)
    /\ pc[t] \in {"idle", "try", "push"} /\ pc'[t] \in {"idle", "try", "push"}

LEMMA StrollsLinks ==
    ASSUME LinkInv, NEW t \in Tasks, Strolls(t)
    PROVE  LinkInv'
<1>1. \A u \in Tasks : (InQueue(u)' <=> InQueue(u)) /\ (Pending(u)' <=> Pending(u))
  BY DEF Strolls, InQueue, Pending
<1>2. ReachBatch'
  BY <1>1 DEF LinkInv, ReachBatch, Strolls, Others, Leading
<1> QED  BY <1>2 DEF LinkInv, QueueOnce, ListOnce, Strolls

(* A task gets into the queue. *)
Joins(t) ==
    /\ queue' = Append(queue, t) /\ resolved' = resolved /\ result' = result /\ Others(t)
    /\ pc[t] \in {"try", "push"} /\ pc'[t] = "wait"

LEMMA JoinsLinks ==
    ASSUME BatchType, LinkInv, NEW t \in Tasks, Joins(t)
    PROVE  /\ LinkInv' /\ ~InQueue(t) /\ result[t] = NoResult
           /\ queue' \in Seq(Tasks) /\ Len(queue') = Len(queue) + 1 /\ queue'[Len(queue) + 1] = t
           /\ \A i \in 1..Len(queue) : queue'[i] = queue[i] /\ queue[i] # t
           /\ \A u \in Tasks : InQueue(u)' <=> InQueue(u) \/ u = t
<1>0. queue \in Seq(Tasks)
  BY DEF BatchType
<1>1. /\ queue' \in Seq(Tasks) /\ Len(queue') = Len(queue) + 1 /\ queue'[Len(queue) + 1] = t
      /\ Len(queue) \in Nat /\ \A i \in 1..Len(queue) : queue'[i] = queue[i]
  BY <1>0 DEF Joins
<1>2. ~InQueue(t) /\ ~Pending(t) /\ result[t] = NoResult
  BY DEF LinkInv, ReachBatch, Joins
<1>3. \A u \in Tasks : Pending(u)' <=> Pending(u)
  BY DEF Joins, Pending
<1>4. ASSUME NEW u \in Tasks PROVE InQueue(u)' <=> InQueue(u) \/ u = t
  <2>1. ASSUME InQueue(u) PROVE InQueue(u)'
    BY <1>1, <2>1 DEF InQueue
  <2>2. InQueue(t)'
    BY <1>1 DEF InQueue
  <2>3. ASSUME InQueue(u)', u # t PROVE InQueue(u)
    BY <1>1, <2>3 DEF InQueue
  <2> QED  BY <2>1, <2>2, <2>3
<1>5. ReachBatch'
  BY <1>2, <1>3, <1>4 DEF LinkInv, ReachBatch, Joins, Others, Leading
<1>6. QueueOnce'
  BY <1>1, <1>2 DEF LinkInv, QueueOnce, InQueue
<1>7. ListOnce'
  BY DEF LinkInv, ListOnce, Joins
<1>8. \A i \in 1..Len(queue) : queue[i] # t
  BY <1>2 DEF InQueue
<1> QED  BY <1>1, <1>2, <1>4, <1>5, <1>6, <1>7, <1>8 DEF LinkInv

(* A last task takes the whole queue. *)
Gathers(t) ==
    /\ queue' = <<>> /\ resolved' = [resolved EXCEPT ![t] = queue] /\ result' = result /\ Others(t)
    /\ pc[t] \in {"try", "releasing"} /\ pc'[t] \in Leading /\ resolved[t] = <<>>

LEMMA GathersLinks ==
    ASSUME BatchType, LinkInv, NEW t \in Tasks, Gathers(t)
    PROVE  /\ LinkInv' /\ resolved'[t] = queue /\ \A u \in Tasks \ {t} : resolved'[u] = resolved[u]
           /\ \A u \in Tasks : ~InQueue(u)'
<1>1. resolved'[t] = queue /\ \A u \in Tasks \ {t} : resolved'[u] = resolved[u]
  BY DEF BatchType, Gathers
<1>q. queue \in Seq(Tasks)
  BY DEF BatchType
<1>0. Len(resolved[t]) = 0 /\ Len(queue') = 0
  BY DEF Gathers
<1>2. \A u \in Tasks : ~InQueue(u)'
  BY <1>0 DEF InQueue
<1>3. \A u \in Tasks : Pending(u)' <=> Pending(u) \/ InQueue(u)
  BY <1>0, <1>1 DEF Pending, InQueue
<1>4. ReachBatch'
  <2>1. ASSUME NEW u \in Tasks
        PROVE  /\ pc'[u] = "wait" <=> pc[u] = "wait"
               /\ result'[u] # NoResult => pc'[u] = "wait"
               /\ resolved'[u] # <<>> => pc'[u] \in Leading
    BY <1>1 DEF LinkInv, ReachBatch, Gathers, Others, Leading
  <2> QED  BY <2>1, <1>2, <1>3 DEF LinkInv, ReachBatch, Gathers
<1>5. ListOnce'
  <2>1. ASSUME NEW u \in Tasks, NEW v \in Tasks, NEW i \in 1..Len(resolved'[u]),
               NEW j \in 1..Len(resolved'[v]), resolved'[u][i] = resolved'[v][j]
        PROVE  u = v /\ i = j
    <3>1. CASE u # t /\ v # t
      BY <3>1, <2>1, <1>1 DEF LinkInv, ListOnce
    <3>2. CASE u = t /\ v = t
      BY <3>2, <2>1, <1>1 DEF LinkInv, QueueOnce
    <3>3. \A w \in Tasks \ {t} : \A a \in 1..Len(queue), b \in 1..Len(resolved[w]) :
             queue[a] # resolved[w][b]
      <4> SUFFICES ASSUME NEW w \in Tasks \ {t}, NEW a \in 1..Len(queue),
                          NEW b \in 1..Len(resolved[w]), queue[a] = resolved[w][b]
                   PROVE  FALSE
        OBVIOUS
      <4>1. queue[a] \in Tasks
        BY <1>q
      <4> QED  BY <4>1 DEF LinkInv, ReachBatch, InQueue, Pending
    <3> QED  BY <2>1, <1>1, <3>1, <3>2, <3>3
  <2> QED  BY <2>1 DEF ListOnce
<1>6. QueueOnce'
  BY <1>0 DEF QueueOnce
<1> QED  BY <1>1, <1>2, <1>4, <1>5, <1>6 DEF LinkInv

(* A last task tells k, the newest of the n entries of its list. *)
Tells(t, value, n, k) ==
    /\ n = Len(resolved[t]) /\ k = resolved[t][n] /\ n \in 1..n
    /\ pc[k] = "wait" /\ result[k] = NoResult /\ ~InQueue(k)
    /\ result' = [result EXCEPT ![k] = value]
    /\ resolved' \in [Tasks -> Seq(Tasks)]
    /\ Len(resolved'[t]) = n - 1 /\ \A i \in 1..(n - 1) : resolved'[t][i] = resolved[t][i]
    /\ \A u \in Tasks \ {t} : resolved'[u] = resolved[u]
    /\ pc' = pc /\ queue' = queue /\ data' = data /\ locked' = locked /\ snap' = snap

LEMMA TellsLinks ==
    ASSUME BatchType, LinkInv, NEW t \in Tasks, NEW value \in {RELEASED, RETRY}, SetResult(t, value)
    PROVE  LinkInv' /\ \E n \in Nat \ {0}, k \in Tasks : Tells(t, value, n, k)
<1>0. /\ resolved \in [Tasks -> Seq(Tasks)] /\ resolved[t] \in Seq(Tasks) /\ resolved[t] # <<>>
      /\ result \in [Tasks -> {NoResult, RELEASED, LAST, RETRY}]
      /\ pc' = pc /\ queue' = queue /\ data' = data /\ locked' = locked /\ snap' = snap
  BY DEF BatchType, SetResult, word
<1>n. PICK n \in Nat : n = Len(resolved[t])
  BY <1>0
<1>k. PICK k \in Tasks : k = resolved[t][n]
  BY <1>0, <1>n
<1>f. PICK f \in Seq(Tasks) : f = SubSeq(resolved[t], 1, n - 1)
  BY <1>0, <1>n, FrontFacts
<1>1. /\ n >= 1 /\ result' = [result EXCEPT ![k] = value] /\ resolved' = [resolved EXCEPT ![t] = f]
      /\ Len(f) = n - 1 /\ \A i \in 1..(n - 1) : f[i] = resolved[t][i]
  BY <1>0, <1>n, <1>k, <1>f, FrontFacts DEF SetResult
<1>2. /\ resolved' \in [Tasks -> Seq(Tasks)]
      /\ Len(resolved'[t]) = n - 1 /\ \A i \in 1..(n - 1) : resolved'[t][i] = resolved[t][i]
      /\ \A u \in Tasks \ {t} : resolved'[u] = resolved[u]
  BY <1>0, <1>1
<1>3. n \in Nat \ {0} /\ n \in 1..n /\ n = Len(resolved[t]) /\ k = resolved[t][n]
  BY <1>1, <1>n, <1>k
<1>4. Pending(k) /\ pc[k] = "wait" /\ result[k] = NoResult /\ ~InQueue(k)
  <2>1. Pending(k)
    BY <1>3 DEF Pending
  <2> QED  BY <2>1 DEF LinkInv, ReachBatch
<1>5. ~Pending(k)'
  <2> SUFFICES ASSUME NEW u \in Tasks, NEW i \in 1..Len(resolved'[u]), resolved'[u][i] = k
               PROVE  FALSE
    BY DEF Pending
  <2>1. CASE u = t
    <3>1. i \in 1..n /\ i # n /\ resolved[t][i] = resolved[t][n]
      BY <2>1, <1>2, <1>3
    <3> QED  BY <3>1, <1>3 DEF LinkInv, ListOnce
  <2>2. CASE u # t
    <3>1. i \in 1..Len(resolved[u]) /\ resolved[u][i] = resolved[t][n]
      BY <2>2, <1>2, <1>3
    <3> QED  BY <2>2, <3>1, <1>3 DEF LinkInv, ListOnce
  <2> QED  BY <2>1, <2>2
<1>6. ASSUME NEW u \in Tasks, u # k PROVE Pending(u)' <=> Pending(u)
  <2>1. ASSUME Pending(u) PROVE Pending(u)'
    <3>1. PICK v \in Tasks : \E i \in 1..Len(resolved[v]) : resolved[v][i] = u
      BY <2>1 DEF Pending
    <3>2. CASE v = t
      <4>0. PICK i \in 1..n : resolved[t][i] = u
        BY <3>1, <3>2, <1>3
      <4>1. i \in 1..(n - 1)
        BY <4>0, <1>6, <1>3
      <4>2. i \in 1..Len(resolved'[t]) /\ resolved'[t][i] = u
        BY <4>0, <4>1, <1>2
      <4> QED  BY <4>2 DEF Pending
    <3>3. CASE v # t
      BY <3>1, <3>3, <1>2 DEF Pending
    <3> QED  BY <3>2, <3>3
  <2>2. ASSUME Pending(u)' PROVE Pending(u)
    <3>1. PICK v \in Tasks : \E i \in 1..Len(resolved'[v]) : resolved'[v][i] = u
      BY <2>2 DEF Pending
    <3>2. CASE v = t
      <4>0. PICK i \in 1..(n - 1) : resolved'[t][i] = u
        BY <3>1, <3>2, <1>2
      <4>1. i \in 1..n /\ resolved[t][i] = u
        BY <4>0, <1>2
      <4>2. i \in 1..Len(resolved[t])
        BY <4>1, <1>3
      <4> QED  BY <4>1, <4>2 DEF Pending
    <3>3. CASE v # t
      <4>1. resolved'[v] = resolved[v]
        BY <3>3, <1>2
      <4> QED  BY <3>1, <4>1 DEF Pending
    <3> QED  BY <3>2, <3>3
  <2> QED  BY <2>1, <2>2
<1>7. \A u \in Tasks : InQueue(u)' <=> InQueue(u)
  BY <1>0 DEF InQueue
<1>8. ReachBatch'
  <2>1. ASSUME NEW u \in Tasks
        PROVE  /\ result'[u] = NoResult <=> result[u] = NoResult /\ u # k
               /\ resolved'[u] # <<>> => resolved[u] # <<>>
    BY <1>0, <1>1, <1>2, <1>4
  <2> QED  BY <2>1, <1>0, <1>4, <1>5, <1>6, <1>7 DEF LinkInv, ReachBatch
<1>9. ListOnce'
  <2>1. ASSUME NEW u \in Tasks, NEW i \in 1..Len(resolved'[u])
        PROVE  i \in 1..Len(resolved[u]) /\ resolved'[u][i] = resolved[u][i]
    <3>1. CASE u = t
      <4>1. i \in 1..(n - 1) /\ i \in 1..n
        BY <2>1, <3>1, <1>2
      <4> QED  BY <3>1, <4>1, <1>2, <1>3
    <3>2. CASE u # t
      BY <2>1, <3>2, <1>2
    <3> QED  BY <3>1, <3>2
  <2> QED  BY <2>1 DEF LinkInv, ListOnce
<1>10. QueueOnce'
  BY <1>0 DEF LinkInv, QueueOnce
<1>11. Tells(t, value, n, k)
  BY <1>0, <1>1, <1>2, <1>3, <1>4 DEF Tells
<1> QED  BY <1>3, <1>8, <1>9, <1>10, <1>11 DEF LinkInv

(* A task gets or consumes its own result. *)
Settles(t) ==
    /\ queue' = queue /\ resolved' = resolved /\ Others(t) /\ resolved[t] = <<>>
    /\ \A u \in Tasks \ {t} : result'[u] = result[u]
    /\ \/ pc[t] = "waking" /\ pc'[t] = "wait" /\ result'[t] # NoResult
       \/ pc[t] = "wait" /\ result[t] # NoResult /\ pc'[t] \in {"try", "idle"} /\ result'[t] = NoResult

LEMMA SettlesLinks ==
    ASSUME LinkInv, NEW t \in Tasks, Settles(t)
    PROVE  LinkInv' /\ ~InQueue(t) /\ \A u \in Tasks : InQueue(u)' <=> InQueue(u)
<1>1. \A u \in Tasks : (InQueue(u)' <=> InQueue(u)) /\ (Pending(u)' <=> Pending(u))
  BY DEF Settles, InQueue, Pending
<1>2. ~InQueue(t) /\ ~Pending(t)
  BY DEF Settles, LinkInv, ReachBatch
<1>3. ReachBatch'
  BY <1>1, <1>2 DEF LinkInv, ReachBatch, Settles, Others, Leading
<1> QED  BY <1>1, <1>2, <1>3 DEF LinkInv, QueueOnce, ListOnce, Settles

-----------------------------------------------------------------------------
LEMMA BatchWord ==
    ASSUME BatchType
    PROVE  State \in Words /\ State.data = data /\ Free \in Words
<1>1. /\ data \in 0..DATA_MASK /\ locked \in BOOLEAN /\ queue \in Seq(Tasks)
  BY DEF BatchType
<1>2. State \in Words /\ State.data = data
  BY <1>1, WordFacts DEF State
<1> QED  BY <1>2, FreeFacts

(* Who is not in the wait is in no list, so its flag means nothing there. *)
LEMMA Unlisted ==
    ASSUME BatchType, LinkInv, NEW t \in Tasks, pc[t] # "wait" \/ result[t] # NoResult
    PROVE  /\ ~InQueue(t) /\ ~Pending(t)
           /\ \A i \in 1..Len(queue) : queue[i] \in Tasks \ {t}
           /\ \A u \in Tasks : \A i \in 1..Len(resolved[u]) : resolved[u][i] \in Tasks \ {t}
<1>1. ~InQueue(t) /\ ~Pending(t)
  BY DEF LinkInv, ReachBatch
<1>2. queue \in Seq(Tasks) /\ \A u \in Tasks : resolved[u] \in Seq(Tasks)
  BY DEF BatchType
<1>3. \A i \in 1..Len(queue) : queue[i] \in Tasks
  BY <1>2
<1>4. \A u \in Tasks : \A i \in 1..Len(resolved[u]) : resolved[u][i] \in Tasks
  BY <1>2
<1>5. \A i \in 1..Len(queue) : queue[i] # t
  BY <1>1 DEF InQueue
<1>6. \A u \in Tasks : \A i \in 1..Len(resolved[u]) : resolved[u][i] # t
  BY <1>1 DEF Pending
<1> QED  BY <1>1, <1>3, <1>4, <1>5, <1>6

LEMMA KeepsPhase ==
    ASSUME OneLast, PhaseInv, data' = data, queue' = queue, inBatch' = inBatch,
           \A i \in 1..Len(queue) : waitOnly'[queue[i]] = waitOnly[queue[i]],
           \A u \in Tasks : pc'[u] = "releasing" <=> pc[u] = "releasing"
    PROVE  OneLast' /\ PhaseInv'
<1>1. OneLast' /\ (Resetting' <=> Resetting)
  BY DEF OneLast, Resetting
<1> QED  BY <1>1 DEF PhaseInv

LEMMA KeepsLeads ==
    ASSUME NEW u \in Tasks, Leads(u),
           pc'[u] = pc[u], result'[u] = result[u], waitOnly'[u] = waitOnly[u],
           snap'[u] = snap[u], resolved'[u] = resolved[u], count'[u] = count[u],
           \A i \in 1..Len(resolved[u]) : waitOnly'[resolved[u][i]] = waitOnly[resolved[u][i]]
    PROVE  Leads(u)'
  BY DEF Leads

LEMMA StrollBatch ==
    ASSUME BatchInv, NEW t \in Tasks, Call(t) \/ TryZero(t) \/ (PushFailed(t) /\ UNCHANGED barrierVars)
    PROVE  BatchInv'
<1>t. BatchType /\ LinkInv /\ LeaderInv /\ OneLast /\ PhaseInv
  BY DEF BatchInv
<1>y. pc \in [Tasks -> Phases] /\ snap \in [Tasks -> Words]
  BY <1>t DEF BatchType
<1>1. /\ data' = data /\ locked' = locked /\ queue' = queue /\ resolved' = resolved /\ result' = result
      /\ count' = count /\ waitOnly' = waitOnly /\ inBatch' = inBatch
  BY DEF Call, TryZero, PushFailed, word, locals, barrierVars
<1>2. /\ pc[t] \in {"idle", "try", "push"} /\ pc' \in [Tasks -> Phases] /\ snap' \in [Tasks -> Words]
      /\ pc'[t] \in {"idle", "try", "push"} /\ Others(t)
      /\ \A u \in Tasks \ {t} : snap'[u] = snap[u]
      /\ pc'[t] = "push" => snap'[t].data = 0
  <2>1. CASE Call(t)
    BY <2>1, <1>y DEF Call, Goto, locals, Others, Phases
  <2>2. CASE TryZero(t)
    BY <2>2, <1>t, <1>y, BatchWord DEF TryZero, Goto, Others, Phases
  <2>3. CASE PushFailed(t)
    BY <2>3, <1>t, <1>y, BatchWord DEF PushFailed, Goto, Others, Phases
  <2> QED  BY <2>1, <2>2, <2>3
<1>3. LinkInv'
  BY <1>1, <1>2, <1>t, StrollsLinks DEF Strolls
<1>4. BatchType'
  BY <1>1, <1>2, <1>t DEF BatchType
<1>5. LeaderInv'
  BY <1>1, <1>2, <1>t DEF LeaderInv, Leads, Others, Leading
<1>6. OneLast' /\ PhaseInv'
  <2>1. \A u \in Tasks : pc'[u] = "releasing" <=> pc[u] = "releasing"
    BY <1>2 DEF Others
  <2> QED  BY <2>1, <1>1, <1>t, KeepsPhase
<1> QED  BY <1>3, <1>4, <1>5, <1>6 DEF BatchInv

LEMMA PushZeroBatch ==
    ASSUME BatchInv, NEW t \in Tasks, PushZero(t)
    PROVE  BatchInv'
<1>t. BatchType /\ LinkInv /\ LeaderInv /\ OneLast /\ PhaseInv
  BY DEF BatchInv
<1>y. pc \in [Tasks -> Phases] /\ snap \in [Tasks -> Words] /\ waitOnly \in [Tasks -> BOOLEAN]
      /\ queue \in Seq(Tasks)
  BY <1>t DEF BatchType
<1>1. /\ data' = data /\ locked' = locked /\ resolved' = resolved /\ result' = result
      /\ count' = count /\ inBatch' = inBatch /\ queue' = Append(queue, t) /\ pc[t] = "push"
      /\ State = snap[t] /\ waitOnly' = [waitOnly EXCEPT ![t] = TRUE]
      /\ pc' = [pc EXCEPT ![t] = "wait"] /\ snap' = [snap EXCEPT ![t] = Free]
  BY DEF PushZero, PushOk, Goto
<1>2. /\ pc' \in [Tasks -> Phases] /\ snap' \in [Tasks -> Words] /\ pc'[t] = "wait" /\ Others(t)
      /\ \A u \in Tasks \ {t} : snap'[u] = snap[u] /\ waitOnly'[u] = waitOnly[u]
      /\ waitOnly' \in [Tasks -> BOOLEAN] /\ waitOnly'[t] = TRUE
  BY <1>1, <1>y, <1>t, BatchWord DEF Others, Phases
<1>3. Resetting
  <2>1. data = 0
    BY <1>1, <1>t, BatchWord DEF LeaderInv, Leads
  <2> QED  BY <2>1, <1>t DEF PhaseInv
<1>4. /\ LinkInv' /\ queue' \in Seq(Tasks) /\ Len(queue') = Len(queue) + 1
      /\ queue'[Len(queue) + 1] = t /\ Len(queue) \in Nat
      /\ \A i \in 1..Len(queue) : queue'[i] = queue[i] /\ queue[i] # t /\ queue[i] \in Tasks
  BY <1>1, <1>2, <1>y, <1>t, JoinsLinks DEF Joins
<1>5. BatchType'
  BY <1>1, <1>2, <1>4, <1>t DEF BatchType
<1>6. /\ result[t] = NoResult
      /\ \A u \in Tasks : \A i \in 1..Len(resolved[u]) : resolved[u][i] \in Tasks \ {t}
  BY <1>1, <1>t, Unlisted DEF LinkInv, ReachBatch
<1>7. LeaderInv'
  <2>1. \A u \in Tasks : \A i \in 1..Len(resolved[u]) : waitOnly'[resolved[u][i]] = waitOnly[resolved[u][i]]
    BY <1>6, <1>2
  <2>2. \A u \in Tasks \ {t} : Leads(u)'
    BY <2>1, <1>1, <1>2, <1>t, KeepsLeads DEF LeaderInv, Others
  <2>3. Leads(t)'
    BY <1>1, <1>2, <1>6 DEF Leads, Leading
  <2> QED  BY <2>2, <2>3 DEF LeaderInv
<1>8. OneLast' /\ Resetting'
  BY <1>1, <1>2, <1>3, <1>t DEF OneLast, Others, Resetting
<1>9. PhaseInv'
  <2>1. \A i \in 1..Len(queue') : waitOnly'[queue'[i]]
    <3> SUFFICES ASSUME NEW i \in 1..Len(queue') PROVE waitOnly'[queue'[i]]
      OBVIOUS
    <3>1. i \in 1..Len(queue) \/ i = Len(queue) + 1
      BY <1>4
    <3>2. CASE i \in 1..Len(queue)
      <4>1. queue'[i] = queue[i] /\ queue[i] \in Tasks \ {t}
        BY <3>2, <1>4
      <4>2. waitOnly[queue[i]]
        BY <3>2, <1>3, <1>t DEF PhaseInv
      <4> QED  BY <4>1, <4>2, <1>2
    <3>3. CASE i = Len(queue) + 1
      BY <3>3, <1>2, <1>4
    <3> QED  BY <3>1, <3>2, <3>3
  <2> QED  BY <2>1, <1>1, <1>3, <1>8, <1>t DEF PhaseInv
<1> QED  BY <1>4, <1>5, <1>7, <1>8, <1>9 DEF BatchInv

LEMMA CountDownBatch ==
    ASSUME BatchInv, NEW t \in Tasks, CountDown(t)
    PROVE  BatchInv' /\ credit' = credit /\ leaders' = leaders
<1>t. BatchType /\ LinkInv /\ LeaderInv /\ OneLast /\ PhaseInv
  BY DEF BatchInv
<1>y. /\ pc \in [Tasks -> Phases] /\ waitOnly \in [Tasks -> BOOLEAN] /\ queue \in Seq(Tasks)
      /\ data \in 0..DATA_MASK
  BY <1>t DEF BatchType
<1>1. /\ locked' = locked /\ resolved' = resolved /\ result' = result /\ snap' = snap /\ count' = count
      /\ queue' = Append(queue, t) /\ pc[t] = "try" /\ data > 1 /\ data' = data - 1
      /\ waitOnly' = [waitOnly EXCEPT ![t] = FALSE] /\ pc' = [pc EXCEPT ![t] = "wait"]
  BY DEF CountDown, Goto, locals
<1>2. /\ pc' \in [Tasks -> Phases] /\ pc'[t] = "wait" /\ Others(t)
      /\ \A u \in Tasks \ {t} : waitOnly'[u] = waitOnly[u]
      /\ waitOnly' \in [Tasks -> BOOLEAN] /\ waitOnly'[t] = FALSE
  BY <1>1, <1>y DEF Others, Phases
<1>3. /\ ~Resetting /\ data + Len(queue) = Count /\ inBatch = Len(queue)
      /\ \A i \in 1..Len(queue) : ~waitOnly[queue[i]]
  BY <1>1, <1>t DEF PhaseInv
<1>4. /\ LinkInv' /\ queue' \in Seq(Tasks) /\ Len(queue') = Len(queue) + 1
      /\ queue'[Len(queue) + 1] = t /\ Len(queue) \in Nat
      /\ \A i \in 1..Len(queue) : queue'[i] = queue[i] /\ queue[i] # t /\ queue[i] \in Tasks
  BY <1>1, <1>2, <1>y, <1>t, JoinsLinks DEF Joins
<1>5. data' \in 0..DATA_MASK /\ data' >= 1 /\ data' + Len(queue') = Count
  <2>1. data \in Nat /\ data <= DATA_MASK /\ data > 1 /\ data' = data - 1
    BY <1>1, <1>y, BatchCount
  <2>2. data' + (Len(queue) + 1) = Count
    BY <2>1, <1>3, <1>4
  <2> QED  BY <2>1, <2>2, <1>4, BatchCount
<1>6. inBatch' = Len(queue') /\ credit' = credit /\ leaders' = leaders
  <2>1. inBatch + 1 # Count
    BY <1>1, <1>3, <1>4, <1>y, BatchCount
  <2> QED  BY <2>1, <1>3, <1>4 DEF CountDown, Arrive
<1>7. BatchType'
  BY <1>1, <1>2, <1>4, <1>5, <1>t DEF BatchType
<1>8. \A u \in Tasks : \A i \in 1..Len(resolved[u]) : resolved[u][i] \in Tasks \ {t}
  BY <1>1, <1>t, Unlisted
<1>9. LeaderInv'
  <2>1. \A u \in Tasks : \A i \in 1..Len(resolved[u]) : waitOnly'[resolved[u][i]] = waitOnly[resolved[u][i]]
    BY <1>8, <1>2
  <2>2. \A u \in Tasks \ {t} : Leads(u)'
    BY <2>1, <1>1, <1>2, <1>t, KeepsLeads DEF LeaderInv, Others
  <2>3. Leads(t)'
    BY <1>2 DEF Leads, Leading
  <2> QED  BY <2>2, <2>3 DEF LeaderInv
<1>10. OneLast' /\ ~Resetting'
  BY <1>1, <1>2, <1>3, <1>t DEF OneLast, Others, Resetting
<1>11. \A i \in 1..Len(queue') : ~waitOnly'[queue'[i]]
  <2> SUFFICES ASSUME NEW i \in 1..Len(queue') PROVE ~waitOnly'[queue'[i]]
    OBVIOUS
  <2>1. i \in 1..Len(queue) \/ i = Len(queue) + 1
    BY <1>4
  <2>2. CASE i \in 1..Len(queue)
    <3>1. queue'[i] = queue[i] /\ queue[i] \in Tasks \ {t}
      BY <2>2, <1>4
    <3> QED  BY <2>2, <3>1, <1>2, <1>3
  <2>3. CASE i = Len(queue) + 1
    BY <2>3, <1>2, <1>4
  <2> QED  BY <2>1, <2>2, <2>3
<1>12. PhaseInv'
  BY <1>5, <1>6, <1>10, <1>11 DEF PhaseInv
<1> QED  BY <1>4, <1>6, <1>7, <1>9, <1>10, <1>12 DEF BatchInv

LEMMA LastBatch ==
    ASSUME BatchInv, NEW t \in Tasks, Last(t)
    PROVE  /\ BatchInv' /\ credit' = credit + Count /\ leaders' = leaders + 1
           /\ Len(queue) = Count - 1 /\ \A i \in 1..Len(queue) : ~waitOnly[queue[i]]
<1>t. BatchType /\ LinkInv /\ LeaderInv /\ OneLast /\ PhaseInv
  BY DEF BatchInv
<1>y. /\ pc \in [Tasks -> Phases] /\ waitOnly \in [Tasks -> BOOLEAN] /\ queue \in Seq(Tasks)
      /\ count \in [Tasks -> Nat] /\ resolved \in [Tasks -> Seq(Tasks)]
  BY <1>t DEF BatchType
<1>1. /\ locked' = FALSE /\ result' = result /\ snap' = snap /\ data = 1 /\ data' = 0
      /\ queue' = <<>> /\ resolved' = [resolved EXCEPT ![t] = queue] /\ pc[t] = "try"
      /\ count' = [count EXCEPT ![t] = 1]
      /\ waitOnly' = [waitOnly EXCEPT ![t] = FALSE] /\ pc' = [pc EXCEPT ![t] = "releasing"]
  BY DEF Last, Goto
<1>2. /\ pc' \in [Tasks -> Phases] /\ pc'[t] = "releasing" /\ Others(t)
      /\ \A u \in Tasks \ {t} : waitOnly'[u] = waitOnly[u] /\ count'[u] = count[u]
      /\ waitOnly' \in [Tasks -> BOOLEAN] /\ waitOnly'[t] = FALSE
      /\ count' \in [Tasks -> Nat] /\ count'[t] = 1 /\ resolved' \in [Tasks -> Seq(Tasks)]
  BY <1>1, <1>y DEF Others, Phases
<1>3. /\ ~Resetting /\ data + Len(queue) = Count /\ inBatch = Len(queue)
      /\ \A i \in 1..Len(queue) : ~waitOnly[queue[i]]
  BY <1>1, <1>t DEF PhaseInv
<1>4. Len(queue) \in Nat /\ Len(queue) = Count - 1 /\ inBatch + 1 = Count
  BY <1>1, <1>3, <1>y, BatchCount
<1>5. inBatch' = 0 /\ credit' = credit + Count /\ leaders' = leaders + 1
  BY <1>4 DEF Last, Arrive
<1>6. resolved[t] = <<>>
  BY <1>1, <1>t DEF LinkInv, ReachBatch, Leading
<1>7. /\ LinkInv' /\ resolved'[t] = queue
      /\ \A u \in Tasks \ {t} : resolved'[u] = resolved[u]
  BY <1>1, <1>2, <1>6, <1>t, GathersLinks DEF Gathers, Leading
<1>8. BatchType'
  <2>1. 0 \in 0..DATA_MASK /\ <<>> \in Seq(Tasks)
    BY BatchCount
  <2> QED  BY <2>1, <1>1, <1>2, <1>t DEF BatchType
<1>9. /\ \A i \in 1..Len(queue) : queue[i] \in Tasks \ {t}
      /\ \A u \in Tasks : \A i \in 1..Len(resolved[u]) : resolved[u][i] \in Tasks \ {t}
  BY <1>1, <1>t, Unlisted
<1>10. LeaderInv'
  <2>1. \A u \in Tasks : \A i \in 1..Len(resolved[u]) : waitOnly'[resolved[u][i]] = waitOnly[resolved[u][i]]
    BY <1>9, <1>2
  <2>2. \A u \in Tasks \ {t} : Leads(u)'
    BY <2>1, <1>1, <1>2, <1>7, <1>t, KeepsLeads DEF LeaderInv, Others
  <2>3. \A i \in 1..Len(queue) : ~waitOnly'[queue[i]]
    BY <1>2, <1>3, <1>9
  <2>4. Leads(t)'
    BY <2>3, <1>2, <1>4, <1>7, BatchCount DEF Leads
  <2> QED  BY <2>2, <2>4 DEF LeaderInv
<1>11. OneLast' /\ Resetting'
  BY <1>2, <1>3 DEF OneLast, Others, Resetting
<1>12. PhaseInv'
  <2>1. Len(queue') = 0
    BY <1>1
  <2> QED  BY <2>1, <1>1, <1>5, <1>11 DEF PhaseInv
<1> QED  BY <1>3, <1>4, <1>5, <1>7, <1>8, <1>10, <1>11, <1>12 DEF BatchInv

(* The two loops that tell the entries of a list. *)
LEMMA TellBatch ==
    ASSUME BatchInv, NEW t \in Tasks, ReleaseOne(t) \/ WakeOne(t)
    PROVE  /\ BatchInv' /\ pc' = pc /\ queue' = queue /\ waitOnly' = waitOnly
           /\ credit' = credit /\ leaders' = leaders
           /\ \A u \in Tasks : result'[u] = LAST <=> result[u] = LAST
<1>t. BatchType /\ LinkInv /\ LeaderInv /\ OneLast /\ PhaseInv
  BY DEF BatchInv
<1>y. /\ result \in [Tasks -> {NoResult, RELEASED, LAST, RETRY}] /\ count \in [Tasks -> Nat]
  BY <1>t DEF BatchType
<1>1. PICK value \in {RELEASED, RETRY} : SetResult(t, value)
  BY DEF ReleaseOne, WakeOne
<1>l. LinkInv'
  BY <1>1, <1>t, TellsLinks
<1>k. PICK n \in Nat \ {0}, k \in Tasks : Tells(t, value, n, k)
  BY <1>1, <1>t, TellsLinks
<1>2. /\ n = Len(resolved[t]) /\ k = resolved[t][n] /\ n \in 1..n
      /\ pc[k] = "wait" /\ result[k] = NoResult /\ ~InQueue(k)
      /\ result' = [result EXCEPT ![k] = value]
      /\ resolved' \in [Tasks -> Seq(Tasks)]
      /\ Len(resolved'[t]) = n - 1 /\ \A i \in 1..(n - 1) : resolved'[t][i] = resolved[t][i]
      /\ \A u \in Tasks \ {t} : resolved'[u] = resolved[u]
      /\ pc' = pc /\ queue' = queue /\ data' = data /\ locked' = locked /\ snap' = snap
  BY <1>k DEF Tells
<1>3. /\ pc' = pc /\ queue' = queue /\ data' = data /\ locked' = locked /\ snap' = snap
      /\ waitOnly' = waitOnly /\ inBatch' = inBatch /\ credit' = credit /\ leaders' = leaders
      /\ \A u \in Tasks \ {t} : count'[u] = count[u]
      /\ count' \in [Tasks -> Nat]
      /\ pc[t] = "releasing" => count'[t] = count[t] + 1
      /\ pc[t] \in Leading
  <2>1. CASE ReleaseOne(t)
    BY <2>1, <1>2, <1>y DEF ReleaseOne, Leading
  <2>2. CASE WakeOne(t)
    BY <2>2, <1>2, <1>y DEF WakeOne, barrierVars, Leading
  <2> QED  BY <2>1, <2>2
<1>4. /\ result' \in [Tasks -> {NoResult, RELEASED, LAST, RETRY}]
      /\ \A u \in Tasks : result'[u] = LAST <=> result[u] = LAST
  BY <1>2, <1>y
<1>5. BatchType'
  BY <1>2, <1>3, <1>4, <1>t DEF BatchType
<1>6. ASSUME NEW u \in Tasks \ {t} PROVE Leads(u)'
  <2>1. Leads(u)
    BY <1>t DEF LeaderInv
  <2>2. /\ pc'[u] = pc[u] /\ waitOnly' = waitOnly /\ snap'[u] = snap[u] /\ count'[u] = count[u]
        /\ resolved'[u] = resolved[u]
    BY <1>2, <1>3
  <2> QED  BY <2>1, <2>2, <1>4 DEF Leads
<1>7. Leads(t)'
  <2>1. Leads(t) /\ count[t] \in Nat
    BY <1>t, <1>y DEF LeaderInv
  <2>2. pc[t] = "releasing" => count'[t] + (n - 1) = Count
    <3>1. ASSUME pc[t] = "releasing" PROVE count[t] + n = Count /\ count'[t] = count[t] + 1
      BY <3>1, <2>1, <1>2, <1>3 DEF Leads
    <3> QED  BY <3>1, <2>1
  <2>3. \A i \in 1..(n - 1) : i \in 1..n
    OBVIOUS
  <2> QED  BY <2>1, <2>2, <2>3, <1>2, <1>3, <1>4 DEF Leads
<1>8. OneLast' /\ PhaseInv'
  BY <1>3, <1>t, KeepsPhase
<1> QED  BY <1>l, <1>3, <1>4, <1>5, <1>6, <1>7, <1>8 DEF BatchInv, LeaderInv

LEMMA ResetBatch ==
    ASSUME BatchInv, NEW t \in Tasks, Reset(t)
    PROVE  /\ BatchInv' /\ credit' = credit /\ leaders' = leaders /\ waitOnly' = waitOnly
           /\ result' = result /\ Others(t) /\ pc[t] = "releasing" /\ pc'[t] = "waking"
           /\ \A i \in 1..Len(queue) : waitOnly[queue[i]]
           /\ \A u \in Tasks : ~InQueue(u)'
<1>t. BatchType /\ LinkInv /\ LeaderInv /\ OneLast /\ PhaseInv
  BY DEF BatchInv
<1>y. /\ pc \in [Tasks -> Phases] /\ queue \in Seq(Tasks)
      /\ count \in [Tasks -> Nat] /\ resolved \in [Tasks -> Seq(Tasks)]
  BY <1>t DEF BatchType
<1>1. /\ locked' = FALSE /\ result' = result /\ snap' = snap /\ data' = count[t]
      /\ queue' = <<>> /\ resolved[t] = <<>> /\ resolved' = [resolved EXCEPT ![t] = queue]
      /\ pc[t] = "releasing" /\ count' = [count EXCEPT ![t] = 0]
      /\ waitOnly' = waitOnly /\ pc' = [pc EXCEPT ![t] = "waking"]
      /\ inBatch' = inBatch /\ credit' = credit /\ leaders' = leaders
  BY DEF Reset, Goto
<1>2. /\ pc' \in [Tasks -> Phases] /\ pc'[t] = "waking" /\ Others(t)
      /\ \A u \in Tasks \ {t} : count'[u] = count[u]
      /\ count' \in [Tasks -> Nat] /\ resolved' \in [Tasks -> Seq(Tasks)]
  BY <1>1, <1>y DEF Others, Phases
<1>3. /\ Resetting /\ inBatch = 0 /\ \A i \in 1..Len(queue) : waitOnly[queue[i]]
  BY <1>1, <1>t DEF PhaseInv, Resetting
<1>4. data' = Count /\ Len(queue') = 0
  <2>1. Leads(t) /\ count[t] \in Nat /\ Len(resolved[t]) = 0
    BY <1>1, <1>t, <1>y DEF LeaderInv
  <2>2. count[t] = Count
    BY <2>1, <1>1 DEF Leads
  <2> QED  BY <2>2, <1>1
<1>5. /\ LinkInv' /\ resolved'[t] = queue
      /\ \A u \in Tasks \ {t} : resolved'[u] = resolved[u]
      /\ \A u \in Tasks : ~InQueue(u)'
  BY <1>1, <1>2, <1>t, GathersLinks DEF Gathers, Leading
<1>6. BatchType'
  <2>1. data' \in 0..DATA_MASK /\ queue' \in Seq(Tasks)
    BY <1>1, <1>4, BatchCount
  <2> QED  BY <2>1, <1>1, <1>2, <1>t DEF BatchType
<1>7. LeaderInv'
  <2>1. \A u \in Tasks \ {t} : Leads(u)'
    BY <1>1, <1>2, <1>5, <1>t, KeepsLeads DEF LeaderInv, Others
  <2>2. Leads(t)
    BY <1>t DEF LeaderInv
  <2>3. Leads(t)'
    BY <2>2, <1>1, <1>2, <1>3, <1>5 DEF Leads, Leading
  <2> QED  BY <2>1, <2>3 DEF LeaderInv
<1>8. OneLast' /\ ~Resetting'
  BY <1>1, <1>2, <1>t DEF OneLast, Others, Resetting
<1>9. PhaseInv'
  BY <1>1, <1>3, <1>4, <1>8, BatchCount DEF PhaseInv
<1> QED  BY <1>1, <1>2, <1>3, <1>5, <1>6, <1>7, <1>8, <1>9 DEF BatchInv

(* SetLast, PollRetry, PollPass. *)
LEMMA SettleBatch ==
    ASSUME BatchInv, NEW t \in Tasks, SetLast(t) \/ PollRetry(t) \/ PollPass(t)
    PROVE  /\ BatchInv' /\ Others(t) /\ queue' = queue /\ ~InQueue(t)
           /\ \A u \in Tasks \ {t} : result'[u] = result[u] /\ waitOnly'[u] = waitOnly[u]
<1>t. BatchType /\ LinkInv /\ LeaderInv /\ OneLast /\ PhaseInv
  BY DEF BatchInv
<1>y. /\ pc \in [Tasks -> Phases] /\ snap \in [Tasks -> Words] /\ waitOnly \in [Tasks -> BOOLEAN]
      /\ result \in [Tasks -> {NoResult, RELEASED, LAST, RETRY}]
  BY <1>t DEF BatchType
<1>f. Free \in Words
  BY FreeFacts
<1>0. resolved[t] = <<>>
  <2>1. pc[t] = "wait" => resolved[t] = <<>>
    BY <1>t DEF LinkInv, ReachBatch, Leading
  <2> QED  BY <2>1 DEF SetLast, PollRetry, PollPass
<1>1. /\ data' = data /\ locked' = locked /\ queue' = queue /\ resolved' = resolved
      /\ count' = count /\ inBatch' = inBatch
  BY DEF SetLast, PollRetry, PollPass, Return, Pass, word, locals, barrierVars
<1>2. /\ pc' \in [Tasks -> Phases] /\ Others(t) /\ snap' \in [Tasks -> Words]
      /\ \A u \in Tasks \ {t} : snap'[u] = snap[u] /\ result'[u] = result[u] /\ waitOnly'[u] = waitOnly[u]
      /\ result' \in [Tasks -> {NoResult, RELEASED, LAST, RETRY}] /\ waitOnly' \in [Tasks -> BOOLEAN]
      /\ \/ pc[t] = "waking" /\ pc'[t] = "wait" /\ result'[t] # NoResult /\ waitOnly'[t] = waitOnly[t]
         \/ /\ pc[t] = "wait" /\ result[t] # NoResult
            /\ pc'[t] \in {"try", "idle"} /\ result'[t] = NoResult
  <2>1. CASE SetLast(t)
    BY <2>1, <1>y DEF SetLast, Goto, Others, Phases, locals, barrierVars
  <2>2. CASE PollRetry(t)
    BY <2>2, <1>y DEF PollRetry, Goto, Others, Phases, locals
  <2>3. CASE PollPass(t)
    BY <2>3, <1>y, <1>f DEF PollPass, Return, Goto, Others, Phases
  <2> QED  BY <2>1, <2>2, <2>3
<1>3. LinkInv' /\ ~InQueue(t)
  BY <1>0, <1>1, <1>2, <1>t, SettlesLinks DEF Settles
<1>4. BatchType'
  BY <1>1, <1>2, <1>t DEF BatchType
<1>5. /\ \A i \in 1..Len(queue) : queue[i] \in Tasks \ {t}
      /\ \A u \in Tasks : \A i \in 1..Len(resolved[u]) : resolved[u][i] \in Tasks \ {t}
  BY <1>2, <1>t, Unlisted
<1>6. LeaderInv'
  <2>1. \A u \in Tasks : \A i \in 1..Len(resolved[u]) : waitOnly'[resolved[u][i]] = waitOnly[resolved[u][i]]
    BY <1>2, <1>5
  <2>2. \A u \in Tasks \ {t} : Leads(u)'
    BY <2>1, <1>1, <1>2, <1>t, KeepsLeads DEF LeaderInv, Others
  <2>3. Leads(t)
    BY <1>t DEF LeaderInv
  <2>4. Leads(t)'
    BY <2>3, <1>2 DEF Leads, Leading
  <2> QED  BY <2>2, <2>4 DEF LeaderInv
<1>7. OneLast' /\ PhaseInv'
  <2>1. \A i \in 1..Len(queue) : waitOnly'[queue[i]] = waitOnly[queue[i]]
    BY <1>2, <1>5
  <2>2. \A u \in Tasks : pc'[u] = "releasing" <=> pc[u] = "releasing"
    BY <1>2 DEF Others
  <2> QED  BY <2>1, <2>2, <1>1, <1>t, KeepsPhase
<1> QED  BY <1>1, <1>2, <1>3, <1>4, <1>6, <1>7 DEF BatchInv

-----------------------------------------------------------------------------
LEMMA SomeTasks ==
    ASSUME NEW S \in SUBSET Tasks
    PROVE  IsFiniteSet(S) /\ Cardinality(S) \in Nat
<1>1. IsFiniteSet(S)
  BY FiniteAssumption, FS_Subset
<1> QED  BY <1>1, FS_CardinalityType

LEMMA KeepsHistory ==
    ASSUME HistoryInv, credit' = credit, leaders' = leaders,
           \A u \in Tasks : (IsOwed(u)' <=> IsOwed(u)) /\ (IsLeader(u)' <=> IsLeader(u))
    PROVE  HistoryInv'
<1>1. Owed' = Owed /\ Leaders' = Leaders
  BY DEF Owed, Leaders
<1> QED  BY <1>1 DEF HistoryInv

LEMMA StrollHistory ==
    ASSUME BatchInv, HistoryInv, NEW t \in Tasks,
           Call(t) \/ TryZero(t) \/ (PushFailed(t) /\ UNCHANGED barrierVars)
    PROVE  HistoryInv'
<1>y. pc \in [Tasks -> Phases]
  BY DEF BatchInv, BatchType
<1>1. /\ queue' = queue /\ result' = result /\ waitOnly' = waitOnly
      /\ credit' = credit /\ leaders' = leaders
  BY DEF Call, TryZero, PushFailed, word, barrierVars
<1>2. Others(t) /\ pc[t] \in {"idle", "try", "push"} /\ pc'[t] \in {"idle", "try", "push"}
  BY <1>y DEF Call, TryZero, PushFailed, Goto, Others
<1>3. \A u \in Tasks : (IsOwed(u)' <=> IsOwed(u)) /\ (IsLeader(u)' <=> IsLeader(u))
  BY <1>1, <1>2 DEF IsOwed, IsLeader, Others, InQueue, Leading
<1> QED  BY <1>1, <1>3, KeepsHistory

LEMMA JoinHistory ==
    ASSUME BatchInv, HistoryInv, NEW t \in Tasks, PushZero(t) \/ CountDown(t)
    PROVE  HistoryInv'
<1>t. BatchType /\ LinkInv
  BY DEF BatchInv
<1>y. pc \in [Tasks -> Phases] /\ waitOnly \in [Tasks -> BOOLEAN]
  BY <1>t DEF BatchType
<1>1. /\ queue' = Append(queue, t) /\ result' = result /\ resolved' = resolved
      /\ credit' = credit /\ leaders' = leaders
  BY CountDownBatch DEF PushZero, PushOk, CountDown, locals
<1>2. /\ Others(t) /\ pc[t] \in {"try", "push"} /\ pc'[t] = "wait"
      /\ \A u \in Tasks \ {t} : waitOnly'[u] = waitOnly[u]
  BY <1>y DEF PushZero, PushOk, CountDown, Goto, Others
<1>3. \A u \in Tasks : InQueue(u)' <=> InQueue(u) \/ u = t
  BY <1>1, <1>2, <1>t, JoinsLinks DEF Joins
<1>4. \A u \in Tasks : (IsOwed(u)' <=> IsOwed(u)) /\ (IsLeader(u)' <=> IsLeader(u))
  BY <1>1, <1>2, <1>3 DEF IsOwed, IsLeader, Others, Leading
<1> QED  BY <1>1, <1>4, KeepsHistory

LEMMA TellHistory ==
    ASSUME BatchInv, HistoryInv, NEW t \in Tasks, ReleaseOne(t) \/ WakeOne(t)
    PROVE  HistoryInv'
<1>1. /\ pc' = pc /\ queue' = queue /\ waitOnly' = waitOnly /\ credit' = credit /\ leaders' = leaders
      /\ \A u \in Tasks : result'[u] = LAST <=> result[u] = LAST
  BY TellBatch
<1>2. \A u \in Tasks : (IsOwed(u)' <=> IsOwed(u)) /\ (IsLeader(u)' <=> IsLeader(u))
  BY <1>1 DEF IsOwed, IsLeader, InQueue
<1> QED  BY <1>1, <1>2, KeepsHistory

LEMMA ResetHistory ==
    ASSUME BatchInv, HistoryInv, NEW t \in Tasks, Reset(t)
    PROVE  HistoryInv'
<1>1. /\ credit' = credit /\ leaders' = leaders /\ waitOnly' = waitOnly
      /\ result' = result /\ Others(t) /\ pc[t] = "releasing" /\ pc'[t] = "waking"
      /\ \A i \in 1..Len(queue) : waitOnly[queue[i]]
      /\ \A u \in Tasks : ~InQueue(u)'
  BY ResetBatch
<1>2. \A u \in Tasks : InQueue(u) => waitOnly[u]
  BY <1>1 DEF InQueue
<1>3. \A u \in Tasks : (IsOwed(u)' <=> IsOwed(u)) /\ (IsLeader(u)' <=> IsLeader(u))
  BY <1>1, <1>2 DEF IsOwed, IsLeader, Others, Leading
<1> QED  BY <1>1, <1>3, KeepsHistory

LEMMA SettleHistory ==
    ASSUME BatchInv, HistoryInv, NEW t \in Tasks, SetLast(t) \/ PollRetry(t)
    PROVE  HistoryInv'
<1>t. BatchType /\ LinkInv /\ Leads(t)
  BY DEF BatchInv, LeaderInv
<1>y. /\ pc \in [Tasks -> Phases] /\ waitOnly \in [Tasks -> BOOLEAN]
      /\ result \in [Tasks -> {NoResult, RELEASED, LAST, RETRY}]
  BY <1>t DEF BatchType
<1>1. /\ Others(t) /\ queue' = queue /\ ~InQueue(t)
      /\ \A u \in Tasks \ {t} : result'[u] = result[u] /\ waitOnly'[u] = waitOnly[u]
  BY SettleBatch
<1>2. credit' = credit /\ leaders' = leaders
  BY DEF SetLast, PollRetry, barrierVars
<1>3. \/ pc[t] = "waking" /\ pc'[t] = "wait" /\ result'[t] = LAST /\ waitOnly'[t] = waitOnly[t]
      \/ pc[t] = "wait" /\ waitOnly[t] /\ pc'[t] = "try" /\ result'[t] = NoResult
  BY <1>y DEF SetLast, PollRetry, Goto, barrierVars
<1>4. \A u \in Tasks \ {t} : (IsOwed(u)' <=> IsOwed(u)) /\ (IsLeader(u)' <=> IsLeader(u))
  BY <1>1 DEF IsOwed, IsLeader, Others, InQueue
<1>5. ~InQueue(t)'
  BY <1>1 DEF InQueue
<1>6. (IsOwed(t)' <=> IsOwed(t)) /\ (IsLeader(t)' <=> IsLeader(t))
  BY <1>t, <1>1, <1>3, <1>5 DEF IsOwed, IsLeader, Leading, Leads
<1> QED  BY <1>2, <1>4, <1>6, KeepsHistory

LEMMA PassHistory ==
    ASSUME BatchInv, HistoryInv, NEW t \in Tasks, PollPass(t)
    PROVE  HistoryInv'
<1>t. BatchType /\ LinkInv /\ Leads(t)
  BY DEF BatchInv, LeaderInv
<1>y. /\ pc \in [Tasks -> Phases] /\ result \in [Tasks -> {NoResult, RELEASED, LAST, RETRY}]
  BY <1>t DEF BatchType
<1>1. /\ Others(t) /\ queue' = queue /\ ~InQueue(t)
      /\ \A u \in Tasks \ {t} : result'[u] = result[u] /\ waitOnly'[u] = waitOnly[u]
  BY SettleBatch
<1>2. /\ credit' = credit - 1 /\ leaders' = IF result[t] = LAST THEN leaders - 1 ELSE leaders
      /\ pc[t] = "wait" /\ ~waitOnly[t] /\ pc'[t] = "idle" /\ result'[t] = NoResult
  BY <1>y DEF PollPass, Pass, Return, Goto
<1>3. \A u \in Tasks \ {t} : (IsOwed(u)' <=> IsOwed(u)) /\ (IsLeader(u)' <=> IsLeader(u))
  BY <1>1 DEF IsOwed, IsLeader, Others, InQueue
<1>4. IsOwed(t) /\ ~IsOwed(t)' /\ ~IsLeader(t)' /\ (IsLeader(t) <=> result[t] = LAST)
  BY <1>1, <1>2 DEF IsOwed, IsLeader, Leading
<1>5. Owed' = Owed \ {t} /\ t \in Owed /\ Leaders' = Leaders \ {t} /\ (t \in Leaders <=> result[t] = LAST)
  BY <1>3, <1>4 DEF Owed, Leaders
<1>6. IsFiniteSet(Owed) /\ IsFiniteSet(Leaders)
  BY SomeTasks DEF Owed, Leaders
<1>7. Cardinality(Owed') = Cardinality(Owed) - 1
  BY <1>5, <1>6, FS_RemoveElement
<1>8. Cardinality(Leaders') = IF result[t] = LAST THEN Cardinality(Leaders) - 1 ELSE Cardinality(Leaders)
  BY <1>5, <1>6, FS_RemoveElement
<1> QED  BY <1>2, <1>7, <1>8 DEF HistoryInv

LEMMA LastHistory ==
    ASSUME BatchInv, HistoryInv, NEW t \in Tasks, Last(t)
    PROVE  HistoryInv'
<1>t. BatchType /\ LinkInv
  BY DEF BatchInv
<1>y. /\ pc \in [Tasks -> Phases] /\ waitOnly \in [Tasks -> BOOLEAN] /\ queue \in Seq(Tasks)
      /\ resolved \in [Tasks -> Seq(Tasks)]
  BY <1>t DEF BatchType
<1>1. /\ credit' = credit + Count /\ leaders' = leaders + 1 /\ Len(queue) = Count - 1
      /\ \A i \in 1..Len(queue) : ~waitOnly[queue[i]]
  BY LastBatch
<1>2. /\ Others(t) /\ pc[t] = "try" /\ pc'[t] = "releasing" /\ result' = result /\ queue' = <<>>
      /\ \A u \in Tasks \ {t} : waitOnly'[u] = waitOnly[u]
  BY <1>y DEF Last, Goto, Others
<1>3. /\ \A u \in Tasks : ~InQueue(u)'
      /\ \A u \in Tasks : InQueue(u) => pc[u] = "wait" /\ ~waitOnly[u]
      /\ ~InQueue(t) /\ result[t] = NoResult
  <2>1. \A u \in Tasks : ~InQueue(u)'
    BY <1>2 DEF InQueue
  <2>2. \A u \in Tasks : InQueue(u) => ~waitOnly[u]
    BY <1>1 DEF InQueue
  <2> QED  BY <2>1, <2>2, <1>2, <1>t DEF LinkInv, ReachBatch
<1> DEFINE M == {u \in Tasks : InQueue(u)}
<1>4. \A u \in Tasks \ {t} : (IsOwed(u)' <=> IsOwed(u) \/ u \in M) /\ (IsLeader(u)' <=> IsLeader(u))
  BY <1>2, <1>3 DEF IsOwed, IsLeader, Others, Leading
<1>5. /\ IsOwed(t)' /\ IsLeader(t)' /\ ~IsOwed(t) /\ ~IsLeader(t) /\ t \notin M
      /\ \A u \in M : ~IsOwed(u)
  BY <1>2, <1>3 DEF IsOwed, IsLeader, Leading
<1>6. /\ Owed' = (Owed \cup M) \cup {t} /\ t \notin Owed \cup M /\ Owed \cap M = {}
      /\ Leaders' = Leaders \cup {t} /\ t \notin Leaders
  BY <1>4, <1>5 DEF Owed, Leaders
<1>7. IsFiniteSet(Owed) /\ IsFiniteSet(Leaders) /\ IsFiniteSet(M) /\ IsFiniteSet(Owed \cup M)
      /\ Cardinality(Owed) \in Nat /\ Cardinality(Leaders) \in Nat
  BY SomeTasks DEF Owed, Leaders
<1>8. Cardinality(M) = Count - 1
  <2>0. Len(queue) \in Nat /\ Count - 1 \in Nat
    BY <1>1, BatchCount
  <2>1. queue \in [1..Len(queue) -> M]
    BY <1>y DEF InQueue
  <2>2. \A u \in M : \E i \in 1..Len(queue) : queue[i] = u
    BY DEF InQueue
  <2>3. \A i, j \in 1..Len(queue) : queue[i] = queue[j] => i = j
    BY <1>t DEF LinkInv, QueueOnce
  <2>4. ExistsBijection(1..Len(queue), M)
    <3>1. queue \in Bijection(1..Len(queue), M)
      BY <2>1, <2>2, <2>3 DEF Bijection, Injection, Surjection, IsInjective
    <3> QED  BY <3>1 DEF ExistsBijection
  <2> QED  BY <2>0, <2>4, <1>1, FS_CountingElements
<1>9. Cardinality(Owed \cup M) = Cardinality(Owed) + (Count - 1)
  <2>1. Cardinality(Owed \cap M) = 0
    BY <1>6, FS_EmptySet
  <2>2. Cardinality(Owed \cup M) = Cardinality(Owed) + Cardinality(M) - Cardinality(Owed \cap M)
    BY <1>7, FS_Union
  <2> QED  BY <2>1, <2>2, <1>7, <1>8, BatchCount
<1>10. Cardinality(Owed') = Cardinality(Owed) + Count
  <2>1. Cardinality(Owed') = Cardinality(Owed \cup M) + 1
    BY <1>6, <1>7, FS_AddElement
  <2> QED  BY <2>1, <1>7, <1>9, BatchCount
<1>11. Cardinality(Leaders') = Cardinality(Leaders) + 1
  BY <1>6, <1>7, FS_AddElement
<1> QED  BY <1>1, <1>10, <1>11 DEF HistoryInv

-----------------------------------------------------------------------------
LEMMA BatchInit ==
    ASSUME Init
    PROVE  BatchInv /\ HistoryInv
<1>1. /\ data = Count /\ locked = FALSE /\ queue = <<>> /\ Len(queue) = 0 /\ inBatch = 0
      /\ credit = 0 /\ leaders = 0
      /\ pc = [t \in Tasks |-> "idle"] /\ snap = [t \in Tasks |-> Free]
      /\ resolved = [t \in Tasks |-> <<>>] /\ result = [t \in Tasks |-> NoResult]
      /\ count = [t \in Tasks |-> 0] /\ waitOnly = [t \in Tasks |-> FALSE]
  BY DEF Init
<1>2. \A t \in Tasks : pc[t] = "idle" /\ result[t] = NoResult /\ resolved[t] = <<>> /\ Len(resolved[t]) = 0
  BY <1>1
<1>3. BatchType
  BY <1>1, FreeFacts, BatchCount DEF BatchType, Phases
<1>4. LinkInv
  <2>1. \A t \in Tasks : ~InQueue(t) /\ ~Pending(t)
    BY <1>1, <1>2 DEF InQueue, Pending
  <2>2. ReachBatch
    BY <2>1, <1>2 DEF ReachBatch
  <2>3. QueueOnce
    BY <1>1 DEF QueueOnce
  <2>4. ListOnce
    BY <1>2 DEF ListOnce
  <2> QED  BY <2>2, <2>3, <2>4 DEF LinkInv
<1>5. LeaderInv
  BY <1>2 DEF LeaderInv, Leads, Leading
<1>6. OneLast /\ ~Resetting
  BY <1>2 DEF OneLast, Resetting
<1>7. PhaseInv
  BY <1>1, <1>6, BatchCount DEF PhaseInv
<1>8. HistoryInv
  <2>1. Owed = {} /\ Leaders = {}
    BY <1>2 DEF Owed, Leaders, IsOwed, IsLeader, Leading
  <2> QED  BY <2>1, <1>1, FS_EmptySet DEF HistoryInv
<1> QED  BY <1>3, <1>4, <1>5, <1>6, <1>7, <1>8 DEF BatchInv

(* While no entry is dropped, of the steps of SyncPrimitive only a failed  *)
(* push is taken.                                                          *)
LEMMA OnlyPushFails ==
    ASSUME BatchInv, NEW t \in Tasks, Dropping(t)
    PROVE  PushFailed(t) /\ UNCHANGED barrierVars
<1>1. pc[t] \in Phases
  BY DEF BatchInv, BatchType
<1>2. ~Release(t)
  BY <1>1 DEF Phases, Release, ReleaseRefused, ReleaseInPlace, ReleaseAndProcess, ReleaseRetry
<1>3. ~Process(t)
  BY <1>1 DEF Phases, Process, PwqVisit, PwqReset, PwqResetFailed, PwqUnlock, PwqUnlockFailed,
              PwqAdd, Resolve, PwqContinue, PwqReturn
<1>4. ~Cancel(t)
  BY <1>1 DEF Phases, Cancel, CancelEmpty, CancelLock, RemoveInner, RemoveTail, RemoveSole,
              RemoveRetry, RemoveMissing, Complete
<1> QED  BY <1>2, <1>3, <1>4 DEF Dropping

LEMMA BatchNext ==
    ASSUME Cancellable = {}, BatchInv, HistoryInv, [Next]_allVars
    PROVE  BatchInv' /\ HistoryInv'
<1>1. ASSUME NEW t \in Tasks, Call(t) \/ TryZero(t) \/ Dropping(t) PROVE BatchInv' /\ HistoryInv'
  <2>1. Call(t) \/ TryZero(t) \/ (PushFailed(t) /\ UNCHANGED barrierVars)
    BY <1>1, OnlyPushFails
  <2> QED  BY <2>1, StrollBatch, StrollHistory
<1>2. ASSUME NEW t \in Tasks, PushZero(t) PROVE BatchInv' /\ HistoryInv'
  BY <1>2, PushZeroBatch, JoinHistory
<1>3. ASSUME NEW t \in Tasks, CountDown(t) PROVE BatchInv' /\ HistoryInv'
  BY <1>3, CountDownBatch, JoinHistory
<1>4. ASSUME NEW t \in Tasks, Last(t) PROVE BatchInv' /\ HistoryInv'
  BY <1>4, LastBatch, LastHistory
<1>5. ASSUME NEW t \in Tasks, ReleaseOne(t) \/ WakeOne(t) PROVE BatchInv' /\ HistoryInv'
  BY <1>5, TellBatch, TellHistory
<1>6. ASSUME NEW t \in Tasks, Reset(t) PROVE BatchInv' /\ HistoryInv'
  BY <1>6, ResetBatch, ResetHistory
<1>7. ASSUME NEW t \in Tasks, SetLast(t) \/ PollRetry(t) PROVE BatchInv' /\ HistoryInv'
  BY <1>7, SettleBatch, SettleHistory
<1>8. ASSUME NEW t \in Tasks, PollPass(t) PROVE BatchInv' /\ HistoryInv'
  BY <1>8, SettleBatch, PassHistory
<1>9. ASSUME NEW t \in Tasks, StartDrop(t) PROVE FALSE
  BY <1>9 DEF StartDrop, Drop
<1>10. ASSUME UNCHANGED allVars PROVE BatchInv' /\ HistoryInv'
  <2>1. UNCHANGED <<data, locked, queue, pc, snap, resolved, result, count, waitOnly, inBatch,
                    credit, leaders>>
    BY <1>10 DEF allVars, vars, barrierVars
  <2>2. BatchType' /\ OneLast' /\ PhaseInv'
    BY <2>1 DEF BatchInv, BatchType, OneLast, PhaseInv, Resetting
  <2>3. LinkInv' /\ LeaderInv'
    BY <2>1 DEF BatchInv, LinkInv, ReachBatch, QueueOnce, ListOnce, LeaderInv, Leads, InQueue, Pending
  <2>4. HistoryInv'
    BY <2>1 DEF HistoryInv, Owed, Leaders, IsOwed, IsLeader, InQueue
  <2> QED  BY <2>2, <2>3, <2>4 DEF BatchInv
<1> QED  BY <1>1, <1>2, <1>3, <1>4, <1>5, <1>6, <1>7, <1>8, <1>9, <1>10 DEF Next, BarrierStep

LEMMA BatchAlways == Cancellable = {} => (Spec => [](BatchInv /\ HistoryInv))
<1> SUFFICES ASSUME Cancellable = {} PROVE Spec => [](BatchInv /\ HistoryInv)
  OBVIOUS
<1>1. Init => BatchInv /\ HistoryInv
  BY BatchInit
<1>2. (BatchInv /\ HistoryInv) /\ [Next]_allVars => (BatchInv /\ HistoryInv)'
  BY BatchNext
<1> QED  BY <1>1, <1>2, PTL DEF Spec

LEMMA BatchCounts ==
    ASSUME BatchInv
    PROVE  CountConserved
<1>t. BatchType /\ LeaderInv /\ PhaseInv
  BY DEF BatchInv
<1>q. Len(queue) \in Nat
  BY <1>t DEF BatchType
<1>1. CASE Resetting
  <2>1. data = 0 /\ Counted = {}
    <3>1. data = 0 /\ \A i \in 1..Len(queue) : waitOnly[queue[i]]
      BY <1>1, <1>t DEF PhaseInv
    <3> QED  BY <3>1 DEF Counted
  <2> QED  BY <2>1, <1>1, <1>t DEF CountConserved, Resetting, LeaderInv, Leads
<1>2. CASE ~Resetting
  <2>1. data + Len(queue) = Count /\ Counted = 1..Len(queue)
    <3>1. data + Len(queue) = Count /\ \A i \in 1..Len(queue) : ~waitOnly[queue[i]]
      BY <1>2, <1>t DEF PhaseInv
    <3> QED  BY <3>1 DEF Counted
  <2>2. Cardinality(Counted) = Len(queue)
    <3>1. Cardinality(1..Len(queue)) = IF 1 > Len(queue) THEN 0 ELSE Len(queue) - 1 + 1
      BY <1>q, FS_Interval
    <3> QED  BY <2>1, <3>1, <1>q
  <2> QED  BY <2>1, <2>2, <1>2 DEF CountConserved, Resetting
<1> QED  BY <1>1, <1>2

LEMMA BatchLeaders ==
    ASSUME BatchInv, HistoryInv
    PROVE  NobodyPassesEarly /\ OneLeaderEach
<1>t. BatchType /\ LinkInv /\ LeaderInv /\ PhaseInv
  BY DEF BatchInv
<1>1. credit \in Nat /\ leaders \in Nat
  BY SomeTasks DEF HistoryInv, Owed, Leaders
<1>2. \A t \in Tasks : waitOnly[t] => result[t] # LAST
  BY <1>t DEF LeaderInv, Leads
<1>3. ASSUME \A t \in Tasks : pc[t] = "idle" PROVE leaders = 0 /\ credit = 0 /\ inBatch = 0
  <2>1. Owed = {} /\ Leaders = {}
    BY <1>3, <1>t DEF Owed, Leaders, IsOwed, IsLeader, Leading, LinkInv, ReachBatch
  <2>2. inBatch = 0
    <3>1. ~Resetting
      BY <1>3 DEF Resetting
    <3>2. \A t \in Tasks : ~InQueue(t)
      BY <1>3, <1>t DEF LinkInv, ReachBatch
    <3>3. queue \in Seq(Tasks)
      BY <1>t DEF BatchType
    <3>4. Len(queue) = 0
      BY <3>2, <3>3 DEF InQueue
    <3> QED  BY <3>1, <3>4, <1>t DEF PhaseInv
  <2> QED  BY <2>1, <2>2, FS_EmptySet DEF HistoryInv
<1> QED  BY <1>1, <1>2, <1>3 DEF NobodyPassesEarly, OneLeaderEach

(* Nobody returns from a barrier before the batch it belongs to is         *)
(* complete, however many tasks come again while the last task of a batch  *)
(* is still telling the others (barrier.rs, count_down).                   *)
THEOREM BarrierNobodyPassesEarly == Cancellable = {} => (Spec => []NobodyPassesEarly)
<1> SUFFICES ASSUME Cancellable = {} PROVE Spec => []NobodyPassesEarly
  OBVIOUS
<1>1. BatchInv /\ HistoryInv => NobodyPassesEarly
  BY BatchLeaders
<1> QED  BY <1>1, BatchAlways, PTL

(* A batch has one task that is told it was the last, and when everybody   *)
(* is back outside every complete batch has been returned from.            *)
THEOREM BarrierOneLeaderEach == Cancellable = {} => (Spec => []OneLeaderEach)
<1> SUFFICES ASSUME Cancellable = {} PROVE Spec => []OneLeaderEach
  OBVIOUS
<1>1. BatchInv /\ HistoryInv => OneLeaderEach
  BY BatchLeaders
<1> QED  BY <1>1, BatchAlways, PTL

(* The count that count_down puts back, one for itself and one for each    *)
(* entry it found, is the one the barrier was made with.                   *)
THEOREM BarrierCountConserved == Cancellable = {} => (Spec => []CountConserved)
<1> SUFFICES ASSUME Cancellable = {} PROVE Spec => []CountConserved
  OBVIOUS
<1>1. BatchInv /\ HistoryInv => CountConserved
  BY BatchCounts
<1> QED  BY <1>1, BatchAlways, PTL

-----------------------------------------------------------------------------
(* The other case: entries may be dropped, nobody comes for ever, and all  *)
(* who come, each as often as it may, are too few for a batch.  Then the count only goes  *)
(* down, by one for each time somebody came, and nobody is ever the last.  *)
TooFew == Regulars = {} /\ Cardinality(Tasks) * Rounds < Count

Came == [t \in Tasks |-> IF pc[t] = "try" THEN rounds[t] - 1 ELSE rounds[t]]

(* A task of a barrier nobody resets; it acquires nothing. *)
Lone(t) ==
    /\ pc[t] \notin {"push", "own", "poisoning"} /\ waitOnly[t] = FALSE /\ transferred[t] = 0
    /\ rounds[t] \in 0..Rounds /\ (pc[t] = "try" => rounds[t] >= 1)
    /\ pc[t] # "idle" => op[t].kind = "Barrier"
FewInv  == (\A t \in Tasks : Lone(t)) /\ data + Total(Came) = Count
DropInv == WordInv /\ WaitInv /\ waitOnly \in [Tasks -> BOOLEAN] /\ rounds \in [Tasks -> Nat] /\ FewInv

LEMMA BarrierOp ==
    ASSUME NEW b \in BOOLEAN
    PROVE  Barrier(b) \in Opcodes /\ Barrier(b).kind = "Barrier"
  BY DataMaskAssumption DEF Barrier, Opcodes, Kinds

LEMMA BarrierAcquires ==
    ASSUME NEW o \in Opcodes, o.kind = "Barrier"
    PROVE  acquired_count(o) = 0
  BY DEF acquired_count

LEMMA FewRounds ==
    ASSUME TooFew, NEW t \in Tasks
    PROVE  Rounds \in Nat /\ Rounds <= DATA_MASK /\ Cardinality(Tasks) \in Nat
<1>1. PICK n \in Nat : n = Cardinality(Tasks)
  BY FiniteAssumption, FS_CardinalityType
<1>2. n >= 1
  BY <1>1, FiniteAssumption, FS_EmptySet
<1>3. PICK r \in Nat : r = Rounds
  BY BarrierAssumption
<1>4. r <= n * r
  BY <1>2
<1>5. n * r \in Nat /\ n * r < Count
  BY <1>1, <1>3 DEF TooFew
<1> QED  BY <1>1, <1>3, <1>4, <1>5, BatchCount

(* Whoever is about to count down is one who has not been counted. *)
LEMMA NobodyIsLast ==
    ASSUME TooFew, DropInv, NEW t \in Tasks, pc[t] = "try"
    PROVE  data >= 2
<1>0. /\ Rounds \in Nat /\ data \in Nat /\ Count \in Nat
      /\ Total(Came) \in Nat /\ data + Total(Came) = Count
  BY FewRounds, UnitsFinite, BatchCount DEF DropInv, FewInv, WordInv, TypeOK
<1> DEFINE P == Tasks \X (1..Rounds)
<1>1. IsFiniteSet(P) /\ Cardinality(P) = Cardinality(Tasks) * Rounds
  <2>1. IsFiniteSet(1..Rounds) /\ Cardinality(1..Rounds) = Rounds
    <3>1. Rounds \in Int /\ 1 \in Int
      BY <1>0
    <3>2. /\ IsFiniteSet(1..Rounds)
          /\ Cardinality(1..Rounds) = IF 1 > Rounds THEN 0 ELSE Rounds - 1 + 1
      BY <3>1, FS_Interval
    <3> QED  BY <3>2, <1>0
  <2> QED  BY <2>1, FiniteAssumption, FS_Product
<1>2. /\ \A u \in Tasks : Came[u] \in Nat /\ Came[u] <= Rounds
      /\ Came[t] < Rounds /\ Rounds \in 1..Rounds
  <2>1. \A u \in Tasks : Lone(u)
    BY DEF DropInv, FewInv
  <2> QED  BY <2>1, <1>0 DEF Came, Lone
<1>3. UnitsOf(Came) \in SUBSET (P \ {<<t, Rounds>>}) /\ <<t, Rounds>> \in P
  <2>1. ASSUME NEW x \in UnitsOf(Came) PROVE x \in P \ {<<t, Rounds>>}
    <3>1. PICK u \in Tasks, i \in 1..DATA_MASK : x = <<u, i>> /\ i <= Came[u]
      BY <2>1 DEF UnitsOf
    <3>2. i \in 1..Rounds /\ (u = t => i # Rounds)
      BY <3>1, <1>0, <1>2, BatchCount
    <3> QED  BY <3>1, <3>2
  <2> QED  BY <2>1, <1>2
<1> HIDE DEF P
<1>4. /\ IsFiniteSet(P \ {<<t, Rounds>>})
      /\ Cardinality(P \ {<<t, Rounds>>}) = Cardinality(P) - 1
  BY <1>1, <1>3, FS_RemoveElement
<1>5. Total(Came) <= Cardinality(P) - 1
  BY <1>3, <1>4, FS_Subset DEF Total
<1>6. PICK c \in Nat : c = Cardinality(P)
  BY <1>1, FS_CardinalityType
<1>7. c < Count
  BY <1>1, <1>6 DEF TooFew
<1> QED  BY <1>0, <1>5, <1>6, <1>7

(* What the steps of SyncPrimitive do to a task that acquires nothing. *)
Lonely(t) ==
    /\ data' = data /\ transferred'[t] = 0 /\ pc[t] \notin {"idle", "try", "push"}
    /\ pc'[t] \notin {"try", "push", "own", "poisoning"}
    /\ pc'[t] # "idle" => op'[t] = op[t]
    /\ \A u \in Tasks \ {t} : pc'[u] = pc[u] /\ op'[u] = op[u] /\ transferred'[u] = transferred[u]

LEMMA LoneFacts ==
    ASSUME DropInv, NEW t \in Tasks
    PROVE  /\ pc \in [Tasks -> Labels] /\ op \in [Tasks -> Opcodes]
           /\ transferred \in [Tasks -> 0..DATA_MASK] /\ data \in Nat
           /\ then[t] \in {"idle", "complete"}
           /\ transferred[t] = 0 /\ (pc[t] # "idle" => acquired(t) = 0)
           /\ pc[t] # "push"
<1>1. /\ pc \in [Tasks -> Labels] /\ op \in [Tasks -> Opcodes]
      /\ transferred \in [Tasks -> 0..DATA_MASK] /\ data \in Nat
      /\ then[t] \in {"idle", "complete"}
  BY BatchCount DEF DropInv, WordInv, TypeOK
<1>2. Lone(t)
  BY DEF DropInv, FewInv
<1> QED  BY <1>1, <1>2, BarrierAcquires DEF Lone, acquired

LEMMA ReleaseLonely ==
    ASSUME DropInv, NEW t \in Tasks, Release(t)
    PROVE  Lonely(t)
<1>1. CASE ReleaseRefused(t)
  BY <1>1, LoneFacts DEF ReleaseRefused, Return, Goto, Lonely, word
<1>2. CASE ReleaseInPlace(t)
  BY <1>2, LoneFacts DEF ReleaseInPlace, Return, Goto, Lonely
<1>3. CASE ReleaseAndProcess(t)
  BY <1>3, LoneFacts DEF ReleaseAndProcess, Goto, Lonely
<1>4. CASE ReleaseRetry(t)
  BY <1>4, LoneFacts DEF ReleaseRetry, Lonely, word
<1> QED  BY <1>1, <1>2, <1>3, <1>4 DEF Release

LEMMA ProcessLonely ==
    ASSUME DropInv, NEW t \in Tasks, Process(t)
    PROVE  Lonely(t)
<1>a. pc[t] = "pwq" => Visited(t) \in Tasks /\ acquired(Visited(t)) = 0
  <2> SUFFICES ASSUME pc[t] = "pwq" PROVE Visited(t) \in Tasks /\ acquired(Visited(t)) = 0
    OBVIOUS
  <2>1. queue # <<>> /\ queue \in Seq(Tasks)
    BY Worker, Shape DEF DropInv, Processing
  <2>2. Visited(t) \in Tasks /\ InQueue(Visited(t))
    BY <2>1 DEF Visited, InQueue
  <2>3. pc[Visited(t)] # "idle"
    BY <2>2 DEF DropInv, WaitInv, ReachInv
  <2> QED  BY <2>2, <2>3, LoneFacts
<1>b. State = snap[t] => snap[t].data = data
  BY StateFacts DEF DropInv
<1>1. CASE PwqVisit(t)
  <2>1. transferred' = [transferred EXCEPT ![t] = 0]
    <3>1. transferred' = [transferred EXCEPT ![t] = transferred[t] + acquired(Visited(t))]
      BY <1>1 DEF PwqVisit
    <3>2. pc[t] = "pwq"
      BY <1>1 DEF PwqVisit
    <3>3. transferred[t] = 0 /\ acquired(Visited(t)) = 0
      BY <3>2, <1>a, LoneFacts
    <3> QED  BY <3>1, <3>3
  <2>2. pc' = pc /\ op' = op /\ data' = data /\ pc[t] = "pwq"
    BY <1>1 DEF PwqVisit
  <2> QED  BY <2>1, <2>2, LoneFacts DEF Lonely
<1>2. CASE PwqReset(t)
  BY <1>2, <1>a, <1>b, LoneFacts DEF PwqReset, Goto, Lonely, Base
<1>3. CASE PwqResetFailed(t) \/ PwqUnlockFailed(t) \/ PwqContinue(t)
  BY <1>3, LoneFacts DEF PwqResetFailed, PwqUnlockFailed, PwqContinue, Goto, Lonely, word, locals
<1>4. CASE PwqUnlock(t) \/ PwqAdd(t)
  BY <1>4, LoneFacts DEF PwqUnlock, PwqAdd, Goto, Lonely
<1>5. CASE Resolve(t)
  BY <1>5, LoneFacts DEF Resolve, SetResult, Lonely, word
<1>6. CASE PwqReturn(t)
  BY <1>6, LoneFacts DEF PwqReturn, Return, Goto, Lonely, word, locals
<1> QED  BY <1>1, <1>2, <1>3, <1>4, <1>5, <1>6 DEF Process

LEMMA CancelLonely ==
    ASSUME DropInv, NEW t \in Tasks, Cancel(t) \/ Drop(t)
    PROVE  Lonely(t)
<1>1. CASE Drop(t)
  BY <1>1, LoneFacts DEF Drop, Goto, Lonely, word, locals
<1>2. CASE CancelEmpty(t) \/ CancelLock(t)
  BY <1>2, LoneFacts DEF CancelEmpty, CancelLock, Goto, Lonely, word
<1>3. CASE RemoveInner(t) \/ RemoveTail(t) \/ RemoveMissing(t)
  BY <1>3, LoneFacts DEF RemoveInner, RemoveTail, RemoveMissing, Goto, Lonely, word
<1>4. CASE RemoveSole(t)
  BY <1>4, LoneFacts DEF RemoveSole, Return, Goto, Lonely
<1>5. CASE RemoveRetry(t) \/ Complete(t)
  BY <1>5, LoneFacts DEF RemoveRetry, Complete, Goto, Lonely, word
<1> QED  BY <1>1, <1>2, <1>3, <1>4, <1>5 DEF Cancel

LEMMA TotalNext == Total(Came)' = Total(Came')
  BY DEF Total, UnitsOf

LEMMA SyncDrop ==
    ASSUME DropInv, NEW t \in Tasks, Dropping(t) \/ StartDrop(t)
    PROVE  DropInv'
<1>1. /\ SyncStep(t) \/ Drop(t)
      /\ waitOnly' = waitOnly /\ rounds' = rounds
  BY DEF Dropping, StartDrop, SyncStep, barrierVars
<1>2. Lonely(t)
  <2>1. ~PushFailed(t)
    BY LoneFacts DEF PushFailed
  <2> QED  BY <2>1, ReleaseLonely, ProcessLonely, CancelLonely DEF Dropping, StartDrop
<1>3. WordInv' /\ WaitInv'
  BY <1>1, SyncStepWord, SyncStepWait DEF DropInv
<1>4. ASSUME NEW u \in Tasks PROVE Lone(u)' /\ (pc'[u] = "try" <=> pc[u] = "try")
  <2>1. Lone(u)
    BY DEF DropInv, FewInv
  <2>2. CASE u = t
    BY <2>1, <2>2, <1>1, <1>2 DEF Lone, Lonely
  <2>3. CASE u # t
    BY <2>1, <2>3, <1>1, <1>2 DEF Lone, Lonely
  <2> QED  BY <2>2, <2>3
<1>5. Came' = Came /\ data' = data
  BY <1>1, <1>2, <1>4 DEF Came, Lonely
<1> QED  BY <1>1, <1>3, <1>4, <1>5 DEF DropInv, FewInv

LEMMA CallDrop ==
    ASSUME TooFew, DropInv, NEW t \in Tasks, Call(t)
    PROVE  DropInv'
<1>w. WordInv /\ WaitInv /\ TypeOK /\ waitOnly \in [Tasks -> BOOLEAN] /\ rounds \in [Tasks -> Nat]
  BY DEF DropInv, WordInv
<1>y. pc \in [Tasks -> Labels] /\ op \in [Tasks -> Opcodes] /\ Rounds \in Nat
  BY <1>w, BarrierAssumption DEF TypeOK
<1>1. /\ pc[t] = "idle" /\ rounds[t] < Rounds /\ rounds' = [rounds EXCEPT ![t] = @ + 1]
      /\ op' = [op EXCEPT ![t] = Barrier(FALSE)] /\ pc' = [pc EXCEPT ![t] = "try"]
      /\ UNCHANGED <<data, locked, queue, snap, outer, then, transferred, resolved, result, holds, waitOnly>>
  BY DEF Call, Goto, word, locals, TooFew
<1>2. Barrier(FALSE) \in Opcodes /\ Barrier(FALSE).kind = "Barrier"
  BY BarrierOp
<1>3. TypeOK'
  BY <1>w, <1>1, <1>2 DEF TypeOK, Labels
<1>4. WordInv'
  <2>1. transferred[t] = 0
    BY <1>w, <1>1, Quiet
  <2>2. Respects(t)
    BY <2>1, <1>w, <1>1, Shape DEF Respects, Processing
  <2> QED  BY <2>2, <1>3, <1>w, RespectsWord
<1>5. WaitInv'
  <2>1. ~Inside(t) /\ ~Inside(t)' /\ ~InQueue(t) /\ resolved[t] = <<>>
    BY <1>1, <1>y, <1>w DEF Inside, WaitInv, ReachInv, OwnList, Lists
  <2>2. Moves(t)
    BY <2>1, <1>1, <1>y DEF Moves
  <2> QED  BY <2>2, <1>w, MovesWait
<1>6. ASSUME NEW u \in Tasks
      PROVE  /\ Lone(u)'
             /\ (IF pc'[u] = "try" THEN rounds'[u] - 1 ELSE rounds'[u])
                = (IF pc[u] = "try" THEN rounds[u] - 1 ELSE rounds[u])
  <2>1. Lone(u)
    BY DEF DropInv, FewInv
  <2>2. CASE u = t
    <3>1. /\ pc'[t] = "try" /\ op'[t].kind = "Barrier" /\ rounds'[t] = rounds[t] + 1
          /\ waitOnly'[t] = waitOnly[t] /\ transferred'[t] = transferred[t]
      BY <1>1, <1>2, <1>y, <1>w
    <3>2. rounds[t] \in Nat /\ rounds[t] < Rounds /\ pc[t] = "idle"
      BY <1>1, <1>w
    <3> QED  BY <2>1, <2>2, <3>1, <3>2, <1>y DEF Lone
  <2>3. CASE u # t
    BY <2>1, <2>3, <1>1 DEF Lone
  <2> QED  BY <2>2, <2>3
<1>7. Came' = Came
  BY <1>6 DEF Came
<1>8. waitOnly' \in [Tasks -> BOOLEAN] /\ rounds' \in [Tasks -> Nat]
  BY <1>w, <1>1
<1> QED  BY <1>1, <1>4, <1>5, <1>6, <1>7, <1>8 DEF DropInv, FewInv

LEMMA CountDownDrop ==
    ASSUME TooFew, DropInv, NEW t \in Tasks, CountDown(t)
    PROVE  DropInv'
<1>w. WordInv /\ WaitInv /\ TypeOK /\ waitOnly \in [Tasks -> BOOLEAN] /\ rounds \in [Tasks -> Nat]
      /\ data + Total(Came) = Count
  BY DEF DropInv, WordInv, FewInv
<1>y. pc \in [Tasks -> Labels] /\ queue \in Seq(Tasks) /\ data \in 0..DATA_MASK
  BY <1>w DEF TypeOK
<1>1. /\ pc[t] = "try" /\ data > 1 /\ data' = data - 1 /\ queue' = Append(queue, t)
      /\ waitOnly' = [waitOnly EXCEPT ![t] = FALSE] /\ pc' = [pc EXCEPT ![t] = "wait"]
      /\ UNCHANGED <<locked, op, snap, outer, then, transferred, resolved, result, holds, rounds>>
  BY DEF CountDown, Goto, locals
<1>d. data' \in 0..DATA_MASK /\ data' <= data /\ data # 0
  BY <1>1, <1>y, BatchCount
<1>q. /\ queue' \in Seq(Tasks) /\ Len(queue') = Len(queue) + 1 /\ queue'[Len(queue) + 1] = t
      /\ Len(queue) \in Nat /\ \A i \in 1..Len(queue) : queue'[i] = queue[i]
  BY <1>1, <1>y
<1>2. TypeOK'
  BY <1>w, <1>1, <1>d, <1>q DEF TypeOK, Labels
<1>3. WordInv'
  <2>1. transferred[t] = 0
    BY <1>w, <1>1, Quiet
  <2>2. Respects(t)
    BY <2>1, <1>1, <1>y, <1>d, <1>q DEF Respects, Processing
  <2> QED  BY <2>2, <1>2, <1>w, RespectsWord
<1>4. WaitInv'
  <2>1. Enqueues(t)
    BY <1>1, <1>y DEF Enqueues
  <2> QED  BY <2>1, <1>w, <1>y, EnqueuesWait
<1>5. ASSUME NEW u \in Tasks
      PROVE  /\ Lone(u)'
             /\ Came[u] \in 0..DATA_MASK /\ Came'[u] \in 0..DATA_MASK
             /\ Came'[u] = IF u = t THEN Came[u] + 1 ELSE Came[u]
  <2>1. Lone(u) /\ rounds[u] \in Nat /\ rounds[u] <= Rounds /\ Rounds \in Nat /\ Rounds <= DATA_MASK
    <3>1. Lone(u)
      BY DEF DropInv, FewInv
    <3> QED  BY <3>1, FewRounds DEF Lone
  <2>2. CASE u = t
    BY <2>1, <2>2, <1>1, <1>y, <1>w, BatchCount DEF Lone, Came
  <2>3. CASE u # t
    BY <2>1, <2>3, <1>1, <1>y, <1>w, BatchCount DEF Lone, Came
  <2> QED  BY <2>2, <2>3
<1>6. Total(Came') = Total(Came) + 1
  <2>1. Came \in [Tasks -> 0..DATA_MASK] /\ Came' \in [Tasks -> 0..DATA_MASK]
    BY <1>5 DEF Came
  <2>2. (\A u \in Tasks \ {t} : Came'[u] = Came[u]) /\ Came'[t] = Came[t] + 1
    BY <1>5
  <2> QED  BY <2>1, <2>2, TotalAdd
<1>7. data' + Total(Came') = Count
  <2>1. Total(Came) \in Nat /\ data \in Nat
    BY UnitsFinite, <1>y, BatchCount
  <2> QED  BY <2>1, <1>1, <1>6, <1>w
<1>8. waitOnly' \in [Tasks -> BOOLEAN] /\ rounds' \in [Tasks -> Nat]
  BY <1>w, <1>1
<1> QED  BY <1>3, <1>4, <1>5, <1>7, <1>8, TotalNext DEF DropInv, FewInv

LEMMA PassDrop ==
    ASSUME DropInv, NEW t \in Tasks, PollPass(t)
    PROVE  DropInv'
<1>w. WordInv /\ WaitInv /\ TypeOK
  BY DEF DropInv, WordInv
<1>y. pc \in [Tasks -> Labels] /\ result \in [Tasks -> {NoResult, ACQUIRED, POISONED}]
      /\ then \in [Tasks -> {"idle", "complete"}] /\ op \in [Tasks -> Opcodes] /\ snap \in [Tasks -> Words]
  BY <1>w DEF TypeOK
<1>1. /\ pc[t] = "wait" /\ result[t] # NoResult /\ Return(t)
      /\ result' = [result EXCEPT ![t] = NoResult]
      /\ UNCHANGED <<data, locked, queue, holds, waitOnly, rounds>>
  BY DEF PollPass, word
<1>2. pc' = [pc EXCEPT ![t] = "idle"] /\ transferred' = transferred /\ resolved' = resolved
      /\ snap' = [snap EXCEPT ![t] = Free] /\ then' = [then EXCEPT ![t] = "idle"]
      /\ op' = [op EXCEPT ![t] = Exclusive]
  BY <1>1 DEF Return, Goto
<1>3. TypeOK'
  BY <1>1, <1>w, <1>y, ReturnTypes DEF TypeOK
<1>4. WordInv'
  <2>1. transferred[t] = 0
    BY <1>w, <1>1, Quiet
  <2>2. Respects(t)
    BY <2>1, <1>w, <1>1, <1>2, <1>y, Shape DEF Respects, Processing
  <2> QED  BY <2>2, <1>3, <1>w, RespectsWord
<1>5. WaitInv'
  <2>1. Consumes(t)
    BY <1>1, <1>2, <1>y DEF Consumes, Inside, Lists
  <2> QED  BY <2>1, <1>w, ConsumesWait
<1>6. ASSUME NEW u \in Tasks PROVE Lone(u)' /\ (pc'[u] = "try" <=> pc[u] = "try")
  <2>1. Lone(u)
    BY DEF DropInv, FewInv
  <2>2. CASE u = t
    BY <2>1, <2>2, <1>1, <1>2, <1>y DEF Lone
  <2>3. CASE u # t
    BY <2>1, <2>3, <1>1, <1>2, <1>y DEF Lone
  <2> QED  BY <2>2, <2>3
<1>7. Came' = Came
  BY <1>1, <1>6 DEF Came
<1> QED  BY <1>1, <1>4, <1>5, <1>6, <1>7 DEF DropInv, FewInv

LEMMA DropInit ==
    ASSUME Init
    PROVE  DropInv
<1>1. /\ data = Count /\ locked = FALSE /\ queue = <<>> /\ Len(queue) = 0
      /\ pc = [t \in Tasks |-> "idle"] /\ op = [t \in Tasks |-> Exclusive]
      /\ snap = [t \in Tasks |-> Free] /\ outer = [t \in Tasks |-> Free]
      /\ then = [t \in Tasks |-> "idle"] /\ transferred = [t \in Tasks |-> 0]
      /\ resolved = [t \in Tasks |-> <<>>] /\ result = [t \in Tasks |-> NoResult]
      /\ holds = [t \in Tasks |-> 0] /\ waitOnly = [t \in Tasks |-> FALSE]
      /\ rounds = [t \in Tasks |-> 0]
  BY DEF Init
<1>2. \A t \in Tasks : /\ pc[t] = "idle" /\ result[t] = NoResult /\ resolved[t] = <<>>
                        /\ Len(resolved[t]) = 0 /\ transferred[t] = 0 /\ rounds[t] = 0
  BY <1>1
<1>3. TypeOK
  <2>1. Exclusive \in Opcodes
    BY DataMaskAssumption DEF Exclusive, Opcodes, Kinds
  <2>2. Count \in 0..DATA_MASK /\ 0 \in 0..DATA_MASK /\ <<>> \in Seq(Tasks)
    BY BatchCount
  <2>3. pc \in [Tasks -> Labels] /\ op \in [Tasks -> Opcodes] /\ then \in [Tasks -> {"idle", "complete"}]
    BY <1>1, <2>1 DEF Labels
  <2>4. snap \in [Tasks -> Words] /\ outer \in [Tasks -> Words] /\ resolved \in [Tasks -> Seq(Tasks)]
    BY <1>1, <2>2, FreeFacts
  <2>5. /\ transferred \in [Tasks -> 0..DATA_MASK] /\ holds \in [Tasks -> Int]
        /\ result \in [Tasks -> {NoResult, ACQUIRED, POISONED}]
    BY <1>1, <2>2
  <2> QED  BY <1>1, <2>2, <2>3, <2>4, <2>5 DEF TypeOK
<1>4. WordInv
  BY <1>1, <1>2, <1>3 DEF WordInv, WorkInv, OneWorker, RoundInv, FlagInv, PushInv, Processing
<1>5. WaitInv
  <2>1. \A t \in Tasks : ~InQueue(t) /\ ~Pending(t) /\ ~Inside(t)
    BY <1>1, <1>2 DEF InQueue, Pending, Inside
  <2>2. ReachInv
    BY <2>1, <1>2 DEF ReachInv
  <2> QED  BY <2>2, <1>1, <1>2 DEF WaitInv, QueueOnce, ListOnce, OwnList
<1>6. \A t \in Tasks : Lone(t)
  BY <1>1, <1>2, BarrierAssumption DEF Lone
<1>7. data + Total(Came) = Count
  <2>1. \A t \in Tasks : Came[t] = 0
    BY <1>1, <1>2 DEF Came
  <2>2. Total(Came) = 0
    BY <2>1, TotalZero
  <2> QED  BY <2>2, <1>1, BatchCount
<1> QED  BY <1>1, <1>4, <1>5, <1>6, <1>7 DEF DropInv, FewInv

LEMMA DropNext ==
    ASSUME TooFew, DropInv, [Next]_allVars
    PROVE  DropInv'
<1>1. ASSUME NEW t \in Tasks, TryZero(t) \/ Last(t) PROVE FALSE
  <2>1. pc[t] = "try" /\ data \in {0, 1}
    BY <1>1 DEF TryZero, Last
  <2> QED  BY <2>1, NobodyIsLast
<1>2. ASSUME NEW t \in Tasks,
             PushZero(t) \/ ReleaseOne(t) \/ Reset(t) \/ WakeOne(t) \/ SetLast(t) \/ PollRetry(t)
      PROVE  FALSE
  <2>1. pc[t] \in Labels /\ pc[t] # "push" /\ ~waitOnly[t]
    BY DEF DropInv, WordInv, TypeOK, FewInv, Lone
  <2> QED  BY <1>2, <2>1 DEF PushZero, PushOk, ReleaseOne, Reset, WakeOne, SetLast, PollRetry, Labels
<1>3. ASSUME UNCHANGED allVars PROVE DropInv'
  <2>1. UNCHANGED vars /\ waitOnly' = waitOnly /\ rounds' = rounds
    BY <1>3 DEF allVars, barrierVars
  <2>2. WordInv'
    BY <2>1, StutterWord DEF DropInv
  <2>3. WaitInv'
    BY <2>1 DEF vars, DropInv, WaitInv, ReachInv, QueueOnce, ListOnce, OwnList, Inside, InQueue, Pending
  <2>4. FewInv'
    BY <2>1 DEF vars, DropInv, FewInv, Lone, Came
  <2> QED  BY <2>1, <2>2, <2>3, <2>4 DEF DropInv
<1> QED  BY <1>1, <1>2, <1>3, CallDrop, CountDownDrop, PassDrop, SyncDrop DEF Next, BarrierStep

LEMMA DropAlways == TooFew => (Spec => []DropInv)
<1> SUFFICES ASSUME TooFew PROVE Spec => []DropInv
  OBVIOUS
<1>1. Init => DropInv
  BY DropInit
<1>2. DropInv /\ [Next]_allVars => DropInv'
  BY DropNext
<1> QED  BY <1>1, <1>2, PTL DEF Spec

(* While nobody completes a batch, an entry of a barrier stays reachable   *)
(* in one way until it has a result, and nobody who was dropped is still   *)
(* in the queue or in a list.                                              *)
THEOREM BarrierNoLostWaiter == TooFew => (Spec => []NoLostWaiter)
<1> SUFFICES ASSUME TooFew PROVE Spec => []NoLostWaiter
  OBVIOUS
<1>1. DropInv => NoLostWaiter
  BY WaitImplies DEF DropInv
<1> QED  BY <1>1, DropAlways, PTL
=============================================================================
