------------------------- MODULE SyncPrimitiveProof -------------------------
(***************************************************************************)
(* What the actions of SyncPrimitive preserve, for any number of tasks,    *)
(* any DATA_MASK and any max_shared_owners.  LockProof and SemaphoreProof  *)
(* combine these lemmas with the actions of the two primitives.            *)
(***************************************************************************)
EXTENDS SyncPrimitive, TLAPS, SequenceTheorems, FiniteSetTheorems

(* Whoever works on the list has the flag, has read a tail that is still   *)
(* in the list, has seen at least the current count, and cannot overflow   *)
(* the data bits with what it has decided to transfer.                     *)
WorkInv ==
    \A t \in Tasks : Processing(t) =>
        /\ locked /\ snap[t].locked = TRUE
        /\ InQueue(snap[t].tail)
        /\ data <= snap[t].data
        /\ snap[t].data + transferred[t] <= DATA_MASK

(* LOCKED_FLAG is exclusive. *)
OneWorker == \A t, u \in Tasks : Processing(t) /\ Processing(u) => t = u

(* Only a round of visits has something transferred and not yet added. *)
RoundInv == \A t \in Tasks : pc[t] \notin {"pwq", "pwq_add"} => transferred[t] = 0

(* The flag without a worker is the poisoned word, and nobody pushes onto  *)
(* that word, nor onto the free one.                                       *)
FlagInv == locked => \/ data = 0 /\ queue = <<>>
                     \/ \E t \in Tasks : Processing(t)
PushInv == \A t \in Tasks : pc[t] = "push" => snap[t].tail # NoTask \/ snap[t].data # 0

WordInv == TypeOK /\ WorkInv /\ OneWorker /\ RoundInv /\ FlagInv /\ PushInv

-----------------------------------------------------------------------------
(* acquired_count never exceeds desired_count, nor the data bits. *)
LEMMA CountFacts ==
    ASSUME NEW o \in Opcodes
    PROVE  /\ acquired_count(o) \in 0..DATA_MASK
           /\ desired_count(o) \in 0..DATA_MASK
           /\ acquired_count(o) <= desired_count(o)
  BY DataMaskAssumption DEF Opcodes, Kinds, acquired_count, desired_count

(* can_release guards the subtraction of release_loop against underflow. *)
LEMMA CanReleaseFacts ==
    ASSUME NEW o \in Opcodes, NEW d \in 0..DATA_MASK, can_release(o, d)
    PROVE  acquired_count(o) <= d
  BY DataMaskAssumption DEF Opcodes, Kinds, acquired_count, can_release

(* An entry is only served when what it acquires still fits the data bits. *)
LEMMA AdmitsFacts ==
    ASSUME NEW o \in Opcodes, NEW d \in 0..DATA_MASK, Admits(d, o)
    PROVE  d + acquired_count(o) <= DATA_MASK
  BY CountFacts, DataMaskAssumption, OwnersAssumption DEF Admits

(* Copies of the word. *)
LEMMA WordFacts ==
    ASSUME NEW d \in 0..DATA_MASK, NEW l \in BOOLEAN, NEW q \in Seq(Tasks)
    PROVE  /\ Word(d, l, q) \in Words
           /\ Word(d, l, q).data = d
           /\ Word(d, l, q).locked = l
           /\ Word(d, l, q).tail = NoTask <=> q = <<>>
           /\ q # <<>> => \E i \in 1..Len(q) : q[i] = Word(d, l, q).tail
  BY TasksAssumption DEF Word, Words

LEMMA FreeFacts == Free \in Words
  BY DataMaskAssumption DEF Free, Word, Words

LEMMA FreeWord == Free.data = 0 /\ Free.locked = FALSE /\ Free.tail = NoTask
  BY DEF Free, Word

(* What one task has to respect for the others: it leaves their locals     *)
(* alone; it becomes a worker only by taking the flag; as a worker it      *)
(* keeps its own part of WorkInv; while somebody else works it neither     *)
(* drops the flag, nor raises the count, nor takes entries out.            *)
Respects(t) ==
    /\ \A u \in Tasks \ {t} : /\ pc'[u] = pc[u]
                            /\ snap'[u] = snap[u]
                            /\ transferred'[u] = transferred[u]
    /\ Processing(t)' =>
          /\ Processing(t) \/ ~locked
          /\ locked' /\ snap'[t].locked = TRUE
          /\ \E i \in 1..Len(queue') : queue'[i] = snap'[t].tail
          /\ data' <= snap'[t].data
          /\ snap'[t].data + transferred'[t] <= DATA_MASK
    /\ ~Processing(t) /\ locked /\ queue # <<>> =>
          /\ locked' /\ data' <= data
          /\ Len(queue) <= Len(queue')
          /\ \A i \in 1..Len(queue) : queue'[i] = queue[i]
    /\ pc'[t] \notin {"pwq", "pwq_add"} => transferred'[t] = 0
    /\ pc'[t] = "push" => snap'[t].tail # NoTask \/ snap'[t].data # 0
    /\ locked' => \/ Processing(t)'
                  \/ data' = 0 /\ queue' = <<>>
                  \/ locked /\ ~Processing(t) /\ (data # 0 \/ queue # <<>>)

LEMMA RespectsWord ==
    ASSUME WordInv, NEW t \in Tasks, TypeOK', Respects(t)
    PROVE  WordInv'
<1> SUFFICES WorkInv' /\ OneWorker' /\ RoundInv' /\ FlagInv' /\ PushInv'
  BY DEF WordInv
<1>1. WorkInv'
  <2> SUFFICES ASSUME NEW u \in Tasks, Processing(u)'
               PROVE  /\ locked' /\ snap'[u].locked = TRUE
                      /\ InQueue(snap[u].tail)'
                      /\ data' <= snap'[u].data
                      /\ snap'[u].data + transferred'[u] <= DATA_MASK
    BY DEF WorkInv
  <2>1. CASE u = t
    BY <2>1 DEF Respects, InQueue
  <2>2. CASE u # t
    <3>1. Processing(u) /\ snap'[u] = snap[u] /\ transferred'[u] = transferred[u]
      BY <2>2 DEF Respects, Processing
    <3>2. ~Processing(t)
      BY <2>2, <3>1 DEF WordInv, OneWorker
    <3>3. /\ locked /\ snap[u].locked = TRUE /\ InQueue(snap[u].tail)
          /\ data <= snap[u].data /\ snap[u].data + transferred[u] <= DATA_MASK
      BY <3>1 DEF WordInv, WorkInv
    <3>4. PICK i \in 1..Len(queue) : queue[i] = snap[u].tail
      BY <3>3 DEF InQueue
    <3>5. queue # <<>>
      BY <3>4
    <3>6. /\ locked' /\ data' <= data /\ Len(queue) <= Len(queue')
          /\ \A j \in 1..Len(queue) : queue'[j] = queue[j]
      BY <3>2, <3>3, <3>5 DEF Respects
    <3>7. InQueue(snap[u].tail)'
      <4>1. queue \in Seq(Tasks) /\ queue' \in Seq(Tasks)
        BY DEF WordInv, TypeOK
      <4>2. i \in 1..Len(queue')
        BY <3>6, <4>1
      <4>3. queue'[i] = snap'[u].tail
        BY <3>1, <3>4, <3>6
      <4>4. QED BY <4>2, <4>3 DEF InQueue
    <3>8. data' <= snap'[u].data
      <4>1. data' \in Int /\ data \in Int /\ snap[u].data \in Int
        BY DEF WordInv, TypeOK, Words
      <4>2. data' <= snap[u].data
        BY <4>1, <3>3, <3>6
      <4>3. QED BY <4>2, <3>1
    <3>9. QED BY <3>1, <3>3, <3>6, <3>7, <3>8
  <2>3. QED BY <2>1, <2>2
<1>2. OneWorker'
  <2> SUFFICES ASSUME NEW u \in Tasks, NEW v \in Tasks, Processing(u)', Processing(v)', u # v
               PROVE  FALSE
    BY DEF OneWorker
  <2>1. \A w \in Tasks : w # t /\ Processing(w)' => Processing(w) /\ locked
    BY DEF Respects, Processing, WordInv, WorkInv
  <2>2. Processing(t)' => Processing(t) \/ ~locked
    BY DEF Respects
  <2>3. QED BY <2>1, <2>2 DEF WordInv, OneWorker
<1>3. RoundInv'
  BY DEF WordInv, RoundInv, Respects
<1>4. FlagInv'
  <2> SUFFICES ASSUME locked', ~Processing(t)', ~(data' = 0 /\ queue' = <<>>)
               PROVE  \E u \in Tasks : Processing(u)'
    BY DEF FlagInv
  <2>1. locked /\ ~Processing(t) /\ (data # 0 \/ queue # <<>>)
    BY DEF Respects
  <2>2. PICK u \in Tasks : Processing(u)
    BY <2>1 DEF WordInv, FlagInv
  <2>3. Processing(u)'
    BY <2>1, <2>2 DEF Respects, Processing
  <2>4. QED BY <2>3
<1>5. PushInv'
  BY DEF WordInv, PushInv, Respects
<1>6. QED BY <1>1, <1>2, <1>3, <1>4, <1>5

LEMMA AddNothing ==
    ASSUME NEW d \in 0..DATA_MASK, NEW k \in Int, k = 0
    PROVE  d <= d /\ d + k <= DATA_MASK
  BY DataMaskAssumption

LEMMA NilSeq == <<>> \in Seq(Tasks)
  OBVIOUS

LEMMA SumFacts ==
    ASSUME NEW a \in 0..DATA_MASK, NEW b \in 0..DATA_MASK, NEW c \in 0..DATA_MASK,
           (a + b) + c <= DATA_MASK
    PROVE  b + c \in 0..DATA_MASK /\ a + (b + c) <= DATA_MASK
  BY DataMaskAssumption

LEMMA BoundFacts ==
    ASSUME NEW a \in 0..DATA_MASK, NEW b \in 0..DATA_MASK, NEW c \in 0..DATA_MASK,
           a <= b, b + c <= DATA_MASK
    PROVE  a + c \in 0..DATA_MASK /\ b + c \in 0..DATA_MASK
  BY DataMaskAssumption

LEMMA TailFacts ==
    ASSUME NEW q \in Seq(Tasks), q # <<>>, NEW i \in 1..Len(q), i # 1
    PROVE  /\ Tail(q) \in Seq(Tasks)
           /\ \E j \in 1..Len(Tail(q)) : Tail(q)[j] = q[i]
<1>1. Tail(q) \in Seq(Tasks) /\ i - 1 \in 1..Len(Tail(q)) /\ Tail(q)[i - 1] = q[i]
  OBVIOUS
<1>2. QED
  <2> DEFINE r == Tail(q)
  <2>1. r \in Seq(Tasks) /\ i - 1 \in 1..Len(r) /\ r[i - 1] = q[i]
    BY <1>1
  <2> HIDE DEF r
  <2>2. r \in Seq(Tasks) /\ \E j \in 1..Len(r) : r[j] = q[i]
    BY <2>1
  <2>3. QED BY <2>2 DEF r

(* The parts of WordInv a step of one task needs. *)
LEMMA Shape ==
    ASSUME WordInv
    PROVE  /\ pc \in [Tasks -> Labels] /\ snap \in [Tasks -> Words]
           /\ transferred \in [Tasks -> 0..DATA_MASK]
           /\ queue \in Seq(Tasks) /\ data \in 0..DATA_MASK /\ locked \in BOOLEAN
  BY DEF WordInv, TypeOK

LEMMA Quiet ==
    ASSUME WordInv, NEW t \in Tasks, pc[t] \notin {"pwq", "pwq_add"}
    PROVE  transferred[t] = 0
  BY DEF WordInv, RoundInv

LEMMA Worker ==
    ASSUME WordInv, NEW t \in Tasks, Processing(t)
    PROVE  /\ locked /\ snap[t].locked = TRUE
           /\ snap[t].tail \in Tasks
           /\ queue # <<>>
           /\ \E i \in 1..Len(queue) : queue[i] = snap[t].tail
           /\ snap[t].data \in 0..DATA_MASK /\ transferred[t] \in 0..DATA_MASK
           /\ data <= snap[t].data
           /\ snap[t].data + transferred[t] \in 0..DATA_MASK
           /\ data + transferred[t] \in 0..DATA_MASK
<1>1. /\ locked /\ snap[t].locked = TRUE /\ InQueue(snap[t].tail)
      /\ data <= snap[t].data /\ snap[t].data + transferred[t] <= DATA_MASK
  BY DEF WordInv, WorkInv
<1>2. snap[t].data \in 0..DATA_MASK /\ transferred[t] \in 0..DATA_MASK /\ data \in 0..DATA_MASK
  BY DEF WordInv, TypeOK, Words
<1>3. PICK i \in 1..Len(queue) : queue[i] = snap[t].tail
  BY <1>1 DEF InQueue
<1>4. snap[t].tail \in Tasks /\ queue # <<>>
  <2>1. queue \in Seq(Tasks)
    BY DEF WordInv, TypeOK
  <2>2. QED BY <2>1, <1>3
<1>5. /\ snap[t].data + transferred[t] \in 0..DATA_MASK
      /\ data + transferred[t] \in 0..DATA_MASK
  BY <1>1, <1>2, BoundFacts
<1>6. QED BY <1>1, <1>2, <1>3, <1>4, <1>5

LEMMA StateFacts ==
    ASSUME WordInv
    PROVE  /\ State \in Words /\ State.data = data /\ State.locked = locked
           /\ State.tail = NoTask <=> queue = <<>>
           /\ queue # <<>> => \E i \in 1..Len(queue) : queue[i] = State.tail
  BY WordFacts DEF State, WordInv, TypeOK

(* The entry visited by a worker, and what it may be given. *)
LEMMA VisitFacts ==
    ASSUME WordInv, NEW t \in Tasks, pc[t] = "pwq"
    PROVE  /\ Visited(t) \in Tasks
           /\ acquired(Visited(t)) \in 0..DATA_MASK
           /\ Base(t) \in 0..DATA_MASK
           /\ Eligible(t) => Base(t) + acquired(Visited(t)) <= DATA_MASK
<1>1. queue # <<>> /\ Base(t) \in 0..DATA_MASK
  BY Worker DEF Processing, Base
<1>2. Visited(t) \in Tasks /\ op[Visited(t)] \in Opcodes
  BY <1>1 DEF WordInv, TypeOK, Visited
<1>3. QED BY <1>1, <1>2, CountFacts, AdmitsFacts DEF Eligible, acquired

(* What release_loop subtracts. *)
LEMMA ReleaseFacts ==
    ASSUME WordInv, NEW t \in Tasks
    PROVE  /\ acquired(t) \in 0..DATA_MASK
           /\ CanRelease(t) => acquired(t) <= snap[t].data
  BY CountFacts, CanReleaseFacts DEF acquired, CanRelease, WordInv, TypeOK, Words

LEMMA ReturnTypes ==
    ASSUME TypeOK, NEW t \in Tasks, Return(t)
    PROVE  /\ pc' \in [Tasks -> Labels] /\ op' \in [Tasks -> Opcodes]
           /\ snap' \in [Tasks -> Words] /\ outer' \in [Tasks -> Words]
           /\ then' \in [Tasks -> {"idle", "complete"}]
           /\ transferred' \in [Tasks -> 0..DATA_MASK]
           /\ resolved' \in [Tasks -> Seq(Tasks)]
           /\ pc' = [pc EXCEPT ![t] = "idle"]
  BY FreeFacts, DataMaskAssumption
     DEF TypeOK, Return, Goto, Labels, Exclusive, Opcodes, Kinds

USE DEF NoResult, ACQUIRED, POISONED

LEMMA PushOkWord ==
    ASSUME WordInv, NEW t \in Tasks, PushOk(t)
    PROVE  WordInv'
<1>p. ~(locked /\ data = 0 /\ queue = <<>>)
  <2>1. snap[t] = State /\ (snap[t].tail # NoTask \/ snap[t].data # 0)
    BY DEF WordInv, PushInv, PushOk
  <2>2. QED BY <2>1, StateFacts
<1>q. transferred[t] = 0
  BY Quiet DEF PushOk
<1>1. TypeOK'
  BY FreeFacts DEF WordInv, TypeOK, PushOk, Goto, Labels
<1>2. Respects(t)
  BY Shape, <1>p, <1>q DEF PushOk, Goto, Respects, Processing
<1>3. QED BY <1>1, <1>2, RespectsWord

LEMMA PushFailedWord ==
    ASSUME WordInv, NEW t \in Tasks, PushFailed(t)
    PROVE  WordInv'
<1>q. transferred[t] = 0
  BY Quiet DEF PushFailed
<1>1. TypeOK'
  BY FreeFacts DEF WordInv, TypeOK, PushFailed, Goto, Labels
<1>2. Respects(t)
  BY Shape, <1>q DEF PushFailed, Goto, Respects, Processing
<1>3. QED BY <1>1, <1>2, RespectsWord

LEMMA ReleaseRefusedWord ==
    ASSUME WordInv, NEW t \in Tasks, ReleaseRefused(t)
    PROVE  WordInv'
<1>q. transferred[t] = 0
  BY Quiet DEF ReleaseRefused
<1>r. TypeOK /\ Return(t)
  BY DEF WordInv, ReleaseRefused
<1>1. TypeOK'
  BY <1>r, ReturnTypes DEF TypeOK, ReleaseRefused, word
<1>2. Respects(t)
  BY Shape, <1>q DEF ReleaseRefused, word, Return, Goto, Respects, Processing
<1>3. QED BY <1>1, <1>2, RespectsWord

LEMMA ReleaseInPlaceWord ==
    ASSUME WordInv, NEW t \in Tasks, ReleaseInPlace(t)
    PROVE  WordInv'
<1>q. transferred[t] = 0
  BY Quiet DEF ReleaseInPlace
<1>s. /\ State \in Words /\ State.data = data /\ State.locked = locked
      /\ State.tail = NoTask <=> queue = <<>>
  BY StateFacts
<1>a. acquired(t) \in 0..DATA_MASK /\ (CanRelease(t) => acquired(t) <= snap[t].data)
  BY ReleaseFacts
<1>d. data - acquired(t) \in 0..DATA_MASK
  BY <1>s, <1>a, Shape, DataMaskAssumption DEF ReleaseInPlace
<1>r. TypeOK /\ Return(t)
  BY DEF WordInv, ReleaseInPlace
<1>1. TypeOK'
  <2>1. data' \in 0..DATA_MASK /\ holds' \in [Tasks -> Int]
    BY <1>d, <1>a, <1>r DEF TypeOK, ReleaseInPlace
  <2>2. locked' = locked /\ queue' = queue /\ result' = result
    BY DEF ReleaseInPlace
  <2>3. QED BY <1>r, <2>1, <2>2, ReturnTypes DEF TypeOK
<1>2. Respects(t)
  BY Shape, <1>q, <1>s, <1>a, DataMaskAssumption DEF ReleaseInPlace, Return, Goto, Respects, Processing
<1>3. QED BY <1>1, <1>2, RespectsWord

LEMMA ReleaseAndProcessWord ==
    ASSUME WordInv, NEW t \in Tasks, ReleaseAndProcess(t)
    PROVE  WordInv'
<1>q. transferred[t] = 0
  BY Quiet DEF ReleaseAndProcess
<1>s. /\ State \in Words /\ State.data = data /\ State.locked = locked
      /\ State.tail = NoTask <=> queue = <<>>
  BY StateFacts
<1>a. acquired(t) \in 0..DATA_MASK /\ (CanRelease(t) => acquired(t) <= snap[t].data)
  BY ReleaseFacts
<1>d. /\ data - acquired(t) \in 0..DATA_MASK /\ queue # <<>> /\ ~locked
  BY <1>s, <1>a, Shape, DataMaskAssumption DEF ReleaseAndProcess
<1>e. data' \in 0..DATA_MASK
  BY <1>d DEF ReleaseAndProcess
<1>f. /\ Word(data', TRUE, queue) \in Words
      /\ Word(data', TRUE, queue).data = data' /\ Word(data', TRUE, queue).locked = TRUE
      /\ \E i \in 1..Len(queue) : queue[i] = Word(data', TRUE, queue).tail
  <2>1. queue \in Seq(Tasks) /\ TRUE \in BOOLEAN
    BY Shape
  <2> QED  BY <2>1, <1>d, <1>e, WordFacts
<1>1. TypeOK'
  <2>1. data' \in 0..DATA_MASK /\ locked' \in BOOLEAN /\ queue' \in Seq(Tasks)
    BY <1>e, Shape DEF ReleaseAndProcess
  <2>2. /\ snap' \in [Tasks -> Words] /\ transferred' \in [Tasks -> 0..DATA_MASK]
        /\ pc' \in [Tasks -> Labels]
    BY <1>f, Shape DEF ReleaseAndProcess, Goto, Labels
  <2>3. /\ resolved' \in [Tasks -> Seq(Tasks)] /\ holds' \in [Tasks -> Int]
    BY <1>a DEF WordInv, TypeOK, ReleaseAndProcess
  <2>4. QED BY <2>1, <2>2, <2>3 DEF WordInv, TypeOK, ReleaseAndProcess
<1>2. Respects(t)
  <2>1. \A u \in Tasks \ {t} : /\ pc'[u] = pc[u] /\ snap'[u] = snap[u]
                              /\ transferred'[u] = transferred[u]
    BY Shape DEF ReleaseAndProcess, Goto
  <2>2. /\ snap'[t] = Word(data', TRUE, queue) /\ transferred'[t] = 0
        /\ pc'[t] = "pwq" /\ locked' = TRUE /\ queue' = queue
    BY <1>q, <1>f, Shape DEF ReleaseAndProcess, Goto
  <2>3. snap'[t].locked = TRUE
    BY <2>2, <1>f, <1>d
  <2>4. snap'[t].data = data'
    BY <2>2, <1>f, <1>d
  <2>5. \E i \in 1..Len(queue') : queue'[i] = snap'[t].tail
    BY <2>2, <1>f
  <2>6. data' \in 0..DATA_MASK /\ transferred'[t] = 0
    BY <2>2, <1>e
  <2>7. data' <= snap'[t].data /\ snap'[t].data + transferred'[t] <= DATA_MASK
    BY <2>6, <2>4, AddNothing
  <2>8. Processing(t)' /\ ~Processing(t) /\ ~locked /\ locked' /\ pc'[t] = "pwq"
    BY <2>2, <1>d DEF Processing, ReleaseAndProcess
  <2>9. QED BY <2>1, <2>3, <2>5, <2>6, <2>7, <2>8 DEF Respects
<1>3. QED BY <1>1, <1>2, RespectsWord

LEMMA ReleaseRetryWord ==
    ASSUME WordInv, NEW t \in Tasks, ReleaseRetry(t)
    PROVE  WordInv'
<1>q. transferred[t] = 0
  BY Quiet DEF ReleaseRetry
<1>s. /\ State \in Words /\ State.data = data /\ State.locked = locked
      /\ State.tail = NoTask <=> queue = <<>>
  BY StateFacts
<1>1. TypeOK'
  BY <1>s DEF WordInv, TypeOK, ReleaseRetry, word
<1>2. Respects(t)
  BY Shape, <1>q DEF ReleaseRetry, word, Respects, Processing
<1>3. QED BY <1>1, <1>2, RespectsWord

LEMMA PwqVisitWord ==
    ASSUME WordInv, NEW t \in Tasks, PwqVisit(t)
    PROVE  WordInv'
<1>w. /\ locked /\ snap[t].locked = TRUE /\ queue # <<>>
      /\ \E i \in 1..Len(queue) : queue[i] = snap[t].tail
      /\ snap[t].data \in 0..DATA_MASK /\ transferred[t] \in 0..DATA_MASK
      /\ data <= snap[t].data /\ snap[t].data + transferred[t] \in 0..DATA_MASK
      /\ data + transferred[t] \in 0..DATA_MASK
  BY Worker DEF PwqVisit, Processing
<1>v. /\ Visited(t) \in Tasks /\ acquired(Visited(t)) \in 0..DATA_MASK
      /\ Base(t) \in 0..DATA_MASK /\ Base(t) + acquired(Visited(t)) <= DATA_MASK
  BY VisitFacts DEF PwqVisit
<1>i. PICK i \in 1..Len(queue) : queue[i] = snap[t].tail
  BY <1>w
<1>j. i # 1
  BY <1>i DEF PwqVisit, Visited
<1>q. queue \in Seq(Tasks) /\ queue # <<>>
  BY <1>w, Shape
<1>l. Tail(queue) \in Seq(Tasks)
  BY <1>q, <1>i, <1>j, TailFacts
<1>t. \E j \in 1..Len(Tail(queue)) : Tail(queue)[j] = snap[t].tail
  BY <1>q, <1>i, <1>j, TailFacts
<1>b. Base(t) = snap[t].data + transferred[t]
  BY DEF Base
<1>x. /\ transferred[t] + acquired(Visited(t)) \in 0..DATA_MASK
      /\ snap[t].data + (transferred[t] + acquired(Visited(t))) <= DATA_MASK
  BY <1>b, <1>v, <1>w, SumFacts
<1>1. TypeOK'
  <2>1. data' \in 0..DATA_MASK /\ locked' \in BOOLEAN /\ queue' \in Seq(Tasks)
    BY <1>l, Shape DEF PwqVisit
  <2>2. /\ snap' \in [Tasks -> Words] /\ transferred' \in [Tasks -> 0..DATA_MASK]
        /\ pc' \in [Tasks -> Labels]
    BY <1>x, Shape DEF PwqVisit
  <2>3. resolved' \in [Tasks -> Seq(Tasks)]
    BY <1>v DEF WordInv, TypeOK, PwqVisit
  <2>4. holds' \in [Tasks -> Int]
    <3>1. holds \in [Tasks -> Int]
      BY DEF WordInv, TypeOK
    <3>2. holds[Visited(t)] + acquired(Visited(t)) \in Int
      BY <3>1, <1>v
    <3>3. QED BY <3>1, <3>2, <1>v DEF PwqVisit
  <2>5. QED BY <2>1, <2>2, <2>3, <2>4 DEF WordInv, TypeOK, PwqVisit
<1>2. Respects(t)
  BY Shape, <1>t, <1>v, <1>w, <1>x DEF PwqVisit, Respects, Processing
<1>3. QED BY <1>1, <1>2, RespectsWord

LEMMA PwqResetWord ==
    ASSUME WordInv, NEW t \in Tasks, PwqReset(t)
    PROVE  WordInv'
<1>v. /\ Visited(t) \in Tasks /\ acquired(Visited(t)) \in 0..DATA_MASK
      /\ Base(t) \in 0..DATA_MASK /\ Base(t) + acquired(Visited(t)) <= DATA_MASK
  BY VisitFacts DEF PwqReset
<1>d. Base(t) + acquired(Visited(t)) \in 0..DATA_MASK
  BY <1>v, DataMaskAssumption
<1>1. TypeOK'
  <2>1. data' \in 0..DATA_MASK /\ locked' \in BOOLEAN /\ queue' \in Seq(Tasks)
    BY <1>d, NilSeq DEF PwqReset
  <2>2. /\ snap' \in [Tasks -> Words] /\ transferred' \in [Tasks -> 0..DATA_MASK]
        /\ pc' \in [Tasks -> Labels]
    BY FreeFacts, Shape, DataMaskAssumption DEF PwqReset, Goto, Labels
  <2>3. resolved' \in [Tasks -> Seq(Tasks)]
    BY <1>v DEF WordInv, TypeOK, PwqReset
  <2>4. holds' \in [Tasks -> Int]
    <3>1. holds \in [Tasks -> Int]
      BY DEF WordInv, TypeOK
    <3>2. holds[Visited(t)] + acquired(Visited(t)) \in Int
      BY <3>1, <1>v
    <3>3. QED BY <3>1, <3>2, <1>v DEF PwqReset
  <2>5. QED BY <2>1, <2>2, <2>3, <2>4 DEF WordInv, TypeOK, PwqReset
<1>2. Respects(t)
  BY Shape, DataMaskAssumption DEF PwqReset, Goto, Respects, Processing
<1>3. QED BY <1>1, <1>2, RespectsWord

LEMMA PwqResetFailedWord ==
    ASSUME WordInv, NEW t \in Tasks, PwqResetFailed(t)
    PROVE  WordInv'
<1>w. /\ locked /\ snap[t].locked = TRUE /\ queue # <<>>
      /\ \E i \in 1..Len(queue) : queue[i] = snap[t].tail
      /\ snap[t].data \in 0..DATA_MASK /\ transferred[t] \in 0..DATA_MASK
      /\ data <= snap[t].data /\ snap[t].data + transferred[t] \in 0..DATA_MASK
      /\ data + transferred[t] \in 0..DATA_MASK
  BY Worker DEF PwqResetFailed, Processing
<1>1. TypeOK'
  BY DEF WordInv, TypeOK, PwqResetFailed, Goto, word, locals, Labels
<1>2. Respects(t)
  BY Shape, <1>w, DataMaskAssumption DEF PwqResetFailed, Goto, word, locals, Respects, Processing
<1>3. QED BY <1>1, <1>2, RespectsWord

LEMMA PwqUnlockWord ==
    ASSUME WordInv, NEW t \in Tasks, PwqUnlock(t)
    PROVE  WordInv'
<1>w. /\ locked /\ snap[t].locked = TRUE /\ queue # <<>>
      /\ \E i \in 1..Len(queue) : queue[i] = snap[t].tail
      /\ snap[t].data \in 0..DATA_MASK /\ transferred[t] \in 0..DATA_MASK
      /\ data <= snap[t].data /\ snap[t].data + transferred[t] \in 0..DATA_MASK
      /\ data + transferred[t] \in 0..DATA_MASK
  BY Worker DEF PwqUnlock, Processing
<1>d. data + transferred[t] \in 0..DATA_MASK
  BY <1>w
<1>1. TypeOK'
  <2>1. data' \in 0..DATA_MASK /\ locked' \in BOOLEAN /\ queue' \in Seq(Tasks)
    BY <1>d, Shape DEF PwqUnlock
  <2>2. /\ snap' \in [Tasks -> Words] /\ transferred' \in [Tasks -> 0..DATA_MASK]
        /\ pc' \in [Tasks -> Labels]
    BY FreeFacts, Shape, DataMaskAssumption DEF PwqUnlock, Goto, Labels
  <2>3. /\ resolved' \in [Tasks -> Seq(Tasks)] /\ holds' \in [Tasks -> Int]
    BY DEF WordInv, TypeOK, PwqUnlock
  <2>4. QED BY <2>1, <2>2, <2>3 DEF WordInv, TypeOK, PwqUnlock
<1>2. Respects(t)
  BY Shape DEF PwqUnlock, Goto, Respects, Processing
<1>3. QED BY <1>1, <1>2, RespectsWord

LEMMA PwqUnlockFailedWord ==
    ASSUME WordInv, NEW t \in Tasks, PwqUnlockFailed(t)
    PROVE  WordInv'
<1>w. /\ locked /\ snap[t].locked = TRUE /\ queue # <<>>
      /\ \E i \in 1..Len(queue) : queue[i] = snap[t].tail
      /\ snap[t].data \in 0..DATA_MASK /\ transferred[t] \in 0..DATA_MASK
      /\ data <= snap[t].data /\ snap[t].data + transferred[t] \in 0..DATA_MASK
      /\ data + transferred[t] \in 0..DATA_MASK
  BY Worker DEF PwqUnlockFailed, Processing
<1>1. TypeOK'
  BY DEF WordInv, TypeOK, PwqUnlockFailed, Goto, word, locals, Labels
<1>2. Respects(t)
  BY Shape, <1>w, DataMaskAssumption DEF PwqUnlockFailed, Goto, word, locals, Respects, Processing
<1>3. QED BY <1>1, <1>2, RespectsWord

LEMMA PwqAddWord ==
    ASSUME WordInv, NEW t \in Tasks, PwqAdd(t)
    PROVE  WordInv'
<1>w. /\ locked /\ snap[t].locked = TRUE /\ queue # <<>>
      /\ \E i \in 1..Len(queue) : queue[i] = snap[t].tail
      /\ snap[t].data \in 0..DATA_MASK /\ transferred[t] \in 0..DATA_MASK
      /\ data <= snap[t].data /\ snap[t].data + transferred[t] \in 0..DATA_MASK
      /\ data + transferred[t] \in 0..DATA_MASK
  BY Worker DEF PwqAdd, Processing
<1>e. data' \in 0..DATA_MASK
  BY <1>w DEF PwqAdd
<1>f. /\ Word(data', locked, queue) \in Words
      /\ Word(data', locked, queue).data = data' /\ Word(data', locked, queue).locked = TRUE
      /\ \E i \in 1..Len(queue) : queue[i] = Word(data', locked, queue).tail
  <2>1. locked = TRUE /\ queue # <<>> /\ queue \in Seq(Tasks)
    BY <1>w, Shape
  <2>2. /\ Word(data', TRUE, queue) \in Words
        /\ Word(data', TRUE, queue).data = data' /\ Word(data', TRUE, queue).locked = TRUE
        /\ \E i \in 1..Len(queue) : queue[i] = Word(data', TRUE, queue).tail
    BY <2>1, <1>e, WordFacts
  <2>3. QED BY <2>1, <2>2
<1>1. TypeOK'
  <2>1. data' \in 0..DATA_MASK /\ locked' \in BOOLEAN /\ queue' \in Seq(Tasks)
    BY <1>e, Shape DEF PwqAdd
  <2>2. /\ snap' \in [Tasks -> Words] /\ transferred' \in [Tasks -> 0..DATA_MASK]
        /\ pc' \in [Tasks -> Labels]
    BY <1>f, Shape, DataMaskAssumption DEF PwqAdd, Goto, Labels
  <2>3. /\ resolved' \in [Tasks -> Seq(Tasks)] /\ holds' \in [Tasks -> Int]
    BY DEF WordInv, TypeOK, PwqAdd
  <2>4. QED BY <2>1, <2>2, <2>3 DEF WordInv, TypeOK, PwqAdd
<1>2. Respects(t)
  <2>1. \A u \in Tasks \ {t} : /\ pc'[u] = pc[u] /\ snap'[u] = snap[u]
                              /\ transferred'[u] = transferred[u]
    BY Shape DEF PwqAdd, Goto
  <2>2. /\ snap'[t] = Word(data', locked, queue) /\ transferred'[t] = 0
        /\ pc[t] = "pwq_add" /\ pc'[t] = "resolve_more"
        /\ locked' = locked /\ queue' = queue
    BY <1>w, <1>f, Shape DEF PwqAdd, Goto
  <2>3. snap'[t].locked = TRUE
    BY <2>2, <1>f, <1>w
  <2>4. snap'[t].data = data'
    BY <2>2, <1>f, <1>w
  <2>5. \E i \in 1..Len(queue') : queue'[i] = snap'[t].tail
    BY <2>2, <1>f
  <2>6. data' \in 0..DATA_MASK /\ transferred'[t] = 0
    BY <2>2, <1>e
  <2>7. data' <= snap'[t].data /\ snap'[t].data + transferred'[t] <= DATA_MASK
    BY <2>6, <2>4, DataMaskAssumption
  <2>8. Processing(t)' /\ Processing(t) /\ locked' /\ pc'[t] = "resolve_more"
    BY <2>2, <1>w DEF Processing, PwqAdd
  <2>9. QED BY <2>1, <2>3, <2>5, <2>6, <2>7, <2>8 DEF Respects
<1>3. QED BY <1>1, <1>2, RespectsWord

LEMMA ResolveWord ==
    ASSUME WordInv, NEW t \in Tasks, Resolve(t)
    PROVE  WordInv'
<1>q. pc[t] \notin {"pwq", "pwq_add"} /\ transferred[t] = 0
  BY Quiet DEF Resolve
<1>w. Processing(t) =>
      /\ locked /\ snap[t].locked = TRUE
      /\ \E i \in 1..Len(queue) : queue[i] = snap[t].tail
      /\ data <= snap[t].data /\ snap[t].data + transferred[t] \in 0..DATA_MASK
  BY Worker
<1>n. SubSeq(resolved[t], 1, Len(resolved[t]) - 1) \in Seq(Tasks)
  BY DEF WordInv, TypeOK, Resolve, SetResult
<1>1. TypeOK'
  BY <1>n DEF WordInv, TypeOK, Resolve, SetResult, word
<1>2. Respects(t)
  <2>1. /\ snap' = snap /\ transferred' = transferred /\ pc' = pc
        /\ locked' = locked /\ data' = data /\ queue' = queue /\ pc[t] # "push"
    BY DEF Resolve, SetResult, word
  <2>2. Processing(t)' <=> Processing(t)
    BY <2>1 DEF Processing
  <2>3. Processing(t) =>
          /\ locked' /\ snap'[t].locked = TRUE
          /\ \E i \in 1..Len(queue') : queue'[i] = snap'[t].tail
          /\ data' <= snap'[t].data /\ snap'[t].data + transferred'[t] <= DATA_MASK
    BY <1>w, <2>1
  <2>4. data' <= data /\ Len(queue) <= Len(queue')
    BY <2>1, Shape
  <2>5. QED BY <2>1, <2>2, <2>3, <2>4, <1>q DEF Respects
<1>3. QED BY <1>1, <1>2, RespectsWord

LEMMA PwqContinueWord ==
    ASSUME WordInv, NEW t \in Tasks, PwqContinue(t)
    PROVE  WordInv'
<1>q. transferred[t] = 0
  BY Quiet DEF PwqContinue
<1>w. /\ locked /\ snap[t].locked = TRUE /\ queue # <<>>
      /\ \E i \in 1..Len(queue) : queue[i] = snap[t].tail
      /\ snap[t].data \in 0..DATA_MASK /\ transferred[t] \in 0..DATA_MASK
      /\ data <= snap[t].data /\ snap[t].data + transferred[t] \in 0..DATA_MASK
      /\ data + transferred[t] \in 0..DATA_MASK
  BY Worker DEF PwqContinue, Processing
<1>1. TypeOK'
  BY DEF WordInv, TypeOK, PwqContinue, Goto, word, locals, Labels
<1>2. Respects(t)
  BY Shape, <1>q, <1>w, DataMaskAssumption DEF PwqContinue, Goto, word, locals, Respects, Processing
<1>3. QED BY <1>1, <1>2, RespectsWord

LEMMA PwqReturnWord ==
    ASSUME WordInv, NEW t \in Tasks, PwqReturn(t)
    PROVE  WordInv'
<1>q. transferred[t] = 0
  BY Quiet DEF PwqReturn
<1>t. TypeOK
  BY DEF WordInv
<1>1. CASE then[t] = "idle"
  <2>1. Return(t)
    BY <1>1 DEF PwqReturn
  <2>2. TypeOK'
    BY <1>t, <2>1, ReturnTypes DEF TypeOK, PwqReturn, word
  <2>3. Respects(t)
    BY Shape, <1>q, <2>1 DEF PwqReturn, Return, Goto, word, Respects, Processing
  <2>4. QED BY <2>2, <2>3, RespectsWord
<1>2. CASE then[t] # "idle"
  <2>1. then[t] = "complete" /\ Goto(t, "complete") /\ UNCHANGED <<op, locals>>
    BY <1>t, <1>2 DEF PwqReturn, TypeOK
  <2>2. TypeOK'
    BY <1>t, <2>1 DEF TypeOK, PwqReturn, Goto, word, locals, Labels
  <2>3. Respects(t)
    BY Shape, <1>q, <2>1 DEF PwqReturn, Goto, word, locals, Respects, Processing
  <2>4. QED BY <2>2, <2>3, RespectsWord
<1>3. QED BY <1>1, <1>2

LEMMA DropWord ==
    ASSUME WordInv, NEW t \in Tasks, Drop(t)
    PROVE  WordInv'
<1>q. transferred[t] = 0
  BY Quiet DEF Drop
<1>1. TypeOK'
  BY DEF WordInv, TypeOK, Drop, Goto, word, locals, Labels
<1>2. Respects(t)
  BY Shape, <1>q DEF Drop, Goto, word, locals, Respects, Processing
<1>3. QED BY <1>1, <1>2, RespectsWord

LEMMA CancelEmptyWord ==
    ASSUME WordInv, NEW t \in Tasks, CancelEmpty(t)
    PROVE  WordInv'
<1>q. transferred[t] = 0
  BY Quiet DEF CancelEmpty
<1>s. /\ State \in Words /\ State.data = data /\ State.locked = locked
      /\ State.tail = NoTask <=> queue = <<>>
  BY StateFacts
<1>1. TypeOK'
  BY <1>s DEF WordInv, TypeOK, CancelEmpty, Goto, word, Labels
<1>2. Respects(t)
  BY Shape, <1>q DEF CancelEmpty, Goto, word, Respects, Processing
<1>3. QED BY <1>1, <1>2, RespectsWord

LEMMA CancelLockWord ==
    ASSUME WordInv, NEW t \in Tasks, CancelLock(t)
    PROVE  WordInv'
<1>q. transferred[t] = 0
  BY Quiet DEF CancelLock
<1>s. /\ State \in Words /\ State.data = data /\ State.locked = locked
      /\ State.tail = NoTask <=> queue = <<>>
  BY StateFacts
<1>f. /\ Word(data, TRUE, queue) \in Words
      /\ Word(data, TRUE, queue).data = data /\ Word(data, TRUE, queue).locked = TRUE
      /\ \E i \in 1..Len(queue) : queue[i] = Word(data, TRUE, queue).tail
  <2>1. queue # <<>> /\ queue \in Seq(Tasks) /\ data \in 0..DATA_MASK
    BY Shape DEF CancelLock
  <2>2. QED BY <2>1, WordFacts
<1>1. TypeOK'
  BY <1>s, <1>f DEF WordInv, TypeOK, CancelLock, Goto, Labels
<1>2. Respects(t)
  <2>1. \A u \in Tasks \ {t} : /\ pc'[u] = pc[u] /\ snap'[u] = snap[u]
                              /\ transferred'[u] = transferred[u]
    BY Shape DEF CancelLock, Goto
  <2>2. /\ snap'[t] = Word(data, TRUE, queue) /\ transferred'[t] = 0
        /\ pc'[t] = "remove" /\ locked' = TRUE /\ ~locked /\ queue' = queue /\ data' = data
    BY <1>q, <1>f, Shape DEF CancelLock, Goto
  <2>3. snap'[t].locked = TRUE
    BY <2>2, <1>f
  <2>4. snap'[t].data = data'
    BY <2>2, <1>f
  <2>5. \E i \in 1..Len(queue') : queue'[i] = snap'[t].tail
    BY <2>2, <1>f
  <2>6. data' \in 0..DATA_MASK /\ transferred'[t] = 0
    BY <2>2, Shape
  <2>7. data' <= snap'[t].data /\ snap'[t].data + transferred'[t] <= DATA_MASK
    BY <2>6, <2>4, DataMaskAssumption
  <2>8. Processing(t)' /\ ~Processing(t) /\ ~locked /\ locked' /\ pc'[t] = "remove"
    BY <2>2 DEF Processing, CancelLock
  <2>9. QED BY <2>1, <2>3, <2>5, <2>6, <2>7, <2>8 DEF Respects
<1>3. QED BY <1>1, <1>2, RespectsWord

(* Unlinking an entry keeps the others, in order. *)
LEMMA UnlinkFacts ==
    ASSUME NEW q \in Seq(Tasks), NEW k \in 1..Len(q)
    PROVE  /\ Unlink(q, k) \in Seq(Tasks)
           /\ Len(Unlink(q, k)) = Len(q) - 1
           /\ \A i \in 1..(Len(q) - 1) :
                 Unlink(q, k)[i] = IF i < k THEN q[i] ELSE q[i + 1]
<1>1. Len(q) - 1 \in Nat
  OBVIOUS
<1>2. \A i \in 1..(Len(q) - 1) : (IF i < k THEN q[i] ELSE q[i + 1]) \in Tasks
  OBVIOUS
<1>3. QED BY <1>1, <1>2 DEF Unlink

LEMMA RemoveInnerWord ==
    ASSUME WordInv, NEW t \in Tasks, RemoveInner(t)
    PROVE  WordInv'
<1>q. transferred[t] = 0
  BY Quiet DEF RemoveInner
<1>w. /\ locked /\ snap[t].locked = TRUE /\ queue # <<>>
      /\ \E i \in 1..Len(queue) : queue[i] = snap[t].tail
      /\ snap[t].data \in 0..DATA_MASK /\ transferred[t] \in 0..DATA_MASK
      /\ data <= snap[t].data /\ snap[t].data + transferred[t] \in 0..DATA_MASK
      /\ data + transferred[t] \in 0..DATA_MASK
  BY Worker DEF RemoveInner, Processing
<1>u. PICK k \in 1..Len(queue) : queue[k] = t /\ queue' = Unlink(queue, k)
  BY DEF RemoveInner
<1>l. /\ queue' \in Seq(Tasks) /\ Len(queue') = Len(queue) - 1
      /\ \A i \in 1..(Len(queue) - 1) : queue'[i] = IF i < k THEN queue[i] ELSE queue[i + 1]
  BY <1>u, Shape, UnlinkFacts
<1>i. PICK i \in 1..Len(queue) : queue[i] = snap[t].tail
  BY <1>w
<1>j. i # k
  BY <1>i, <1>u DEF RemoveInner
<1>t. \E j \in 1..Len(queue') : queue'[j] = snap[t].tail
  <2>1. CASE i < k
    <3>1. i \in 1..(Len(queue) - 1)
      BY <2>1, <1>i, <1>u, Shape
    <3>3. queue'[i] = snap[t].tail
      BY <3>1, <2>1, <1>i, <1>l
    <3>2. QED BY <3>1, <3>3, <1>l
  <2>2. CASE i > k
    <3>1. i - 1 \in 1..(Len(queue) - 1) /\ queue'[i - 1] = snap[t].tail
      BY <2>2, <1>i, <1>l, <1>u, Shape
    <3>2. QED BY <3>1, <1>l
  <2>3. QED BY <2>1, <2>2, <1>j
<1>1. TypeOK'
  BY <1>l DEF WordInv, TypeOK, RemoveInner, Goto, Labels
<1>2. Respects(t)
  <2>1. /\ \A u \in Tasks \ {t} : pc'[u] = pc[u]
        /\ pc'[t] = "pwq" /\ pc[t] = "remove" /\ locked' = locked /\ data' = data
        /\ snap' = snap /\ transferred' = transferred
    BY Shape DEF RemoveInner, Goto
  <2>2. Processing(t) /\ Processing(t)'
    BY <2>1 DEF Processing
  <2>3. snap[t].data + transferred[t] <= DATA_MASK
    BY <1>w, DataMaskAssumption
  <2>4. QED BY <2>1, <2>2, <2>3, <1>t, <1>w DEF Respects
<1>3. QED BY <1>1, <1>2, RespectsWord

LEMMA RemoveTailWord ==
    ASSUME WordInv, NEW t \in Tasks, RemoveTail(t)
    PROVE  WordInv'
<1>q. transferred[t] = 0
  BY Quiet DEF RemoveTail
<1>w. /\ locked /\ snap[t].locked = TRUE /\ queue # <<>>
      /\ \E i \in 1..Len(queue) : queue[i] = snap[t].tail
      /\ snap[t].data \in 0..DATA_MASK /\ transferred[t] \in 0..DATA_MASK
      /\ data <= snap[t].data /\ snap[t].data + transferred[t] \in 0..DATA_MASK
      /\ data + transferred[t] \in 0..DATA_MASK
  BY Worker DEF RemoveTail, Processing
<1>l. queue' \in Seq(Tasks) /\ queue' # <<>>
  <2>1. queue' = Unlink(queue, Len(queue))
    BY DEF RemoveTail
  <2>2. Len(queue) > 1
    BY DEF RemoveTail
  <2>3. Len(queue) \in 1..Len(queue) /\ Len(queue) - 1 >= 1
    BY <2>2, Shape
  <2>4. /\ Unlink(queue, Len(queue)) \in Seq(Tasks)
        /\ Len(Unlink(queue, Len(queue))) = Len(queue) - 1
    BY <2>3, Shape, UnlinkFacts
  <2>5. QED BY <2>1, <2>3, <2>4
<1>b. locked = TRUE
  BY <1>w, Shape
<1>f. /\ Word(data, locked, queue') \in Words
      /\ Word(data, locked, queue').data = data
      /\ Word(data, locked, queue').locked = locked
      /\ \E i \in 1..Len(queue') : queue'[i] = Word(data, locked, queue').tail
  <2>1. data \in 0..DATA_MASK /\ locked \in BOOLEAN
    BY Shape
  <2>2. Word(data, locked, queue') \in Words
    BY <1>l, <2>1, WordFacts
  <2>3. Word(data, locked, queue').data = data
    BY <1>l, <2>1, WordFacts
  <2>4. Word(data, locked, queue').locked = locked
    BY <1>l, <2>1, WordFacts
  <2>5. \E i \in 1..Len(queue') : queue'[i] = Word(data, locked, queue').tail
    BY <1>l, <2>1, WordFacts
  <2>6. QED BY <2>2, <2>3, <2>4, <2>5
<1>1. TypeOK'
  BY <1>l, <1>f DEF WordInv, TypeOK, RemoveTail, Goto, Labels
<1>2. Respects(t)
  <2>1. \A u \in Tasks \ {t} : /\ pc'[u] = pc[u] /\ snap'[u] = snap[u]
                              /\ transferred'[u] = transferred[u]
    BY Shape DEF RemoveTail, Goto
  <2>2. /\ snap'[t] = Word(data, locked, queue') /\ transferred'[t] = 0
        /\ pc[t] = "remove" /\ pc'[t] = "pwq" /\ locked' = locked /\ data' = data
    BY <1>q, <1>f, Shape DEF RemoveTail, Goto
  <2>3. snap'[t].locked = TRUE
    BY <2>2, <1>f, <1>b
  <2>4. snap'[t].data = data'
    BY <2>2, <1>f, <1>w
  <2>5. \E i \in 1..Len(queue') : queue'[i] = snap'[t].tail
    BY <2>2, <1>f
  <2>6. data' \in 0..DATA_MASK /\ transferred'[t] = 0
    BY <2>2, Shape
  <2>7. data' <= snap'[t].data /\ snap'[t].data + transferred'[t] <= DATA_MASK
    BY <2>6, <2>4, DataMaskAssumption
  <2>8. Processing(t)' /\ Processing(t) /\ locked' /\ pc'[t] = "pwq"
    BY <2>2, <1>w DEF Processing, RemoveTail
  <2>9. QED BY <2>1, <2>3, <2>5, <2>6, <2>7, <2>8 DEF Respects
<1>3. QED BY <1>1, <1>2, RespectsWord

LEMMA RemoveSoleWord ==
    ASSUME WordInv, NEW t \in Tasks, RemoveSole(t)
    PROVE  WordInv'
<1>q. transferred[t] = 0
  BY Quiet DEF RemoveSole
<1>r. TypeOK /\ Return(t)
  BY DEF WordInv, RemoveSole
<1>1. TypeOK'
  BY <1>r, ReturnTypes, NilSeq DEF TypeOK, RemoveSole
<1>2. Respects(t)
  BY Shape, <1>q DEF RemoveSole, Return, Goto, Respects, Processing
<1>3. QED BY <1>1, <1>2, RespectsWord

LEMMA RemoveRetryWord ==
    ASSUME WordInv, NEW t \in Tasks, RemoveRetry(t)
    PROVE  WordInv'
<1>q. transferred[t] = 0
  BY Quiet DEF RemoveRetry
<1>w. /\ locked /\ snap[t].locked = TRUE /\ queue # <<>>
      /\ \E i \in 1..Len(queue) : queue[i] = snap[t].tail
      /\ snap[t].data \in 0..DATA_MASK /\ transferred[t] \in 0..DATA_MASK
      /\ data <= snap[t].data /\ snap[t].data + transferred[t] \in 0..DATA_MASK
      /\ data + transferred[t] \in 0..DATA_MASK
  BY Worker DEF RemoveRetry, Processing
<1>s. /\ State \in Words /\ State.data = data /\ State.locked = locked
      /\ State.tail = NoTask <=> queue = <<>>
  BY StateFacts
<1>i. \E i \in 1..Len(queue) : queue[i] = State.tail
  BY <1>w, StateFacts
<1>1. TypeOK'
  BY <1>s DEF WordInv, TypeOK, RemoveRetry, word
<1>2. Respects(t)
  <2>1. \A u \in Tasks \ {t} : /\ pc'[u] = pc[u] /\ snap'[u] = snap[u]
                              /\ transferred'[u] = transferred[u]
    BY Shape DEF RemoveRetry, word
  <2>2. /\ snap'[t] = State /\ transferred'[t] = 0
        /\ pc[t] = "remove" /\ pc' = pc /\ locked' = locked /\ data' = data /\ queue' = queue
    BY <1>q, Shape DEF RemoveRetry, word
  <2>3. Processing(t) /\ Processing(t)'
    BY <2>2 DEF Processing
  <2>4. snap'[t].locked = TRUE
    BY <2>2, <1>s, <1>w
  <2>5. snap'[t].data = data /\ data \in 0..DATA_MASK /\ transferred'[t] = 0
    BY <2>2, <1>s, Shape
  <2>6. data' <= snap'[t].data /\ snap'[t].data + transferred'[t] <= DATA_MASK
    BY <2>2, <2>5, AddNothing
  <2>7. \E i \in 1..Len(queue') : queue'[i] = snap'[t].tail
    BY <2>2, <1>i
  <2>8. locked' /\ pc'[t] = "remove"
    BY <2>2, <1>w
  <2>9. QED BY <2>1, <2>3, <2>4, <2>5, <2>6, <2>7, <2>8 DEF Respects
<1>3. QED BY <1>1, <1>2, RespectsWord

LEMMA RemoveMissingWord ==
    ASSUME WordInv, NEW t \in Tasks, RemoveMissing(t)
    PROVE  WordInv'
<1>q. transferred[t] = 0
  BY Quiet DEF RemoveMissing
<1>w. /\ locked /\ snap[t].locked = TRUE /\ queue # <<>>
      /\ \E i \in 1..Len(queue) : queue[i] = snap[t].tail
      /\ snap[t].data \in 0..DATA_MASK /\ transferred[t] \in 0..DATA_MASK
      /\ data <= snap[t].data /\ snap[t].data + transferred[t] \in 0..DATA_MASK
      /\ data + transferred[t] \in 0..DATA_MASK
  BY Worker DEF RemoveMissing, Processing
<1>1. TypeOK'
  BY DEF WordInv, TypeOK, RemoveMissing, Goto, word, Labels
<1>2. Respects(t)
  BY Shape, <1>q, <1>w, DataMaskAssumption DEF RemoveMissing, Goto, word, Respects, Processing
<1>3. QED BY <1>1, <1>2, RespectsWord

LEMMA CompleteWord ==
    ASSUME WordInv, NEW t \in Tasks, Complete(t)
    PROVE  WordInv'
<1>q. transferred[t] = 0
  BY Quiet DEF Complete
<1>1. TypeOK'
  BY DEF WordInv, TypeOK, Complete, Goto, word, Labels
<1>2. Respects(t)
  BY Shape, <1>q DEF Complete, Goto, word, Respects, Processing
<1>3. QED BY <1>1, <1>2, RespectsWord

(* Every step of the wait queue protocol preserves WordInv. *)
LEMMA SyncStepWord ==
    ASSUME WordInv, NEW t \in Tasks, SyncStep(t) \/ Drop(t)
    PROVE  WordInv'
<1>1. CASE PushOk(t) \/ PushFailed(t) \/ Drop(t)
  BY <1>1, PushOkWord, PushFailedWord, DropWord
<1>2. CASE Release(t)
  BY <1>2, ReleaseRefusedWord, ReleaseInPlaceWord, ReleaseAndProcessWord,
     ReleaseRetryWord DEF Release
<1>3. CASE Process(t)
  BY <1>3, PwqVisitWord, PwqResetWord, PwqResetFailedWord, PwqUnlockWord,
     PwqUnlockFailedWord, PwqAddWord, ResolveWord, PwqContinueWord, PwqReturnWord
     DEF Process
<1>4. CASE Cancel(t)
  BY <1>4, CancelEmptyWord, CancelLockWord, RemoveInnerWord, RemoveTailWord,
     RemoveSoleWord, RemoveRetryWord, RemoveMissingWord, CompleteWord DEF Cancel
<1>5. QED BY <1>1, <1>2, <1>3, <1>4 DEF SyncStep

(* So does a step that changes nothing. *)
LEMMA StutterWord ==
    ASSUME WordInv, UNCHANGED vars
    PROVE  WordInv'
  BY DEF vars, WordInv, TypeOK, WorkInv, OneWorker, RoundInv, FlagInv, PushInv,
         Processing, InQueue

(* What follows for the flag and for the assertions of the code. *)
LEMMA WordImplies ==
    ASSUME WordInv
    PROVE  LockedFlag /\ DebugAsserts
<1>1. LockedFlag
  <2>1. \A t, u \in Tasks : Processing(t) /\ Processing(u) => t = u
    BY DEF WordInv, OneWorker
  <2>2. (\E t \in Tasks : Processing(t)) => locked
    BY DEF WordInv, WorkInv
  <2>3. State = Word(0, TRUE, <<>>) => locked
    <3>1. State.locked = locked /\ Word(0, TRUE, <<>>).locked = TRUE
      BY StateFacts DEF Word
    <3> QED  BY <3>1
  <2>4. locked => \/ State = Word(0, TRUE, <<>>)
                  \/ \E t \in Tasks : Processing(t)
    <3>1. locked = TRUE => \/ data = 0 /\ queue = <<>>
                          \/ \E t \in Tasks : Processing(t)
      BY DEF WordInv, FlagInv
    <3>2. locked = TRUE /\ data = 0 /\ queue = <<>> => State = Word(0, TRUE, <<>>)
      BY DEF State
    <3> QED  BY <3>1, <3>2, Shape
  <2> QED  BY <2>1, <2>2, <2>3, <2>4 DEF LockedFlag
<1>2. ASSUME NEW t \in Tasks, Processing(t)
      PROVE  /\ snap[t].locked /\ snap[t].tail # NoTask
             /\ data <= snap[t].data
             /\ data + transferred[t] <= DATA_MASK
             /\ \A i \in 1..Len(queue) : acquired(queue[i]) <= desired_count(op[queue[i]])
  <2>1. /\ snap[t].locked = TRUE /\ snap[t].tail \in Tasks
        /\ data <= snap[t].data /\ data + transferred[t] \in 0..DATA_MASK
    BY <1>2, Worker
  <2>2. snap[t].tail # NoTask /\ data + transferred[t] <= DATA_MASK
    BY <2>1, TasksAssumption, DataMaskAssumption
  <2>3. \A i \in 1..Len(queue) : acquired(queue[i]) <= desired_count(op[queue[i]])
    <3>1. \A i \in 1..Len(queue) : op[queue[i]] \in Opcodes
      BY DEF WordInv, TypeOK
    <3> QED  BY <3>1, CountFacts DEF acquired
  <2> QED  BY <2>1, <2>2, <2>3
<1>3. DebugAsserts
  BY <1>2 DEF DebugAsserts, WordInv, PushInv
<1> QED  BY <1>1, <1>3

-----------------------------------------------------------------------------
(* The owner of the entry has not left the wait, nor the cancellation that *)
(* consumes its result.                                                    *)
Inside(t) == \/ pc[t] \in {"wait", "cancel", "remove", "complete"}
             \/ /\ then[t] = "complete"
                /\ pc[t] \in {"pwq", "pwq_add", "resolve_more", "resolve_done"}

(* Tasks that may hold a list of entries to be given a result. *)
Lists == {"pwq", "pwq_add", "resolve_more", "resolve_done", "poisoning"}

(* An entry without a result is reachable, in exactly one way, as long as  *)
(* its owner is inside, and nobody else is reachable.                      *)
ReachInv ==
    \A t \in Tasks :
        /\ Inside(t) /\ result[t] = NoResult <=> InQueue(t) \/ Pending(t)
        /\ ~(InQueue(t) /\ Pending(t))
        /\ InQueue(t) => pc[t] \in {"wait", "cancel", "remove"}
        /\ result[t] # NoResult => Inside(t)
QueueOnce == \A i, j \in 1..Len(queue) : queue[i] = queue[j] => i = j
ListOnce ==
    \A u, v \in Tasks : \A i \in 1..Len(resolved[u]), j \in 1..Len(resolved[v]) :
        resolved[u][i] = resolved[v][j] => u = v /\ i = j
OwnList == \A t \in Tasks : resolved[t] # <<>> => pc[t] \in Lists

WaitInv == ReachInv /\ QueueOnce /\ ListOnce /\ OwnList


-----------------------------------------------------------------------------
(* A task moves inside the library; no entry changes hands. *)
Moves(t) ==
    /\ queue' = queue /\ resolved' = resolved /\ result' = result
    /\ \A u \in Tasks \ {t} : pc'[u] = pc[u] /\ then'[u] = then[u]
    /\ Inside(t)' <=> Inside(t)
    /\ InQueue(t) => pc'[t] \in {"wait", "cancel", "remove"}
    /\ resolved[t] # <<>> => pc'[t] \in Lists

LEMMA MovesWait ==
    ASSUME WaitInv, NEW t \in Tasks, Moves(t)
    PROVE  WaitInv'
<1>1. \A u \in Tasks : /\ InQueue(u)' <=> InQueue(u)
                       /\ Pending(u)' <=> Pending(u)
                       /\ Inside(u)' <=> Inside(u)
  BY DEF Moves, InQueue, Pending, Inside
<1>2. ReachInv'
  BY <1>1 DEF WaitInv, ReachInv, Moves
<1>3. QueueOnce' /\ ListOnce' /\ OwnList'
  BY DEF WaitInv, QueueOnce, ListOnce, OwnList, Moves
<1> QED  BY <1>2, <1>3 DEF WaitInv

(* The entry of a task outside gets into the queue. *)
Enqueues(t) ==
    /\ resolved' = resolved /\ result' = result
    /\ \A u \in Tasks \ {t} : pc'[u] = pc[u] /\ then'[u] = then[u]
    /\ pc[t] \in {"try", "push"} /\ pc'[t] = "wait" /\ queue' = Append(queue, t)

LEMMA EnqueuesWait ==
    ASSUME WaitInv, queue \in Seq(Tasks), NEW t \in Tasks, Enqueues(t)
    PROVE  WaitInv'
<1>0. /\ queue \in Seq(Tasks) /\ resolved' = resolved /\ result' = result
      /\ \A u \in Tasks \ {t} : pc'[u] = pc[u] /\ then'[u] = then[u]
      /\ pc[t] \in {"try", "push"} /\ pc'[t] = "wait" /\ queue' = Append(queue, t)
  BY DEF Enqueues
<1>1. /\ Len(queue') = Len(queue) + 1 /\ queue'[Len(queue) + 1] = t /\ Len(queue) \in Nat
      /\ \A i \in 1..Len(queue) : queue'[i] = queue[i]
  BY <1>0
<1>2. ~Inside(t) /\ Inside(t)' /\ ~InQueue(t) /\ ~Pending(t) /\ result[t] = NoResult
  BY <1>0 DEF WaitInv, ReachInv, Inside
<1>3. \A u \in Tasks : /\ InQueue(u)' <=> InQueue(u) \/ u = t
                       /\ Pending(u)' <=> Pending(u)
                       /\ u # t => (Inside(u)' <=> Inside(u))
  <2>1. ASSUME NEW u \in Tasks PROVE InQueue(u)' <=> InQueue(u) \/ u = t
    <3>1. ASSUME InQueue(u) PROVE InQueue(u)'
      BY <1>1, <3>1 DEF InQueue
    <3>2. InQueue(t)'
      BY <1>1 DEF InQueue
    <3>3. ASSUME InQueue(u)', u # t PROVE InQueue(u)
      BY <1>1, <3>3 DEF InQueue
    <3> QED  BY <3>1, <3>2, <3>3
  <2> QED  BY <1>0, <2>1 DEF Pending, Inside
<1>4. ReachInv'
  BY <1>0, <1>2, <1>3 DEF WaitInv, ReachInv
<1>5. QueueOnce'
  BY <1>1, <1>2 DEF WaitInv, QueueOnce, InQueue
<1>6. ListOnce' /\ OwnList'
  BY <1>0 DEF WaitInv, ListOnce, OwnList, Lists
<1> QED  BY <1>4, <1>5, <1>6 DEF WaitInv

LEMMA PushOkWait ==
    ASSUME WordInv, WaitInv, NEW t \in Tasks, PushOk(t)
    PROVE  WaitInv'
<1>1. queue \in Seq(Tasks) /\ Enqueues(t)
  BY DEF WordInv, TypeOK, PushOk, Goto, Enqueues
<1> QED  BY <1>1, EnqueuesWait

(* A result is consumed by its owner, who leaves. *)
Consumes(t) ==
    /\ queue' = queue /\ resolved' = resolved
    /\ \A u \in Tasks \ {t} : pc'[u] = pc[u] /\ then'[u] = then[u] /\ result'[u] = result[u]
    /\ result[t] # NoResult /\ result'[t] = NoResult /\ ~Inside(t)'
    /\ pc[t] \notin Lists

LEMMA ConsumesWait ==
    ASSUME WaitInv, NEW t \in Tasks, Consumes(t)
    PROVE  WaitInv'
<1>1. \A u \in Tasks : /\ InQueue(u)' <=> InQueue(u)
                       /\ Pending(u)' <=> Pending(u)
                       /\ u # t => (Inside(u)' <=> Inside(u))
  BY DEF Consumes, InQueue, Pending, Inside
<1>2. ReachInv'
  BY <1>1 DEF WaitInv, ReachInv, Consumes
<1>3. QueueOnce' /\ ListOnce' /\ OwnList'
  BY DEF WaitInv, QueueOnce, ListOnce, OwnList, Consumes
<1> QED  BY <1>2, <1>3 DEF WaitInv

(* A Pager is told at once: the result is stored in the own entry. *)
Answers(t) ==
    /\ queue' = queue /\ resolved' = resolved
    /\ \A u \in Tasks \ {t} : pc'[u] = pc[u] /\ then'[u] = then[u] /\ result'[u] = result[u]
    /\ pc[t] = "try" /\ result'[t] # NoResult /\ pc'[t] = "wait"

LEMMA AnswersWait ==
    ASSUME WaitInv, NEW t \in Tasks, Answers(t)
    PROVE  WaitInv'
<1>1. \A u \in Tasks : /\ InQueue(u)' <=> InQueue(u)
                       /\ Pending(u)' <=> Pending(u)
                       /\ u # t => (Inside(u)' <=> Inside(u))
  BY DEF Answers, InQueue, Pending, Inside
<1>0. ~Inside(t) /\ Inside(t)'
  BY DEF Answers, Inside
<1>2. ReachInv'
  BY <1>0, <1>1 DEF WaitInv, ReachInv, Answers
<1>3. QueueOnce' /\ ListOnce' /\ OwnList'
  BY DEF WaitInv, QueueOnce, ListOnce, OwnList, Answers, Lists
<1> QED  BY <1>2, <1>3 DEF WaitInv

-----------------------------------------------------------------------------
LEMMA FrontFacts ==
    ASSUME NEW q \in Seq(Tasks), q # <<>>
    PROVE  LET n == Len(q)
               f == SubSeq(q, 1, n - 1)
           IN  /\ n \in Nat /\ n >= 1
               /\ f \in Seq(Tasks) /\ Len(f) = n - 1
               /\ \A i \in 1..(n - 1) : f[i] = q[i]
<1> DEFINE n == Len(q)
           f == SubSeq(q, 1, n - 1)
<1>1. n \in Nat /\ n # 0
  OBVIOUS
<1>2. \A i \in 1..(n - 1) : q[i] \in Tasks
  BY <1>1
<1>3. /\ f \in Seq(Tasks) /\ Len(f) = IF 1 <= n - 1 THEN n - 1 - 1 + 1 ELSE 0
      /\ \A i \in 1..(n - 1 - 1 + 1) : f[i] = q[1 + i - 1]
  BY <1>1, <1>2, SubSeqProperties
<1> SUFFICES n >= 1 /\ f \in Seq(Tasks) /\ Len(f) = n - 1 /\ \A i \in 1..(n - 1) : f[i] = q[i]
  BY <1>1
<1> HIDE DEF n, f
<1>4. n - 1 - 1 + 1 = n - 1 /\ \A i \in 1..(n - 1) : 1 + i - 1 = i
  BY <1>1
<1> QED  BY <1>1, <1>3, <1>4

(* The newest entry of a list gets its result. *)
LEMMA SetResultWait ==
    ASSUME WordInv, WaitInv, NEW t \in Tasks, NEW value, value # NoResult, SetResult(t, value)
    PROVE  WaitInv'
<1> DEFINE n == Len(resolved[t])
           k == resolved[t][n]
<1>0. /\ resolved[t] \in Seq(Tasks) /\ resolved[t] # <<>> /\ resolved \in [Tasks -> Seq(Tasks)]
      /\ queue' = queue /\ pc' = pc /\ then' = then /\ result \in [Tasks -> {NoResult, ACQUIRED, POISONED}]
  BY DEF WordInv, TypeOK, SetResult, word
<1>1. n \in Nat /\ n >= 1 /\ k \in Tasks /\ n \in 1..Len(resolved[t])
  BY <1>0
<1>2. /\ result' = [result EXCEPT ![k] = value]
      /\ resolved' = [resolved EXCEPT ![t] = SubSeq(resolved[t], 1, n - 1)]
  BY DEF SetResult
<1>5. /\ resolved'[t] \in Seq(Tasks) /\ Len(resolved'[t]) = n - 1
      /\ \A i \in 1..(n - 1) : resolved'[t][i] = resolved[t][i]
      /\ \A u \in Tasks : u # t => resolved'[u] = resolved[u]
  BY <1>0, <1>2, FrontFacts
<1>3. n = Len(resolved[t]) /\ k = resolved[t][n]
  OBVIOUS
<1> HIDE DEF n, k
<1>4. /\ \A u \in Tasks \ {k} : result'[u] = result[u]
      /\ result'[k] = value
  BY <1>0, <1>1, <1>2
<1>6. \A u \in Tasks : \A i \in 1..Len(resolved'[u]) :
          i \in 1..Len(resolved[u]) /\ resolved'[u][i] = resolved[u][i] /\ ~(u = t /\ i = n)
  BY <1>1, <1>3, <1>5
<1>7. \A u \in Tasks : \A i \in 1..Len(resolved[u]) :
          ~(u = t /\ i = n) => i \in 1..Len(resolved'[u])
  BY <1>1, <1>3, <1>5
<1>8. \A u \in Tasks : /\ InQueue(u)' <=> InQueue(u)
                       /\ Pending(u)' <=> Pending(u) /\ u # k
                       /\ Inside(u)' <=> Inside(u)
  <2>1. ASSUME NEW u \in Tasks, Pending(u)' PROVE Pending(u) /\ u # k
    <3>1. PICK w \in Tasks : \E i \in 1..Len(resolved'[w]) : resolved'[w][i] = u
      BY <2>1 DEF Pending
    <3>2. PICK i \in 1..Len(resolved'[w]) : resolved'[w][i] = u
      BY <3>1
    <3>3. i \in 1..Len(resolved[w]) /\ resolved[w][i] = u /\ ~(w = t /\ i = n)
      BY <3>2, <1>6
    <3> QED  BY <3>3, <1>1, <1>3 DEF Pending, WaitInv, ListOnce
  <2>2. ASSUME NEW u \in Tasks, Pending(u), u # k PROVE Pending(u)'
    <3>1. PICK w \in Tasks : \E i \in 1..Len(resolved[w]) : resolved[w][i] = u
      BY <2>2 DEF Pending
    <3>2. PICK i \in 1..Len(resolved[w]) : resolved[w][i] = u
      BY <3>1
    <3>3. i \in 1..Len(resolved'[w]) /\ resolved'[w][i] = u
      BY <3>2, <2>2, <1>3, <1>6, <1>7
    <3> QED  BY <3>3 DEF Pending
  <2> QED  BY <1>0, <2>1, <2>2 DEF InQueue, Inside
<1>9. Pending(k)
  BY <1>1, <1>3 DEF Pending
<1>10. ReachInv'
  BY <1>0, <1>1, <1>4, <1>8, <1>9 DEF WaitInv, ReachInv
<1>11. ListOnce'
  <2>1. ASSUME NEW u \in Tasks, NEW v \in Tasks, NEW i \in 1..Len(resolved'[u]),
               NEW j \in 1..Len(resolved'[v]), resolved'[u][i] = resolved'[v][j]
        PROVE  u = v /\ i = j
    <3>1. /\ i \in 1..Len(resolved[u]) /\ resolved'[u][i] = resolved[u][i]
          /\ j \in 1..Len(resolved[v]) /\ resolved'[v][j] = resolved[v][j]
      BY <1>6
    <3>2. ListOnce /\ resolved[u][i] = resolved[v][j]
      BY <2>1, <3>1 DEF WaitInv
    <3> QED  BY <3>1, <3>2 DEF ListOnce
  <2> QED  BY <2>1 DEF ListOnce
<1>12. QueueOnce' /\ OwnList'
  BY <1>0, <1>5 DEF WaitInv, QueueOnce, OwnList
<1> QED  BY <1>10, <1>11, <1>12 DEF WaitInv

-----------------------------------------------------------------------------
(* The oldest entry moves from the queue to the list of the processor. *)
Takes(t) ==
    /\ queue # <<>> /\ queue' = Tail(queue)
    /\ resolved' = [resolved EXCEPT ![t] = Append(@, queue[1])]
    /\ result' = result /\ then' = then
    /\ \A u \in Tasks \ {t} : pc'[u] = pc[u]
    /\ pc[t] = "pwq" /\ pc'[t] \in {"pwq", "resolve_done"}

LEMMA TakesWait ==
    ASSUME WordInv, WaitInv, NEW t \in Tasks, Takes(t)
    PROVE  WaitInv'
<1> DEFINE n == Len(resolved[t])
           k == queue[1]
           m == Len(queue)
<1>0. /\ queue \in Seq(Tasks) /\ queue # <<>> /\ resolved \in [Tasks -> Seq(Tasks)]
      /\ resolved[t] \in Seq(Tasks)
  BY DEF WordInv, TypeOK, Takes
<1>1. /\ m \in Nat /\ m >= 1 /\ k \in Tasks /\ n \in Nat
      /\ Len(queue') = m - 1 /\ \A i \in 1..(m - 1) : queue'[i] = queue[i + 1]
  BY <1>0 DEF Takes
<1>2. /\ Len(resolved'[t]) = n + 1 /\ resolved'[t][n + 1] = k
      /\ \A i \in 1..n : resolved'[t][i] = resolved[t][i]
      /\ \A u \in Tasks \ {t} : resolved'[u] = resolved[u]
  BY <1>0, <1>1 DEF Takes
<1>3. m = Len(queue) /\ n = Len(resolved[t]) /\ k = queue[1]
  OBVIOUS
<1> HIDE DEF n, k, m
<1>4. InQueue(k) /\ ~Pending(k)
  BY <1>1, <1>3 DEF WaitInv, ReachInv, InQueue
<1>5. \A u \in Tasks : InQueue(u)' <=> InQueue(u) /\ u # k
  <2>1. ASSUME NEW u \in Tasks, InQueue(u)' PROVE InQueue(u) /\ u # k
    <3>1. PICK i \in 1..(m - 1) : queue'[i] = u
      BY <2>1, <1>1 DEF InQueue
    <3>2. i + 1 \in 1..m /\ i + 1 # 1 /\ 1 \in 1..m /\ queue[i + 1] = u
      BY <3>1, <1>1
    <3> QED  BY <3>2, <1>3 DEF InQueue, WaitInv, QueueOnce
  <2>2. ASSUME NEW u \in Tasks, InQueue(u), u # k PROVE InQueue(u)'
    <3>1. PICK i \in 1..m : queue[i] = u
      BY <2>2, <1>3 DEF InQueue
    <3>2. i - 1 \in 1..(m - 1) /\ queue'[i - 1] = u
      BY <3>1, <2>2, <1>1, <1>3
    <3> QED  BY <3>2, <1>1 DEF InQueue
  <2> QED  BY <2>1, <2>2
<1>6. \A u \in Tasks : \A i \in 1..Len(resolved[u]) :
          i \in 1..Len(resolved'[u]) /\ resolved'[u][i] = resolved[u][i]
  BY <1>1, <1>2, <1>3
<1>7. \A u \in Tasks : \A i \in 1..Len(resolved'[u]) :
          i \in 1..Len(resolved[u]) \/ (u = t /\ i = n + 1)
  BY <1>1, <1>2, <1>3
<1>8. \A u \in Tasks : Pending(u)' <=> Pending(u) \/ u = k
  <2>1. ASSUME NEW u \in Tasks, Pending(u) PROVE Pending(u)'
    BY <2>1, <1>6 DEF Pending
  <2>2. ASSUME NEW u \in Tasks, u = k PROVE Pending(u)'
    <3>1. n + 1 \in 1..Len(resolved'[t])
      BY <1>1, <1>2
    <3> QED  BY <3>1, <2>2, <1>2 DEF Pending
  <2>3. ASSUME NEW u \in Tasks, Pending(u)', u # k PROVE Pending(u)
    <3>1. PICK w \in Tasks : \E i \in 1..Len(resolved'[w]) : resolved'[w][i] = u
      BY <2>3 DEF Pending
    <3>2. PICK i \in 1..Len(resolved'[w]) : resolved'[w][i] = u
      BY <3>1
    <3>3. i \in 1..Len(resolved[w]) /\ resolved[w][i] = u
      BY <3>2, <2>3, <1>2, <1>6, <1>7
    <3> QED  BY <3>3 DEF Pending
  <2> QED  BY <2>1, <2>2, <2>3
<1>9. \A u \in Tasks : Inside(u)' <=> Inside(u)
  BY DEF Takes, Inside
<1>10. ReachInv'
  <2>1. pc[k] \in {"wait", "cancel", "remove"} /\ k # t
    BY <1>1, <1>4 DEF WaitInv, ReachInv, Takes
  <2> QED  BY <1>1, <1>4, <1>5, <1>8, <1>9, <2>1 DEF WaitInv, ReachInv, Takes
<1>11. ListOnce'
  <2>1. ASSUME NEW u \in Tasks, NEW v \in Tasks, NEW i \in 1..Len(resolved'[u]),
               NEW j \in 1..Len(resolved'[v]), resolved'[u][i] = resolved'[v][j]
        PROVE  u = v /\ i = j
    <3>1. CASE i \in 1..Len(resolved[u]) /\ j \in 1..Len(resolved[v])
      BY <3>1, <2>1, <1>6 DEF WaitInv, ListOnce
    <3>2. CASE i \in 1..Len(resolved[u]) /\ v = t /\ j = n + 1
      BY <3>2, <2>1, <1>2, <1>4, <1>6 DEF Pending
    <3>3. CASE j \in 1..Len(resolved[v]) /\ u = t /\ i = n + 1
      BY <3>3, <2>1, <1>2, <1>4, <1>6 DEF Pending
    <3> QED  BY <3>1, <3>2, <3>3, <1>7
  <2> QED  BY <2>1 DEF ListOnce
<1>12. QueueOnce'
  BY <1>1, <1>3 DEF WaitInv, QueueOnce
<1>13. OwnList'
  BY <1>2 DEF WaitInv, OwnList, Takes, Lists
<1> QED  BY <1>10, <1>11, <1>12, <1>13 DEF WaitInv

-----------------------------------------------------------------------------
(* A task takes its own entry out of the queue, and leaves. *)
Removes(t, k) ==
    /\ queue[k] = t /\ Len(queue') = Len(queue) - 1
    /\ \A i \in 1..(Len(queue) - 1) : queue'[i] = IF i < k THEN queue[i] ELSE queue[i + 1]
    /\ resolved' = resolved /\ result' = result
    /\ \A u \in Tasks \ {t} : pc'[u] = pc[u] /\ then'[u] = then[u]
    /\ pc[t] = "remove" /\ ~Inside(t)'

LEMMA RemovesWait ==
    ASSUME WordInv, WaitInv, NEW t \in Tasks, NEW k \in 1..Len(queue), Removes(t, k)
    PROVE  WaitInv'
<1> DEFINE m == Len(queue)
<1>1. m \in Nat /\ k \in 1..m
  BY DEF WordInv, TypeOK
<1>2. /\ queue[k] = t /\ Len(queue') = m - 1
      /\ \A i \in 1..(m - 1) : queue'[i] = IF i < k THEN queue[i] ELSE queue[i + 1]
  BY DEF Removes
<1>3. m = Len(queue)
  OBVIOUS
<1> HIDE DEF m
<1>4. InQueue(t) /\ ~Pending(t) /\ result[t] = NoResult
  BY <1>1, <1>2, <1>3 DEF WaitInv, ReachInv, InQueue
<1>5. \A u \in Tasks : InQueue(u)' <=> InQueue(u) /\ u # t
  <2>1. ASSUME NEW u \in Tasks, InQueue(u)' PROVE InQueue(u) /\ u # t
    <3>1. PICK i \in 1..(m - 1) : queue'[i] = u
      BY <2>1, <1>2 DEF InQueue
    <3>2. PICK j \in 1..m : queue[j] = u /\ j # k
      <4>1. CASE i < k
        BY <4>1, <3>1, <1>1, <1>2
      <4>2. CASE i >= k
        BY <4>2, <3>1, <1>1, <1>2
      <4> QED  BY <1>1, <4>1, <4>2
    <3> QED  BY <3>2, <1>1, <1>2, <1>3 DEF InQueue, WaitInv, QueueOnce
  <2>2. ASSUME NEW u \in Tasks, InQueue(u), u # t PROVE InQueue(u)'
    <3>1. PICK i \in 1..m : queue[i] = u
      BY <2>2, <1>3 DEF InQueue
    <3>2. PICK j \in 1..(m - 1) : queue'[j] = u
      <4>1. CASE i < k
        BY <4>1, <3>1, <1>1, <1>2
      <4>2. CASE i > k
        <5>1. i - 1 \in 1..(m - 1) /\ queue'[i - 1] = u
          BY <4>2, <3>1, <1>1, <1>2
        <5> QED  BY <5>1
      <4> QED  BY <1>1, <1>2, <2>2, <3>1, <4>1, <4>2
    <3> QED  BY <3>2, <1>2 DEF InQueue
  <2> QED  BY <2>1, <2>2
<1>6. \A u \in Tasks : /\ Pending(u)' <=> Pending(u)
                       /\ u # t => (Inside(u)' <=> Inside(u))
  BY DEF Removes, Pending, Inside
<1>7. ReachInv'
  BY <1>4, <1>5, <1>6 DEF WaitInv, ReachInv, Removes
<1>8. QueueOnce'
  BY <1>1, <1>2, <1>3 DEF WaitInv, QueueOnce
<1>9. ListOnce' /\ OwnList'
  BY DEF WaitInv, ListOnce, OwnList, Lists, Removes
<1> QED  BY <1>7, <1>8, <1>9 DEF WaitInv

(* The whole queue becomes the list of one task. *)
Detaches(t) ==
    /\ queue' = <<>> /\ resolved' = [resolved EXCEPT ![t] = queue]
    /\ result' = result /\ then' = then
    /\ \A u \in Tasks \ {t} : pc'[u] = pc[u]
    /\ pc[t] = "own" /\ pc'[t] = "poisoning"

LEMMA DetachesWait ==
    ASSUME WordInv, WaitInv, NEW t \in Tasks, Detaches(t)
    PROVE  WaitInv'
<1>0. resolved[t] = <<>> /\ Len(resolved[t]) = 0 /\ Len(queue') = 0
  BY DEF WaitInv, OwnList, Lists, Detaches
<1>1. resolved'[t] = queue /\ \A u \in Tasks \ {t} : resolved'[u] = resolved[u]
  BY DEF WordInv, TypeOK, Detaches
<1>2. \A u \in Tasks : ~InQueue(u)'
  BY <1>0 DEF InQueue
<1>3. \A u \in Tasks : Pending(u)' <=> Pending(u) \/ InQueue(u)
  BY <1>0, <1>1 DEF Pending, InQueue
<1>4. \A u \in Tasks : Inside(u)' <=> Inside(u)
  BY DEF Inside, Detaches
<1>5. ReachInv'
  BY <1>2, <1>3, <1>4 DEF WaitInv, ReachInv, Detaches
<1>6. ListOnce'
  <2>1. ASSUME NEW u \in Tasks, NEW v \in Tasks, NEW i \in 1..Len(resolved'[u]),
               NEW j \in 1..Len(resolved'[v]), resolved'[u][i] = resolved'[v][j]
        PROVE  u = v /\ i = j
    <3>1. CASE u # t /\ v # t
      BY <3>1, <2>1, <1>1 DEF WaitInv, ListOnce
    <3>2. CASE u = t /\ v = t
      BY <3>2, <2>1, <1>1 DEF WaitInv, QueueOnce
    <3>3. \A w \in Tasks \ {t} : \A a \in 1..Len(queue), b \in 1..Len(resolved[w]) :
             queue[a] # resolved[w][b]
      <4> SUFFICES ASSUME NEW w \in Tasks \ {t}, NEW a \in 1..Len(queue),
                          NEW b \in 1..Len(resolved[w]), queue[a] = resolved[w][b]
                   PROVE  FALSE
        OBVIOUS
      <4>0. queue \in Seq(Tasks)
        BY Shape
      <4>1. queue[a] \in Tasks
        BY <4>0
      <4> QED  BY <4>1 DEF WaitInv, ReachInv, InQueue, Pending
    <3> QED  BY <2>1, <1>1, <3>1, <3>2, <3>3
  <2> QED  BY <2>1 DEF ListOnce
<1>7. QueueOnce' /\ OwnList'
  BY <1>0, <1>1 DEF WaitInv, QueueOnce, OwnList, Lists, Detaches
<1> QED  BY <1>5, <1>6, <1>7 DEF WaitInv

-----------------------------------------------------------------------------
LEMMA ReturnMoves ==
    ASSUME TypeOK, NEW t \in Tasks, Return(t), ~Inside(t), resolved[t] = <<>>, ~InQueue(t),
           queue' = queue, result' = result
    PROVE  Moves(t)
  BY DEF TypeOK, Return, Goto, Moves, Inside

LEMMA ReleaseWait ==
    ASSUME WordInv, WaitInv, NEW t \in Tasks, Release(t)
    PROVE  WaitInv'
<1>0. /\ pc[t] = "release" /\ ~Inside(t) /\ resolved[t] = <<>> /\ ~InQueue(t)
      /\ queue' = queue /\ result' = result
  BY DEF Release, ReleaseRefused, ReleaseInPlace, ReleaseAndProcess, ReleaseRetry, word,
     Inside, WaitInv, ReachInv, OwnList, Lists
<1>1. CASE ReleaseRefused(t) \/ ReleaseInPlace(t)
  BY <1>0, <1>1, ReturnMoves, MovesWait DEF WordInv, ReleaseRefused, ReleaseInPlace
<1>2. CASE ReleaseAndProcess(t) \/ ReleaseRetry(t)
  <2>1. Moves(t)
    BY <1>0, <1>2 DEF ReleaseAndProcess, ReleaseRetry, WordInv, TypeOK, Moves, Goto, Inside
  <2> QED  BY <2>1, MovesWait
<1> QED  BY <1>1, <1>2 DEF Release

(* The reset serves the only entry. *)
LEMMA ResetTakes ==
    ASSUME WordInv, WaitInv, NEW t \in Tasks, PwqReset(t)
    PROVE  Takes(t)
<1>t. pc \in [Tasks -> Labels] /\ queue \in Seq(Tasks)
  BY DEF WordInv, TypeOK
<1>1. queue[1] = queue[Len(queue)] /\ queue # <<>>
  BY DEF PwqReset, Visited, State, Word
<1>2. Len(queue) = 1
  <2>1. Len(queue) \in Nat /\ Len(queue) # 0
    BY <1>1, <1>t
  <2>2. 1 \in 1..Len(queue) /\ Len(queue) \in 1..Len(queue)
    BY <2>1
  <2> QED  BY <1>1, <2>2 DEF WaitInv, QueueOnce
<1>3. Tail(queue) = <<>>
  <2>1. Tail(queue) \in Seq(Tasks) /\ Len(Tail(queue)) = 0
    BY <1>1, <1>2, <1>t, HeadTailProperties
  <2> DEFINE r == Tail(queue)
  <2>2. r \in Seq(Tasks) /\ Len(r) = 0
    BY <2>1
  <2> HIDE DEF r
  <2>3. r = <<>>
    BY <2>2
  <2> QED  BY <2>3 DEF r
<1> QED  BY <1>t, <1>3 DEF PwqReset, Takes, Visited, Goto

LEMMA ProcessWait ==
    ASSUME WordInv, WaitInv, NEW t \in Tasks, Process(t)
    PROVE  WaitInv'
<1>t. /\ pc \in [Tasks -> Labels] /\ then \in [Tasks -> {"idle", "complete"}]
      /\ queue \in Seq(Tasks)
  BY DEF WordInv, TypeOK
<1>i. pc[t] \in {"pwq", "pwq_add", "resolve_more", "resolve_done"} /\ ~InQueue(t)
  BY DEF Process, PwqVisit, PwqReset, PwqResetFailed, PwqUnlock, PwqUnlockFailed, PwqAdd,
     Resolve, PwqContinue, PwqReturn, WaitInv, ReachInv
<1>1. CASE PwqVisit(t)
  <2>1. Takes(t)
    BY <1>1 DEF PwqVisit, Takes, Visited
  <2> QED  BY <2>1, TakesWait
<1>2. CASE PwqReset(t)
  BY <1>2, ResetTakes, TakesWait
<1>3. CASE PwqResetFailed(t) \/ PwqUnlock(t) \/ PwqUnlockFailed(t) \/ PwqAdd(t) \/ PwqContinue(t)
  <2>1. Moves(t)
    BY <1>3, <1>t, <1>i DEF PwqResetFailed, PwqUnlock, PwqUnlockFailed, PwqAdd, PwqContinue,
       Moves, Goto, Inside, Lists, word, locals
  <2> QED  BY <2>1, MovesWait
<1>4. CASE Resolve(t)
  <2>1. SetResult(t, ACQUIRED) /\ ACQUIRED # NoResult
    BY <1>4 DEF Resolve
  <2> QED  BY <2>1, SetResultWait
<1>5. CASE PwqReturn(t)
  <2>1. CASE then[t] = "idle"
    BY <1>5, <2>1, <1>i, ReturnMoves, MovesWait DEF PwqReturn, Inside, word, WordInv
  <2>2. CASE then[t] = "complete"
    <3>1. Moves(t)
      BY <1>5, <2>2, <1>t, <1>i DEF PwqReturn, Moves, Goto, Inside, Lists, word, locals
    <3> QED  BY <3>1, MovesWait
  <2> QED  BY <1>t, <2>1, <2>2
<1> QED  BY <1>1, <1>2, <1>3, <1>4, <1>5 DEF Process

LEMMA CancelWait ==
    ASSUME WordInv, WaitInv, NEW t \in Tasks, Cancel(t) \/ Drop(t)
    PROVE  WaitInv'
<1>t. /\ pc \in [Tasks -> Labels] /\ then \in [Tasks -> {"idle", "complete"}]
      /\ queue \in Seq(Tasks) /\ result \in [Tasks -> {NoResult, ACQUIRED, POISONED}]
  BY DEF WordInv, TypeOK
<1>i. pc[t] \in {"wait", "cancel", "remove", "complete"} /\ resolved[t] = <<>>
  BY DEF Cancel, CancelEmpty, CancelLock, RemoveInner, RemoveTail, RemoveSole, RemoveRetry,
     RemoveMissing, Complete, Drop, WaitInv, OwnList, Lists
<1>1. CASE CancelEmpty(t) \/ CancelLock(t) \/ RemoveRetry(t) \/ RemoveMissing(t) \/ Drop(t)
  <2>1. Moves(t)
    <3>1. CASE CancelEmpty(t)
      <4>1. ~InQueue(t)
        BY <3>1 DEF CancelEmpty, InQueue
      <4> QED  BY <3>1, <4>1, <1>t, <1>i DEF CancelEmpty, Moves, Goto, Inside, word
    <3>2. CASE CancelLock(t) \/ RemoveRetry(t) \/ RemoveMissing(t) \/ Drop(t)
      BY <3>2, <1>t, <1>i DEF CancelLock, RemoveRetry, RemoveMissing, Drop, Moves, Goto,
         Inside, word, locals
    <3> QED  BY <1>1, <3>1, <3>2
  <2> QED  BY <2>1, MovesWait
<1>2. CASE RemoveInner(t)
  <2>1. PICK k \in 1..Len(queue) : queue[k] = t /\ queue' = Unlink(queue, k)
    BY <1>2 DEF RemoveInner
  <2>2. Removes(t, k)
    BY <1>2, <2>1, <1>t, UnlinkFacts DEF RemoveInner, Removes, Goto, Inside
  <2> QED  BY <2>2, RemovesWait
<1>3. CASE RemoveTail(t) \/ RemoveSole(t)
  <2> DEFINE k == Len(queue)
  <2>1. k \in 1..Len(queue) /\ queue[k] = t
    <3>1. t = State.tail /\ (Len(queue) > 1 \/ Len(queue) = 1)
      BY <1>3 DEF RemoveTail, RemoveSole
    <3>2. Len(queue) \in Nat
      BY <1>t
    <3>3. Len(queue) \in 1..Len(queue) /\ queue # <<>>
      BY <3>1, <3>2
    <3> QED  BY <3>1, <3>3 DEF State, Word
  <2>2. /\ Len(queue') = Len(queue) - 1
        /\ \A i \in 1..(Len(queue) - 1) : queue'[i] = IF i < k THEN queue[i] ELSE queue[i + 1]
    <3>1. CASE RemoveTail(t)
      BY <3>1, <2>1, <1>t, UnlinkFacts DEF RemoveTail
    <3>2. CASE RemoveSole(t)
      BY <3>2 DEF RemoveSole
    <3> QED  BY <1>3, <3>1, <3>2
  <2> HIDE DEF k
  <2>3. Removes(t, k)
    BY <1>3, <2>1, <2>2, <1>t DEF RemoveTail, RemoveSole, Return, Removes, Goto, Inside
  <2> QED  BY <2>1, <2>3, RemovesWait
<1>4. CASE Complete(t)
  <2>1. Consumes(t)
    BY <1>4, <1>t DEF Complete, Consumes, Goto, Inside, Lists, word
  <2> QED  BY <2>1, ConsumesWait
<1> QED  BY <1>1, <1>2, <1>3, <1>4 DEF Cancel

LEMMA SyncStepWait ==
    ASSUME WordInv, WaitInv, NEW t \in Tasks, SyncStep(t) \/ Drop(t)
    PROVE  WaitInv'
<1>1. ASSUME PushFailed(t) PROVE WaitInv'
  <2>1. Moves(t)
    BY <1>1 DEF PushFailed, Moves, Goto, Inside, WordInv, TypeOK, WaitInv, ReachInv, OwnList, Lists
  <2> QED  BY <2>1, MovesWait
<1> QED  BY <1>1, PushOkWait, ReleaseWait, ProcessWait, CancelWait DEF SyncStep

LEMMA WaitImplies == ASSUME WaitInv PROVE NoLostWaiter
  BY DEF WaitInv, ReachInv, NoLostWaiter, Inside

-----------------------------------------------------------------------------
(* Nobody who found no queue goes to wait for what it could have. *)
PushHead ==
    \A t \in Tasks : pc[t] = "push" /\ ~snap[t].locked /\ snap[t].tail = NoTask
                     => ~Admits(snap[t].data, op[t])

HeadInv == NoStuckHead /\ PushHead

(* A step leaves the word alone as far as the oldest entry is concerned,   *)
(* or that entry still has to wait.                                        *)
KeepsHead(t) ==
    /\ \A u \in Tasks \ {t} : pc'[u] = pc[u] /\ op'[u] = op[u] /\ snap'[u] = snap[u]
    /\ op'[t] = op[t] \/ ~InQueue(t) \/ queue' = <<>>
    /\ pc'[t] = "push" /\ ~snap'[t].locked /\ snap'[t].tail = NoTask
       => ~Admits(snap'[t].data, op'[t])
    /\ ~locked' /\ queue' # <<>> =>
          \/ ~locked /\ data' = data /\ queue # <<>> /\ queue'[1] = queue[1]
          \/ ~Admits(data', op'[queue'[1]])

LEMMA KeepsHeadInv ==
    ASSUME WordInv, HeadInv, NEW t \in Tasks, KeepsHead(t)
    PROVE  HeadInv'
<1>1. PushHead'
  <2> SUFFICES ASSUME NEW u \in Tasks, pc'[u] = "push", ~snap'[u].locked, snap'[u].tail = NoTask
               PROVE  ~Admits(snap'[u].data, op'[u])
    BY DEF PushHead, Admits, desired_count
  <2> QED  BY DEF HeadInv, PushHead, KeepsHead
<1>2. NoStuckHead'
  <2> SUFFICES ASSUME ~locked', queue' # <<>> PROVE ~Admits(data', op'[queue'[1]])
    BY DEF NoStuckHead, Admits, desired_count
  <2>1. CASE ~locked /\ data' = data /\ queue # <<>> /\ queue'[1] = queue[1]
    <3>1. queue[1] \in Tasks /\ InQueue(queue[1])
      BY <2>1 DEF WordInv, TypeOK, InQueue
    <3>2. op'[queue[1]] = op[queue[1]]
      BY <3>1 DEF KeepsHead
    <3> QED  BY <2>1, <3>2 DEF HeadInv, NoStuckHead
  <2> QED  BY <2>1 DEF KeepsHead
<1> QED  BY <1>1, <1>2 DEF HeadInv

LEMMA PushHeadInv ==
    ASSUME WordInv, WaitInv, HeadInv, NEW t \in Tasks, PushOk(t) \/ PushFailed(t)
    PROVE  HeadInv'
<1>t. TypeOK /\ queue \in Seq(Tasks)
  BY DEF WordInv, TypeOK
<1>1. CASE PushFailed(t)
  <2>1. KeepsHead(t)
    BY <1>1, <1>t DEF PushFailed, Goto, KeepsHead, TypeOK
  <2> QED  BY <2>1, KeepsHeadInv
<1>2. CASE PushOk(t)
  <2>0. /\ snap[t] = State /\ pc[t] = "push" /\ queue' = Append(queue, t) /\ op' = op
        /\ data' = data /\ locked' = locked /\ pc'[t] = "wait"
        /\ \A u \in Tasks \ {t} : pc'[u] = pc[u] /\ snap'[u] = snap[u]
    BY <1>2, <1>t DEF PushOk, Goto, TypeOK
  <2>1. ASSUME ~locked, queue = <<>> PROVE ~Admits(data, op[t]) /\ queue'[1] = t
    <3>1. ~snap[t].locked /\ snap[t].tail = NoTask /\ snap[t].data = data
      BY <2>0, <2>1, StateFacts
    <3> QED  BY <2>0, <2>1, <3>1 DEF HeadInv, PushHead
  <2>2. ASSUME queue # <<>> PROVE queue'[1] = queue[1]
    BY <2>0, <2>2, <1>t
  <2>3. KeepsHead(t)
    BY <2>0, <2>1, <2>2 DEF KeepsHead
  <2> QED  BY <2>3, KeepsHeadInv
<1> QED  BY <1>1, <1>2

LEMMA ReleaseHeadInv ==
    ASSUME WordInv, WaitInv, HeadInv, NEW t \in Tasks, Release(t)
    PROVE  HeadInv'
<1>t. TypeOK
  BY DEF WordInv
<1>0. pc[t] = "release" /\ ~InQueue(t)
  BY DEF Release, ReleaseRefused, ReleaseInPlace, ReleaseAndProcess, ReleaseRetry, WaitInv, ReachInv
<1>1. KeepsHead(t)
  <2>1. CASE ReleaseInPlace(t)
    <3>1. queue = <<>> \/ locked
      BY <2>1, StateFacts DEF ReleaseInPlace
    <3> QED  BY <2>1, <3>1, <1>t, <1>0 DEF ReleaseInPlace, Return, Goto, KeepsHead, TypeOK
  <2>2. CASE ReleaseRefused(t) \/ ReleaseAndProcess(t) \/ ReleaseRetry(t)
    BY <2>2, <1>t, <1>0 DEF ReleaseRefused, ReleaseAndProcess, ReleaseRetry, Return, Goto, word,
       KeepsHead, TypeOK
  <2> QED  BY <2>1, <2>2 DEF Release
<1> QED  BY <1>1, KeepsHeadInv

LEMMA ProcessHeadInv ==
    ASSUME WordInv, WaitInv, HeadInv, NEW t \in Tasks, Process(t)
    PROVE  HeadInv'
<1>t. TypeOK
  BY DEF WordInv
<1>i. /\ pc[t] \in {"pwq", "pwq_add", "resolve_more", "resolve_done"} /\ ~InQueue(t)
      /\ pc[t] # "resolve_done" => locked
  <2>1. pc[t] \in {"pwq", "pwq_add", "resolve_more", "resolve_done"} /\ ~InQueue(t)
    BY DEF Process, PwqVisit, PwqReset, PwqResetFailed, PwqUnlock, PwqUnlockFailed, PwqAdd,
       Resolve, PwqContinue, PwqReturn, WaitInv, ReachInv
  <2> QED  BY <2>1, Worker DEF Processing
<1>1. KeepsHead(t)
  <2>1. CASE PwqUnlock(t)
    <3>1. data' = Base(t) /\ ~Admits(Base(t), op[queue[1]]) /\ queue' = queue /\ op' = op
      BY <2>1 DEF PwqUnlock, Eligible, Visited, Base
    <3> QED  BY <2>1, <3>1, <1>t DEF PwqUnlock, Goto, KeepsHead, TypeOK
  <2>2. CASE PwqVisit(t) \/ PwqReset(t) \/ PwqResetFailed(t) \/ PwqUnlockFailed(t)
    BY <2>2, <1>t, <1>i DEF PwqVisit, PwqReset, PwqResetFailed, PwqUnlockFailed, Goto, word,
       locals, KeepsHead, TypeOK
  <2>3. CASE PwqAdd(t) \/ Resolve(t) \/ PwqContinue(t)
    BY <2>3, <1>t, <1>i DEF PwqAdd, Resolve, SetResult, PwqContinue, Goto, word,
       locals, KeepsHead, TypeOK
  <2>4. CASE PwqReturn(t)
    BY <2>4, <1>t, <1>i DEF PwqReturn, Return, Goto, word, locals, KeepsHead, TypeOK
  <2> QED  BY <2>1, <2>2, <2>3, <2>4 DEF Process
<1> QED  BY <1>1, KeepsHeadInv

LEMMA CancelHeadInv ==
    ASSUME WordInv, WaitInv, HeadInv, NEW t \in Tasks, Cancel(t) \/ Drop(t)
    PROVE  HeadInv'
<1>t. TypeOK
  BY DEF WordInv
<1>i. pc[t] = "remove" => locked
  BY Worker DEF Processing
<1>1. KeepsHead(t)
  <2>1. CASE CancelEmpty(t) \/ CancelLock(t) \/ Complete(t) \/ Drop(t)
    BY <2>1, <1>t DEF CancelEmpty, CancelLock, Complete, Drop, Goto, word, locals, KeepsHead, TypeOK
  <2>2. CASE RemoveInner(t) \/ RemoveTail(t) \/ RemoveRetry(t) \/ RemoveMissing(t)
    BY <2>2, <1>t, <1>i DEF RemoveInner, RemoveTail, RemoveRetry, RemoveMissing, Goto, word,
       KeepsHead, TypeOK
  <2>3. CASE RemoveSole(t)
    <3>1. op' = [op EXCEPT ![t] = Exclusive] /\ queue' = <<>> /\ pc' = [pc EXCEPT ![t] = "idle"]
          /\ snap' = [snap EXCEPT ![t] = Free]
      BY <2>3 DEF RemoveSole, Return, Goto
    <3> QED  BY <3>1, <1>t DEF TypeOK, KeepsHead
  <2> QED  BY <2>1, <2>2, <2>3 DEF Cancel
<1> QED  BY <1>1, KeepsHeadInv

LEMMA SyncStepHead ==
    ASSUME WordInv, WaitInv, HeadInv, NEW t \in Tasks, SyncStep(t) \/ Drop(t)
    PROVE  HeadInv'
  BY PushHeadInv, ReleaseHeadInv, ProcessHeadInv, CancelHeadInv DEF SyncStep

-----------------------------------------------------------------------------
(* The units that tasks have between them, and the pairs that stand for    *)
(* them.                                                                   *)
UnitsOf(h) == {u \in Tasks \X (1..DATA_MASK) : u[2] <= h[u[1]]}
Total(h)   == Cardinality(UnitsOf(h))

LEMMA UnitsFinite ==
    ASSUME NEW h
    PROVE  IsFiniteSet(UnitsOf(h)) /\ Total(h) \in Nat
<1>1. IsFiniteSet(1..DATA_MASK)
  BY FS_Interval, DataMaskAssumption
<1>2. IsFiniteSet(Tasks \X (1..DATA_MASK))
  BY <1>1, FiniteAssumption, FS_Product
<1>3. UnitsOf(h) \in SUBSET (Tasks \X (1..DATA_MASK))
  BY DEF UnitsOf
<1>4. IsFiniteSet(UnitsOf(h))
  BY <1>2, <1>3, FS_Subset
<1> QED  BY <1>4, FS_CardinalityType DEF Total

(* When two holdings differ by k units of one task, the totals differ by k. *)
LEMMA TotalAdd ==
    ASSUME NEW h \in [Tasks -> 0..DATA_MASK], NEW g \in [Tasks -> 0..DATA_MASK],
           NEW t \in Tasks, NEW k \in Nat,
           \A u \in Tasks \ {t} : g[u] = h[u], g[t] = h[t] + k
    PROVE  Total(g) = Total(h) + k
<1> DEFINE D == {t} \X ((h[t] + 1)..(h[t] + k))
<1>0. h[t] \in Nat /\ DATA_MASK \in Nat /\ h[t] + k <= DATA_MASK
  BY DataMaskAssumption
<1>1. UnitsOf(g) = UnitsOf(h) \cup D
  <2>1. ASSUME NEW u \in Tasks, NEW i \in 1..DATA_MASK
        PROVE  i <= g[u] <=> i <= h[u] \/ (u = t /\ i \in (h[t] + 1)..(h[t] + k))
    BY <1>0
  <2>2. ASSUME NEW u \in Tasks, NEW i \in (h[t] + 1)..(h[t] + k), u = t
        PROVE  i \in 1..DATA_MASK
    BY <1>0
  <2>3. ASSUME NEW x \in UnitsOf(g) PROVE x \in UnitsOf(h) \cup D
    <3>1. PICK u \in Tasks, i \in 1..DATA_MASK : x = <<u, i>> /\ i <= g[u]
      BY DEF UnitsOf
    <3> QED  BY <3>1, <2>1 DEF UnitsOf
  <2>4. ASSUME NEW x \in UnitsOf(h) PROVE x \in UnitsOf(g)
    <3>1. PICK u \in Tasks, i \in 1..DATA_MASK : x = <<u, i>> /\ i <= h[u]
      BY DEF UnitsOf
    <3> QED  BY <3>1, <2>1 DEF UnitsOf
  <2>5. ASSUME NEW x \in D PROVE x \in UnitsOf(g)
    <3>1. PICK i \in (h[t] + 1)..(h[t] + k) : x = <<t, i>>
      OBVIOUS
    <3>2. i \in 1..DATA_MASK /\ i <= g[t]
      BY <2>1, <2>2
    <3> QED  BY <3>1, <3>2 DEF UnitsOf
  <2> QED  BY <2>3, <2>4, <2>5
<1>2. UnitsOf(h) \cap D = {}
  <2> SUFFICES ASSUME NEW x \in UnitsOf(h), x \in D PROVE FALSE
    OBVIOUS
  <2>1. PICK i \in (h[t] + 1)..(h[t] + k) : x = <<t, i>>
    OBVIOUS
  <2>2. i <= h[t]
    BY <2>1 DEF UnitsOf
  <2> QED  BY <2>1, <2>2, <1>0
<1>3. IsFiniteSet(UnitsOf(h)) /\ Total(h) \in Nat
  BY UnitsFinite
<1>4. IsFiniteSet(D) /\ Cardinality(D) = k
  <2> DEFINE lo == h[t] + 1
             hi == h[t] + k
             B  == lo..hi
  <2>0. lo \in Int /\ hi \in Int
    BY <1>0
  <2>1. IsFiniteSet(B) /\ Cardinality(B) = IF lo > hi THEN 0 ELSE hi - lo + 1
    <3> HIDE DEF lo, hi
    <3> QED  BY <2>0, FS_Interval
  <2>2. Cardinality(B) = k
    BY <1>0, <2>1
  <2>3. IsFiniteSet({t}) /\ Cardinality({t}) = 1
    BY FS_Singleton
  <2> HIDE DEF B
  <2>4. IsFiniteSet({t} \X B) /\ Cardinality({t} \X B) = 1 * k
    BY <2>1, <2>2, <2>3, FS_Product
  <2> QED  BY <2>4 DEF B
<1> HIDE DEF D
<1>5. Cardinality(UnitsOf(h) \cup D) = Cardinality(UnitsOf(h)) + Cardinality(D) - Cardinality(UnitsOf(h) \cap D)
  BY <1>3, <1>4, FS_Union
<1>6. Cardinality(UnitsOf(h) \cap D) = 0
  BY <1>2, FS_EmptySet
<1>7. Total(g) = Total(h) + k - 0
  BY <1>1, <1>4, <1>5, <1>6 DEF Total
<1> QED  BY <1>3, <1>7

LEMMA TotalZero ==
    ASSUME NEW h, \A t \in Tasks : h[t] = 0
    PROVE  Total(h) = 0
<1>1. UnitsOf(h) = {}
  <2> SUFFICES ASSUME NEW x \in UnitsOf(h) PROVE FALSE
    OBVIOUS
  <2>1. PICK u \in Tasks, i \in 1..DATA_MASK : x = <<u, i>> /\ i <= h[u]
    BY DEF UnitsOf
  <2> QED  BY <2>1
<1> QED  BY <1>1, FS_EmptySet DEF Total

(* Two tasks do not have more than the total between them. *)
LEMMA TotalTwo ==
    ASSUME NEW h \in [Tasks -> 0..DATA_MASK], NEW t \in Tasks, NEW u \in Tasks, t # u
    PROVE  h[t] + h[u] <= Total(h)
<1> DEFINE z == [w \in Tasks |-> 0]
           a == [w \in Tasks |-> IF w = t THEN h[t] ELSE 0]
           b == [w \in Tasks |-> IF w \in {t, u} THEN h[w] ELSE 0]
<1>0. h[t] \in Nat /\ h[u] \in Nat /\ DATA_MASK \in Nat /\ 0 \in 0..DATA_MASK
  BY DataMaskAssumption
<1>1. /\ z \in [Tasks -> 0..DATA_MASK] /\ a \in [Tasks -> 0..DATA_MASK]
      /\ b \in [Tasks -> 0..DATA_MASK]
      /\ \A w \in Tasks : z[w] = 0
      /\ \A w \in Tasks \ {t} : a[w] = z[w]
      /\ \A w \in Tasks \ {u} : b[w] = a[w]
      /\ a[t] = z[t] + h[t] /\ b[u] = a[u] + h[u]
      /\ \A w \in Tasks : b[w] = h[w] \/ b[w] = 0
  BY <1>0
<1> HIDE DEF z, a, b
<1>2. Total(z) = 0
  BY <1>1, TotalZero
<1>x. PICK m \in Nat : m = h[t]
  BY <1>0
<1>y. PICK n \in Nat : n = h[u]
  BY <1>0
<1>3. Total(a) = Total(z) + h[t]
  <2>1. a[t] = z[t] + m
    BY <1>1, <1>x
  <2>2. Total(a) = Total(z) + m
    BY <1>1, <2>1, TotalAdd
  <2> QED  BY <2>2, <1>x
<1>4. Total(b) = Total(a) + h[u]
  <2>1. b[u] = a[u] + n
    BY <1>1, <1>y
  <2>2. Total(b) = Total(a) + n
    BY <1>1, <2>1, TotalAdd
  <2> QED  BY <2>2, <1>y
<1>5. UnitsOf(b) \in SUBSET UnitsOf(h)
  <2> SUFFICES ASSUME NEW x \in UnitsOf(b) PROVE x \in UnitsOf(h)
    OBVIOUS
  <2>1. PICK w \in Tasks, i \in 1..DATA_MASK : x = <<w, i>> /\ i <= b[w]
    BY DEF UnitsOf
  <2>2. i <= h[w]
    BY <1>0, <1>1, <2>1
  <2> QED  BY <2>1, <2>2 DEF UnitsOf
<1>6. Total(b) <= Total(h)
  BY <1>5, UnitsFinite, FS_Subset DEF Total
<1>7. Total(b) \in Nat /\ Total(h) \in Nat
  BY UnitsFinite
<1> QED  BY <1>0, <1>2, <1>3, <1>4, <1>6, <1>7

LEMMA TotalOne ==
    ASSUME NEW h \in [Tasks -> 0..DATA_MASK], NEW t \in Tasks
    PROVE  h[t] <= Total(h)
<1> DEFINE g == [h EXCEPT ![t] = 0]
<1>0. h[t] \in Nat /\ 0 \in 0..DATA_MASK
  BY DataMaskAssumption
<1>1. /\ g \in [Tasks -> 0..DATA_MASK]
      /\ \A u \in Tasks \ {t} : h[u] = g[u]
      /\ h[t] = g[t] + h[t]
  BY <1>0
<1>2. Total(g) \in Nat
  BY UnitsFinite
<1> HIDE DEF g
<1>3. Total(h) = Total(g) + h[t]
  BY <1>0, <1>1, TotalAdd
<1> QED  BY <1>0, <1>2, <1>3

-----------------------------------------------------------------------------
InList(p, t) == \E i \in 1..Len(resolved[p]) : resolved[p][i] = t

(* Rounds that have transferred and not yet added; the entries they have   *)
(* served; and the entries about to be told that they acquired.            *)
InRound(p)      == pc[p] \in {"pwq", "pwq_add"}
Open(t)         == \E p \in Tasks : InRound(p) /\ InList(p, t)
GrantPending(t) == \E p \in Tasks : pc[p] # "poisoning" /\ InList(p, t)

(* Tasks that may count on what they asked for. *)
Granted(t) == \/ pc[t] = "own"
              \/ pc[t] = "release" /\ CanRelease(t)
              \/ result[t] = ACQUIRED
              \/ GrantPending(t)

(* Dropped too late: the result has to be waited for and given back. *)
Leaving(t) == \/ pc[t] = "complete"
              \/ pc[t] = "remove" /\ ~InQueue(t)
              \/ /\ then[t] = "complete"
                 /\ pc[t] \in {"pwq", "pwq_add", "resolve_more", "resolve_done"}

(* What the word already counts of a task's units. *)
Committed == [t \in Tasks |-> IF Open(t) THEN holds[t] - acquired(t) ELSE holds[t]]

(* What the operation of a task was given.  Where units cannot all be      *)
(* shared (a lock) a task has nothing else; permits stay when a call has   *)
(* returned.                                                               *)
Own(t) == IF Granted(t) THEN acquired(t) ELSE 0
Exact  == max_shared_owners < DATA_MASK

(* A task holds what it may count on; it is refused a release only if it   *)
(* holds nothing; and who has to give something back after a late drop     *)
(* starts from a word that lets it.                                        *)
LocalInv(t) ==
    /\ Own(t) <= holds[t]
    /\ Exact => holds[t] = Own(t)
    /\ pc[t] = "release" => Granted(t) \/ holds[t] = 0
    /\ Leaving(t) /\ Granted(t) => can_release(op[t], outer[t].data)

HoldsInv ==
    /\ holds \in [Tasks -> 0..DATA_MASK]
    /\ Accounting
    /\ data = Total(Committed)
    /\ \A t \in Tasks : LocalInv(t)

(* What the primitive has to see to: the current word lets everybody       *)
(* release what the word counts.                                           *)
CanGive == \A t \in Tasks : Granted(t) /\ ~Open(t) => can_release(op[t], data)

-----------------------------------------------------------------------------
LEMMA UnitsTotal == Cardinality(Units) = Total(holds)
  BY DEF Units, Total, UnitsOf

LEMMA UnitsTotalNext == Cardinality(Units)' = Total(holds')
  BY DEF Units, Total, UnitsOf

(* Whatever a step of t adds to the units held, it adds to the word or to  *)
(* what t has transferred.                                                 *)
LEMMA AccountStep ==
    ASSUME WordInv, WordInv', Accounting, NEW t \in Tasks, NEW d \in Int,
           \A u \in Tasks \ {t} : pc'[u] = pc[u] /\ transferred'[u] = transferred[u],
           Total(holds') = Total(holds) + d,
           data' + transferred'[t] = (data + transferred[t]) + d
    PROVE  Accounting'
<1>0. Total(holds) \in Nat /\ Total(holds') \in Nat
  BY UnitsFinite
<1>t. /\ data \in Nat /\ data' \in Nat /\ transferred[t] \in Nat /\ transferred'[t] \in Nat
      /\ \A u \in Tasks : transferred[u] \in Nat
  BY DataMaskAssumption DEF WordInv, TypeOK
<1>q. /\ ~Processing(t) => transferred[t] = 0
      /\ ~Processing(t)' => transferred'[t] = 0
  BY DEF WordInv, RoundInv, Processing
<1>a. /\ \A u \in Tasks : Processing(u) => data + transferred[u] = Total(holds)
      /\ (\A u \in Tasks : ~Processing(u)) => data = Total(holds)
  BY UnitsTotal DEF Accounting
<1>o. \A u \in Tasks \ {t} : Processing(u)' <=> Processing(u)
  BY DEF Processing
<1>1. data + transferred[t] = Total(holds) \/ \E u \in Tasks \ {t} : Processing(u)
  <2>1. CASE Processing(t)
    BY <1>a, <2>1
  <2>2. CASE \A u \in Tasks : ~Processing(u)
    BY <1>a, <1>q, <1>t, <2>2
  <2> QED  BY <2>1, <2>2
<1>2. CASE \E u \in Tasks \ {t} : Processing(u)
  <2>1. PICK u \in Tasks \ {t} : Processing(u)
    BY <1>2
  <2>2. Processing(u)' /\ ~Processing(t) /\ ~Processing(t)'
    BY <2>1, <1>o DEF WordInv, OneWorker
  <2>3. data' = data + d
    BY <2>2, <1>q, <1>t
  <2>4. data' + transferred'[u] = Total(holds')
    BY <2>1, <2>3, <1>a, <1>t, <1>0
  <2>5. \A v \in Tasks : Processing(v)' => v = u
    BY <2>2 DEF WordInv, OneWorker
  <2> QED  BY <2>2, <2>4, <2>5, UnitsTotalNext DEF Accounting
<1>3. CASE ~ \E u \in Tasks \ {t} : Processing(u)
  <2>1. data' + transferred'[t] = Total(holds')
    BY <1>1, <1>3, <1>0, <1>t
  <2>2. \A v \in Tasks : Processing(v)' => v = t
    BY <1>3, <1>o
  <2>3. ~Processing(t)' => data' = Total(holds')
    BY <2>1, <1>q, <1>t
  <2> QED  BY <2>1, <2>2, <2>3, UnitsTotalNext DEF Accounting
<1> QED  BY <1>2, <1>3

LEMMA AcquiredNext ==
    ASSUME WordInv', NEW t \in Tasks
    PROVE  acquired(t)' \in 0..DATA_MASK
<1>1. op'[t] \in Opcodes
  BY DEF WordInv, TypeOK
<1> QED  BY <1>1, DataMaskAssumption DEF acquired, acquired_count, Opcodes

LEMMA OpenGranted ==
    ASSUME NEW t \in Tasks, Open(t)
    PROVE  GrantPending(t) /\ Granted(t)
  BY DEF Open, InRound, GrantPending, Granted

LEMMA CommittedFacts ==
    ASSUME WordInv, HoldsInv
    PROVE  /\ Committed \in [Tasks -> 0..DATA_MASK]
           /\ \A t \in Tasks : Committed[t] = IF Open(t) THEN holds[t] - acquired(t) ELSE holds[t]
           /\ \A t \in Tasks : Committed[t] <= data
<1>1. Committed \in [Tasks -> 0..DATA_MASK]
  <2> SUFFICES ASSUME NEW t \in Tasks
               PROVE  (IF Open(t) THEN holds[t] - acquired(t) ELSE holds[t]) \in 0..DATA_MASK
    BY DEF Committed
  <2>1. holds[t] \in 0..DATA_MASK /\ acquired(t) \in 0..DATA_MASK /\ Own(t) <= holds[t]
    BY ReleaseFacts DEF HoldsInv, LocalInv
  <2>2. Open(t) => Own(t) = acquired(t)
    BY OpenGranted DEF Own
  <2> QED  BY <2>1, <2>2, DataMaskAssumption
<1>2. \A t \in Tasks : Committed[t] <= data
  BY <1>1, TotalOne DEF HoldsInv
<1> QED  BY <1>1, <1>2 DEF Committed

LEMMA CommittedNext ==
    ASSUME WordInv', holds' \in [Tasks -> 0..DATA_MASK], \A t \in Tasks : LocalInv(t)'
    PROVE  /\ Committed' \in [Tasks -> 0..DATA_MASK]
           /\ \A t \in Tasks : Committed'[t] = IF Open(t)' THEN holds'[t] - acquired(t)' ELSE holds'[t]
<1>1. ASSUME NEW t \in Tasks
      PROVE  (IF Open(t)' THEN holds'[t] - acquired(t)' ELSE holds'[t]) \in 0..DATA_MASK
  <2>1. holds'[t] \in 0..DATA_MASK /\ acquired(t)' \in 0..DATA_MASK
    BY AcquiredNext
  <2>2. Open(t)' => Granted(t)'
    BY DEF Open, InRound, GrantPending, Granted
  <2>3. Open(t)' => acquired(t)' <= holds'[t]
    BY <2>2 DEF LocalInv, Own
  <2> QED  BY <2>1, <2>3, DataMaskAssumption
<1> QED  BY <1>1 DEF Committed

(* Nobody holds more than there is. *)
LEMMA HeldBound ==
    ASSUME WordInv, HoldsInv
    PROVE  /\ Total(holds) \in 0..DATA_MASK
           /\ \A t \in Tasks : Processing(t) => Total(holds) = data + transferred[t]
           /\ (\A t \in Tasks : ~Processing(t)) => Total(holds) = data
           /\ data <= Total(holds)
<1>1. /\ \A t \in Tasks : Processing(t) => Total(holds) = data + transferred[t]
      /\ (\A t \in Tasks : ~Processing(t)) => Total(holds) = data
  BY UnitsTotal DEF HoldsInv, Accounting
<1>2. ASSUME NEW t \in Tasks, Processing(t)
      PROVE  /\ data + transferred[t] \in 0..DATA_MASK
             /\ transferred[t] \in 0..DATA_MASK
  BY <1>2, Worker
<1>3. data \in 0..DATA_MASK
  BY Shape
<1>4. CASE \E t \in Tasks : Processing(t)
  <2>1. PICK t \in Tasks : Processing(t)
    BY <1>4
  <2>2. /\ data + transferred[t] \in 0..DATA_MASK
        /\ transferred[t] \in 0..DATA_MASK
        /\ Total(holds) = data + transferred[t]
    BY <2>1, <1>1, <1>2
  <2> QED  BY <1>1, <1>3, <2>2, DataMaskAssumption
<1>5. CASE \A t \in Tasks : ~Processing(t)
  BY <1>1, <1>3, <1>5, DataMaskAssumption
<1> QED  BY <1>1, <1>4, <1>5

(* Who is outside has nothing coming; what is in the queue is not granted; *)
(* only a processor has a list.                                            *)
LEMMA Outside ==
    ASSUME WaitInv, NEW t \in Tasks
    PROVE  /\ ~Inside(t) => /\ result[t] = NoResult /\ ~InQueue(t)
                            /\ ~Pending(t) /\ ~Open(t) /\ ~GrantPending(t)
           /\ InQueue(t) => ~Granted(t) /\ ~Pending(t)
           /\ result[t] # NoResult => ~InQueue(t) /\ ~Pending(t) /\ ~Open(t) /\ ~GrantPending(t)
           /\ pc[t] \notin Lists => resolved[t] = <<>>
<1>1. (Open(t) => GrantPending(t)) /\ (GrantPending(t) => Pending(t))
  BY DEF Open, GrantPending, Pending, InRound, InList
<1> QED  BY <1>1 DEF WaitInv, ReachInv, OwnList, Granted

-----------------------------------------------------------------------------
(* A step of t changes what t holds, and the count of the word, by d.      *)
SameOthers(t) ==
    \A u \in Tasks \ {t} : /\ pc'[u] = pc[u] /\ op'[u] = op[u] /\ snap'[u] = snap[u]
                           /\ outer'[u] = outer[u] /\ then'[u] = then[u]
                           /\ result'[u] = result[u] /\ holds'[u] = holds[u]

SameLists(t) ==
    /\ resolved' = resolved
    /\ resolved[t] # <<>> => /\ InRound(t)' <=> InRound(t)
                             /\ pc'[t] = "poisoning" <=> pc[t] = "poisoning"

SameGrants == \A u \in Tasks : /\ Open(u)' <=> Open(u)
                               /\ GrantPending(u)' <=> GrantPending(u)

Shifts(t, d) ==
    /\ SameOthers(t) /\ SameGrants
    /\ holds' \in [Tasks -> 0..DATA_MASK] /\ holds'[t] = holds[t] + d
    /\ data' = data + d /\ transferred' = transferred
    /\ Open(t) => d = 0 /\ op'[t] = op[t]
    /\ LocalInv(t)'

LEMMA ListsGrants ==
    ASSUME NEW t \in Tasks, SameOthers(t), SameLists(t)
    PROVE  SameGrants
<1>e. \A p \in Tasks : resolved[p] = <<>> => \A u \in Tasks : ~InList(p, u)
  BY DEF InList
<1>l. \A p, u \in Tasks : InList(p, u)' <=> InList(p, u)
  BY DEF InList, SameLists
<1>1. \A p, u \in Tasks : InList(p, u) => /\ InRound(p)' <=> InRound(p)
                                          /\ pc'[p] = "poisoning" <=> pc[p] = "poisoning"
  BY <1>e DEF SameOthers, SameLists, InRound
<1> QED  BY <1>1, <1>l DEF Open, GrantPending, SameGrants

(* The others keep what they count on. *)
LEMMA OthersLocal ==
    ASSUME WaitInv, NEW t \in Tasks, NEW u \in Tasks, u # t, SameOthers(t),
           GrantPending(u)' <=> GrantPending(u), LocalInv(u)
    PROVE  LocalInv(u)'
<1>1. /\ Granted(u)' <=> Granted(u)
      /\ acquired(u)' = acquired(u)
  BY DEF SameOthers, Granted, CanRelease, can_release, acquired, acquired_count
<1>2. Granted(u) => ~InQueue(u)
  BY Outside
<1>3. Leaving(u)' /\ ~InQueue(u) => Leaving(u)
  BY DEF SameOthers, Leaving
<1> QED  BY <1>1, <1>2, <1>3 DEF LocalInv, Own, Exact, SameOthers, can_release

LEMMA TotalShift ==
    ASSUME NEW h \in [Tasks -> 0..DATA_MASK], NEW g \in [Tasks -> 0..DATA_MASK],
           NEW t \in Tasks, NEW d \in Int,
           \A u \in Tasks \ {t} : g[u] = h[u], g[t] = h[t] + d
    PROVE  Total(g) = Total(h) + d
<1>0. Total(g) \in Nat /\ Total(h) \in Nat /\ h[t] \in Nat /\ g[t] \in Nat
  BY UnitsFinite
<1>1. CASE d >= 0
  BY <1>1, TotalAdd
<1>2. CASE d < 0
  <2> DEFINE e == -d
  <2>1. e \in Nat /\ h[t] = g[t] + e /\ d = -e
    BY <1>0, <1>2
  <2> HIDE DEF e
  <2>2. Total(h) = Total(g) + e
    BY <2>1, TotalAdd
  <2> QED  BY <1>0, <2>1, <2>2
<1> QED  BY <1>1, <1>2

LEMMA ShiftsHolds ==
    ASSUME WordInv, WordInv', WaitInv, HoldsInv, NEW t \in Tasks, NEW d \in Int, Shifts(t, d)
    PROVE  HoldsInv'
<1>1. /\ Committed \in [Tasks -> 0..DATA_MASK] /\ holds \in [Tasks -> 0..DATA_MASK]
      /\ \A u \in Tasks : Committed[u] = IF Open(u) THEN holds[u] - acquired(u) ELSE holds[u]
  BY CommittedFacts DEF HoldsInv
<1>l. \A u \in Tasks : LocalInv(u)'
  BY OthersLocal DEF Shifts, SameGrants, HoldsInv
<1>2. /\ Committed' \in [Tasks -> 0..DATA_MASK]
      /\ \A u \in Tasks : Committed'[u] = IF Open(u)' THEN holds'[u] - acquired(u)' ELSE holds'[u]
  BY <1>l, CommittedNext DEF Shifts
<1>3. \A u \in Tasks \ {t} : Committed'[u] = Committed[u]
  <2>1. \A u \in Tasks \ {t} : acquired(u)' = acquired(u)
    BY DEF Shifts, SameOthers, acquired, acquired_count
  <2> QED  BY <1>1, <1>2, <2>1 DEF Shifts, SameOthers, SameGrants
<1>4. Committed'[t] = Committed[t] + d
  <2>1. CASE ~Open(t)
    BY <1>1, <1>2, <2>1 DEF Shifts, SameGrants
  <2>2. CASE Open(t)
    <3>1. acquired(t)' = acquired(t) /\ d = 0
      BY <2>2 DEF Shifts, acquired, acquired_count
    <3>2. holds[t] \in Int /\ acquired(t) \in Int
      BY <1>1, ReleaseFacts
    <3> QED  BY <1>1, <1>2, <2>2, <3>1, <3>2 DEF Shifts, SameGrants
  <2> QED  BY <2>1, <2>2
<1>5. Total(Committed') = Total(Committed) + d
  <2> DEFINE h == Committed
             g == Committed'
  <2>1. /\ h \in [Tasks -> 0..DATA_MASK] /\ g \in [Tasks -> 0..DATA_MASK]
        /\ \A u \in Tasks \ {t} : g[u] = h[u]
        /\ g[t] = h[t] + d
    BY <1>1, <1>2, <1>3, <1>4
  <2> HIDE DEF h, g
  <2>2. Total(g) = Total(h) + d
    BY <2>1, TotalShift
  <2> QED  BY <2>2 DEF h, g
<1>6. data' = Total(Committed)'
  <2>1. data = Total(Committed) /\ data' = data + d
    BY DEF HoldsInv, Shifts
  <2>2. Total(Committed)' = Total(Committed')
    BY DEF Total, UnitsOf
  <2> QED  BY <1>5, <2>1, <2>2
<1>7. Accounting'
  <2>1. Total(holds') = Total(holds) + d
    BY <1>1, TotalShift DEF Shifts, SameOthers
  <2>2. data' + transferred'[t] = (data + transferred[t]) + d
    <3>1. data \in Int /\ transferred[t] \in Int
      BY Shape
    <3> QED  BY <3>1 DEF Shifts
  <2>3. \A u \in Tasks \ {t} : pc'[u] = pc[u] /\ transferred'[u] = transferred[u]
    BY DEF Shifts, SameOthers
  <2> QED  BY <2>1, <2>2, <2>3, AccountStep DEF HoldsInv
<1> QED  BY <1>6, <1>7, <1>l DEF HoldsInv, Shifts

-----------------------------------------------------------------------------
(* A round is over: what it has transferred is in the word. *)
LEMMA CommitsHolds ==
    ASSUME WordInv', Accounting', holds' \in [Tasks -> 0..DATA_MASK],
           \A u \in Tasks : ~InRound(u)', \A u \in Tasks : LocalInv(u)'
    PROVE  HoldsInv'
<1>1. Committed' = holds'
  BY DEF Committed, Open
<1>2. \A u \in Tasks : transferred'[u] = 0
  BY DEF WordInv, RoundInv, InRound
<1>3. data' = Total(holds')
  <2>1. data' \in Nat /\ Total(holds') \in Nat
    BY UnitsFinite, DataMaskAssumption DEF WordInv, TypeOK
  <2>2. \/ \E u \in Tasks : data' + transferred'[u] = Total(holds')
        \/ data' = Total(holds')
    BY UnitsTotalNext DEF Accounting
  <2> QED  BY <2>1, <2>2, <1>2
<1>4. Total(Committed)' = Total(holds')
  BY <1>1 DEF Total, UnitsOf
<1> QED  BY <1>3, <1>4 DEF HoldsInv

(* The oldest entry changes from waiting to granted. *)
Grants(t, k) ==
    /\ Takes(t) /\ k = queue[1] /\ Eligible(t)
    /\ holds' = [holds EXCEPT ![k] = @ + acquired(k)]
    /\ op' = op /\ outer' = outer
    /\ \A u \in Tasks \ {t} : snap'[u] = snap[u] /\ transferred'[u] = transferred[u]

LEMMA GrantsFacts ==
    ASSUME WordInv, WaitInv, HoldsInv, NEW t \in Tasks, NEW k \in Tasks, Grants(t, k)
    PROVE  /\ k # t /\ InQueue(k) /\ ~Granted(k)
           /\ \A p, u \in Tasks : InList(p, u)' <=> InList(p, u) \/ (p = t /\ u = k)
           /\ holds' \in [Tasks -> 0..DATA_MASK]
           /\ holds'[k] = holds[k] + acquired(k) /\ \A u \in Tasks \ {k} : holds'[u] = holds[u]
           /\ Total(holds') = Total(holds) + acquired(k)
           /\ \A u \in Tasks : LocalInv(u)'
<1>t. /\ queue \in Seq(Tasks) /\ queue # <<>> /\ resolved \in [Tasks -> Seq(Tasks)]
      /\ resolved[t] \in Seq(Tasks) /\ holds \in [Tasks -> 0..DATA_MASK]
      /\ \A u \in Tasks : LocalInv(u)
  BY DEF WordInv, TypeOK, Grants, Takes, HoldsInv
<1>a. acquired(k) \in 0..DATA_MASK
  BY ReleaseFacts
<1>1. InQueue(k) /\ k # t
  <2>1. 1 \in 1..Len(queue) /\ queue[1] = k
    BY <1>t DEF Grants
  <2>2. InQueue(k)
    BY <2>1 DEF InQueue
  <2> QED  BY <2>2 DEF WaitInv, ReachInv, Grants, Takes
<1>2. ~Granted(k) /\ (Exact => holds[k] = 0)
  BY <1>1, <1>t, Outside DEF LocalInv, Own
<1>b. holds[k] + acquired(k) <= DATA_MASK
  <2>1. pc[t] = "pwq" /\ Processing(t) /\ k = Visited(t)
    BY DEF Grants, Takes, Processing, Visited
  <2>2. Base(t) + acquired(k) <= DATA_MASK
    BY <2>1, VisitFacts DEF Grants
  <2>3. holds[k] <= data + transferred[t]
    BY <2>1, <1>t, TotalOne, HeldBound
  <2>4. data <= snap[t].data /\ snap[t].data \in 0..DATA_MASK /\ transferred[t] \in 0..DATA_MASK
    BY <2>1, Worker
  <2>5. data \in 0..DATA_MASK /\ holds[k] \in 0..DATA_MASK
    BY <1>t, Shape
  <2> QED  BY <2>2, <2>3, <2>4, <2>5, <1>a, DataMaskAssumption DEF Base
<1>3. \A p, u \in Tasks : InList(p, u)' <=> InList(p, u) \/ (p = t /\ u = k)
  <2> DEFINE n == Len(resolved[t])
  <2>1. /\ n \in Nat /\ Len(resolved'[t]) = n + 1 /\ resolved'[t][n + 1] = k
        /\ \A i \in 1..n : resolved'[t][i] = resolved[t][i]
        /\ \A u \in Tasks \ {t} : resolved'[u] = resolved[u]
    BY <1>t DEF Grants, Takes
  <2>2. n = Len(resolved[t])
    OBVIOUS
  <2> HIDE DEF n
  <2>3. ASSUME NEW u \in Tasks PROVE InList(t, u)' <=> InList(t, u) \/ u = k
    <3>1. 1..(n + 1) = 1..n \cup {n + 1}
      BY <2>1
    <3>2. InList(t, u) <=> \E i \in 1..n : resolved[t][i] = u
      BY <2>2 DEF InList
    <3>3. InList(t, u)' <=> \E i \in 1..(n + 1) : resolved'[t][i] = u
      BY <2>1 DEF InList
    <3>4. (\E i \in 1..(n + 1) : resolved'[t][i] = u)
          <=> (\E i \in 1..n : resolved'[t][i] = u) \/ resolved'[t][n + 1] = u
      BY <3>1, Zenon
    <3> QED  BY <2>1, <3>2, <3>3, <3>4
  <2>4. \A p \in Tasks \ {t}, u \in Tasks : InList(p, u)' <=> InList(p, u)
    BY <2>1 DEF InList
  <2> QED  BY <2>3, <2>4
<1>4. /\ holds' \in [Tasks -> 0..DATA_MASK]
      /\ holds'[k] = holds[k] + acquired(k) /\ \A u \in Tasks \ {k} : holds'[u] = holds[u]
  <2>1. holds[k] + acquired(k) \in 0..DATA_MASK
    BY <1>a, <1>b, <1>t, DataMaskAssumption
  <2> QED  BY <2>1, <1>t DEF Grants
<1>5. Total(holds') = Total(holds) + acquired(k)
  <2>1. acquired(k) \in Int /\ holds'[k] = holds[k] + acquired(k)
    BY <1>4, <1>a
  <2>2. PICK n \in Int : n = acquired(k)
    BY <2>1
  <2>3. holds \in [Tasks -> 0..DATA_MASK] /\ holds'[k] = holds[k] + n
    BY <2>1, <2>2, <1>t
  <2>4. Total(holds') = Total(holds) + n
    BY <2>3, <1>4, TotalShift
  <2> QED  BY <2>2, <2>4
<1>6. \A u \in Tasks : GrantPending(u)' <=> GrantPending(u) \/ u = k
  <2>1. \A p \in Tasks : /\ pc'[p] = "poisoning" <=> pc[p] = "poisoning"
                         /\ pc[t] # "poisoning"
    BY DEF Grants, Takes
  <2> QED  BY <1>3, <2>1 DEF GrantPending
<1>7. \A u \in Tasks : Granted(u)' <=> Granted(u) \/ u = k
  <2>1. ASSUME NEW u \in Tasks
        PROVE  /\ pc'[u] = "own" <=> pc[u] = "own"
               /\ pc'[u] = "release" /\ CanRelease(u)' <=> pc[u] = "release" /\ CanRelease(u)
               /\ result'[u] = result[u]
    BY DEF Grants, Takes, CanRelease, can_release
  <2> QED  BY <1>6, <2>1 DEF Granted
<1>8. \A u \in Tasks : acquired(u)' = acquired(u)
  BY DEF Grants, acquired, acquired_count
<1>9. ~Leaving(k)'
  <2>1. pc[k] \in {"wait", "cancel", "remove"} /\ pc'[k] = pc[k]
    BY <1>1 DEF WaitInv, ReachInv, Grants, Takes
  <2>2. pc[k] # "remove"
    BY <1>1 DEF WordInv, OneWorker, Processing, Grants, Takes
  <2> QED  BY <2>1, <2>2 DEF Leaving
<1>10. ASSUME NEW u \in Tasks, u # k, Leaving(u)', Granted(u) PROVE Leaving(u)
  <2>1. ~InQueue(u)
    BY <1>10, Outside
  <2> QED  BY <1>10, <2>1 DEF Leaving, Grants, Takes
<1>11. ASSUME NEW u \in Tasks PROVE LocalInv(u)'
  <2>1. Own(u)' <= holds'[u] /\ (Exact => holds'[u] = Own(u)')
    <3>1. CASE u = k
      <4>1. Own(u)' = acquired(k) /\ holds[k] \in 0..DATA_MASK
        BY <3>1, <1>t, <1>7, <1>8 DEF Own
      <4> QED  BY <4>1, <3>1, <1>2, <1>4, <1>a
    <3>2. CASE u # k
      <4>1. Own(u)' = Own(u)
        BY <3>2, <1>7, <1>8 DEF Own
      <4> QED  BY <4>1, <3>2, <1>t, <1>4 DEF LocalInv, Exact
    <3> QED  BY <3>1, <3>2
  <2>2. Leaving(u)' /\ Granted(u)' => can_release(op'[u], outer'[u].data)
    BY <1>t, <1>7, <1>9, <1>10 DEF LocalInv, Grants
  <2>3. pc'[u] = "release" => Granted(u)' \/ holds'[u] = 0
    BY <1>t, <1>4, <1>7 DEF LocalInv, Grants, Takes
  <2> QED  BY <2>1, <2>2, <2>3 DEF LocalInv, Own, Exact, can_release
<1> QED  BY <1>1, <1>2, <1>3, <1>4, <1>5, <1>11

LEMMA PwqVisitHolds ==
    ASSUME WordInv, WordInv', WaitInv, HoldsInv, NEW t \in Tasks, PwqVisit(t)
    PROVE  HoldsInv'
<1>0. PICK k \in Tasks : k = Visited(t)
  BY VisitFacts DEF PwqVisit
<1>t. transferred \in [Tasks -> 0..DATA_MASK] /\ data \in 0..DATA_MASK /\ pc \in [Tasks -> Labels]
  BY Shape
<1>a. acquired(k) \in 0..DATA_MASK
  BY ReleaseFacts
<1>1. Grants(t, k)
  BY <1>0, <1>t DEF PwqVisit, Grants, Takes, Visited
<1>2. /\ k # t /\ InQueue(k) /\ ~Granted(k)
      /\ \A p, u \in Tasks : InList(p, u)' <=> InList(p, u) \/ (p = t /\ u = k)
      /\ holds' \in [Tasks -> 0..DATA_MASK]
      /\ holds'[k] = holds[k] + acquired(k) /\ \A u \in Tasks \ {k} : holds'[u] = holds[u]
      /\ Total(holds') = Total(holds) + acquired(k)
      /\ \A u \in Tasks : LocalInv(u)'
  BY <1>1, GrantsFacts
<1>3. Accounting'
  <2>1. data' + transferred'[t] = (data + transferred[t]) + acquired(k)
    BY <1>0, <1>t, <1>a DEF PwqVisit
  <2>2. \A u \in Tasks \ {t} : pc'[u] = pc[u] /\ transferred'[u] = transferred[u]
    BY <1>t DEF PwqVisit
  <2> QED  BY <2>1, <2>2, <1>a, <1>2, AccountStep DEF HoldsInv
<1>4. Committed' = Committed
  <2>1. \A u \in Tasks : Open(u)' <=> Open(u) \/ u = k
    BY <1>2 DEF Open, InRound, PwqVisit
  <2>2. \A u \in Tasks : acquired(u)' = acquired(u)
    BY DEF PwqVisit, acquired, acquired_count
  <2>3. ~Open(k) /\ holds[k] \in Int
    BY <1>2, OpenGranted DEF HoldsInv
  <2>4. holds'[k] - acquired(k) = holds[k]
    BY <2>3, <1>2, <1>a
  <2>5. ASSUME NEW u \in Tasks
        PROVE  (IF Open(u)' THEN holds'[u] - acquired(u)' ELSE holds'[u])
               = (IF Open(u) THEN holds[u] - acquired(u) ELSE holds[u])
    BY <1>2, <2>1, <2>2, <2>3, <2>4
  <2> QED  BY <2>5 DEF Committed
<1>5. data' = Total(Committed)'
  <2>1. data' = data /\ data = Total(Committed)
    BY DEF PwqVisit, HoldsInv
  <2>2. Total(Committed)' = Total(Committed)
    BY <1>4 DEF Total, UnitsOf
  <2> QED  BY <2>1, <2>2
<1> QED  BY <1>2, <1>3, <1>5 DEF HoldsInv

(* No other round is open. *)
LEMMA RoundOver ==
    ASSUME WordInv, NEW t \in Tasks, Processing(t),
           \A u \in Tasks \ {t} : pc'[u] = pc[u], pc'[t] \notin {"pwq", "pwq_add"}
    PROVE  \A u \in Tasks : ~InRound(u)'
  BY DEF WordInv, OneWorker, Processing, InRound

LEMMA PwqResetHolds ==
    ASSUME WordInv, WordInv', WaitInv, HoldsInv, NEW t \in Tasks, PwqReset(t)
    PROVE  HoldsInv'
<1>0. PICK k \in Tasks : k = Visited(t)
  BY VisitFacts DEF PwqReset
<1>t. transferred \in [Tasks -> 0..DATA_MASK] /\ data \in 0..DATA_MASK /\ pc \in [Tasks -> Labels]
      /\ snap \in [Tasks -> Words]
  BY Shape
<1>a. acquired(k) \in 0..DATA_MASK
  BY ReleaseFacts
<1>1. Grants(t, k)
  BY <1>0, <1>t, ResetTakes DEF PwqReset, Grants, Visited, Eligible
<1>2. /\ holds' \in [Tasks -> 0..DATA_MASK]
      /\ Total(holds') = Total(holds) + acquired(k)
      /\ \A u \in Tasks : LocalInv(u)'
  BY <1>1, GrantsFacts
<1>3. /\ \A u \in Tasks \ {t} : pc'[u] = pc[u] /\ transferred'[u] = transferred[u]
      /\ pc'[t] = "resolve_done" /\ transferred'[t] = 0 /\ Processing(t)
      /\ data' = (snap[t].data + transferred[t]) + acquired(k) /\ snap[t] = State
  BY <1>0, <1>t DEF PwqReset, Goto, Processing, Base
<1>4. Accounting'
  <2>1. data' + transferred'[t] = (data + transferred[t]) + acquired(k)
    BY <1>3, <1>t, <1>a, StateFacts
  <2> QED  BY <2>1, <1>3, <1>a, <1>2, AccountStep DEF HoldsInv
<1>5. \A u \in Tasks : ~InRound(u)'
  BY <1>3, RoundOver
<1> QED  BY <1>2, <1>4, <1>5, CommitsHolds

(* What was transferred is added; nobody is granted anything. *)
LEMMA AddsHolds ==
    ASSUME WordInv, WordInv', WaitInv, HoldsInv, NEW t \in Tasks, PwqUnlock(t) \/ PwqAdd(t)
    PROVE  HoldsInv'
<1>t. transferred \in [Tasks -> 0..DATA_MASK] /\ data \in 0..DATA_MASK /\ pc \in [Tasks -> Labels]
      /\ snap \in [Tasks -> Words]
  BY Shape
<1>1. /\ \A u \in Tasks \ {t} : pc'[u] = pc[u] /\ transferred'[u] = transferred[u] /\ snap'[u] = snap[u]
      /\ pc[t] \in {"pwq", "pwq_add"} /\ pc'[t] \in {"resolve_more", "resolve_done"}
      /\ transferred'[t] = 0 /\ Processing(t) /\ data' = data + transferred[t]
      /\ op' = op /\ outer' = outer /\ then' = then /\ resolved' = resolved /\ result' = result
      /\ holds' = holds /\ queue' = queue
  BY <1>t DEF PwqUnlock, PwqAdd, Goto, Processing
<1>2. Accounting'
  <2>1. /\ data' + transferred'[t] = (data + transferred[t]) + 0
        /\ Total(holds') = Total(holds) + 0
    BY <1>1, <1>t, UnitsFinite
  <2> QED  BY <2>1, <1>1, AccountStep DEF HoldsInv
<1>3. ASSUME NEW u \in Tasks PROVE LocalInv(u)'
  <2>1. GrantPending(u)' <=> GrantPending(u)
    <3>1. \A p \in Tasks : InList(p, u)' <=> InList(p, u)
      BY <1>1 DEF InList
    <3> QED  BY <3>1, <1>1 DEF GrantPending
  <2>2. Granted(u)' <=> Granted(u)
    <3>1. CASE u = t
      BY <3>1, <2>1, <1>1 DEF Granted
    <3>2. CASE u # t
      BY <3>2, <2>1, <1>1 DEF Granted, CanRelease, can_release
    <3> QED  BY <3>1, <3>2
  <2>3. Leaving(u)' <=> Leaving(u)
    <3>1. InQueue(u)' <=> InQueue(u)
      BY <1>1 DEF InQueue
    <3> QED  BY <3>1, <1>1 DEF Leaving
  <2>4. acquired(u)' = acquired(u) /\ LocalInv(u)
    BY <1>1 DEF acquired, acquired_count, HoldsInv
  <2> QED  BY <2>2, <2>3, <2>4, <1>1 DEF LocalInv, Own, Exact, can_release
<1>4. \A u \in Tasks : ~InRound(u)'
  BY <1>1, RoundOver
<1> QED  BY <1>1, <1>2, <1>3, <1>4, CommitsHolds DEF HoldsInv

-----------------------------------------------------------------------------
(* The newest entry of a list gets its result. *)
LEMMA SetResultHolds ==
    ASSUME WordInv, WordInv', WaitInv, HoldsInv, NEW t \in Tasks, NEW value, SetResult(t, value),
           \/ pc[t] \in {"resolve_more", "resolve_done"} /\ value = ACQUIRED
           \/ pc[t] = "poisoning" /\ value = POISONED
    PROVE  HoldsInv'
<1>0. /\ resolved[t] \in Seq(Tasks) /\ resolved[t] # <<>> /\ resolved \in [Tasks -> Seq(Tasks)]
      /\ result \in [Tasks -> {NoResult, ACQUIRED, POISONED}]
      /\ queue' = queue /\ pc' = pc /\ op' = op /\ snap' = snap /\ outer' = outer /\ then' = then
      /\ transferred' = transferred /\ holds' = holds /\ data' = data /\ data \in Int
      /\ transferred[t] \in Int
  <2>1. /\ resolved \in [Tasks -> Seq(Tasks)] /\ result \in [Tasks -> {NoResult, ACQUIRED, POISONED}]
        /\ data \in Int /\ transferred[t] \in Int
    BY Shape DEF WordInv, TypeOK
  <2> QED  BY <2>1 DEF SetResult, word
<1>n. PICK n \in Nat : n = Len(resolved[t])
  BY <1>0
<1>k. PICK k \in Tasks : k = resolved[t][n]
  BY <1>0, <1>n
<1>1. /\ n >= 1 /\ result' = [result EXCEPT ![k] = value]
      /\ Len(resolved'[t]) = n - 1 /\ \A i \in 1..(n - 1) : resolved'[t][i] = resolved[t][i]
      /\ \A u \in Tasks \ {t} : resolved'[u] = resolved[u]
  BY <1>0, <1>n, <1>k, FrontFacts DEF SetResult
<1>2. n = Len(resolved[t]) /\ k = resolved[t][n] /\ n \in 1..n
  BY <1>1, <1>n, <1>k
<1>3. InList(t, k) /\ \A p \in Tasks \ {t} : ~InList(p, k)
  <2>1. InList(t, k)
    BY <1>2 DEF InList
  <2> QED  BY <1>1, <1>2, <2>1 DEF InList, WaitInv, ListOnce
<1>4. ~InList(t, k)'
  <2> SUFFICES ASSUME InList(t, k)' PROVE FALSE
    OBVIOUS
  <2>1. PICK i \in 1..(n - 1) : resolved'[t][i] = k
    BY <1>1 DEF InList
  <2>2. i \in 1..n /\ i # n /\ resolved[t][i] = resolved[t][n]
    BY <2>1, <1>1, <1>2
  <2> QED  BY <2>2, <1>2 DEF WaitInv, ListOnce
<1>5. \A p, u \in Tasks : u # k => (InList(p, u)' <=> InList(p, u))
  <2>1. ASSUME NEW u \in Tasks, u # k, InList(t, u) PROVE InList(t, u)'
    <3>1. PICK i \in 1..n : resolved[t][i] = u
      BY <2>1, <1>2 DEF InList
    <3>2. i \in 1..(n - 1)
      BY <3>1, <2>1, <1>1, <1>2
    <3> QED  BY <3>1, <3>2, <1>1 DEF InList
  <2>2. ASSUME NEW u \in Tasks, InList(t, u)' PROVE InList(t, u)
    <3>1. PICK i \in 1..(n - 1) : resolved'[t][i] = u
      BY <2>2, <1>1 DEF InList
    <3>2. i \in 1..n /\ resolved[t][i] = u
      BY <3>1, <1>1
    <3> QED  BY <3>2, <1>2 DEF InList
  <2>3. ASSUME NEW p \in Tasks, p # t, NEW u \in Tasks PROVE InList(p, u)' <=> InList(p, u)
    BY <2>3, <1>1 DEF InList
  <2> QED  BY <2>1, <2>2, <2>3
<1>6. /\ \A u \in Tasks : u # k => (GrantPending(u)' <=> GrantPending(u))
      /\ ~GrantPending(k)' /\ (GrantPending(k) <=> pc[t] # "poisoning")
      /\ \A u \in Tasks : Open(u)' <=> Open(u)
  <2>1. \A p \in Tasks : InList(p, k)' => FALSE
    <3>1. \A p \in Tasks \ {t} : InList(p, k)' <=> InList(p, k)
      BY <1>1 DEF InList
    <3> QED  BY <1>3, <1>4, <3>1
  <2>2. \A u \in Tasks : u # k => /\ GrantPending(u)' <=> GrantPending(u)
                                  /\ Open(u)' <=> Open(u)
    BY <1>0, <1>5 DEF GrantPending, Open, InRound
  <2>3. ~GrantPending(k)' /\ ~Open(k)'
    BY <1>1, <2>1 DEF GrantPending, Open
  <2>4. ~Open(k) /\ (GrantPending(k) <=> pc[t] # "poisoning")
    BY <1>1, <1>3 DEF GrantPending, Open, InRound
  <2> QED  BY <2>2, <2>3, <2>4
<1>7. \A u \in Tasks : Granted(u)' <=> Granted(u)
  <2>1. result[k] = NoResult /\ result'[k] = value
    <3>1. Pending(k)
      BY <1>1, <1>3 DEF InList, Pending
    <3> QED  BY <1>0, <1>1, <3>1 DEF WaitInv, ReachInv
  <2>2. \A u \in Tasks : CanRelease(u)' <=> CanRelease(u)
    BY <1>0 DEF CanRelease, can_release
  <2>3. \A u \in Tasks : u # k => result'[u] = result[u]
    BY <1>0, <1>1
  <2>4. ASSUME NEW u \in Tasks, u # k PROVE Granted(u)' <=> Granted(u)
    BY <2>2, <2>3, <2>4, <1>0, <1>6 DEF Granted
  <2>5. Granted(k)' <=> Granted(k)
    BY <2>1, <2>2, <1>0, <1>1, <1>6 DEF Granted
  <2> QED  BY <2>4, <2>5
<1>8. ASSUME NEW u \in Tasks PROVE LocalInv(u)'
  <2>1. /\ Leaving(u)' <=> Leaving(u)
        /\ acquired(u)' = acquired(u)
        /\ LocalInv(u)
    BY <1>0 DEF Leaving, InQueue, acquired, acquired_count, HoldsInv
  <2> QED  BY <2>1, <1>0, <1>7 DEF LocalInv, Own, Exact, can_release
<1>9. Committed' = Committed
  <2>1. \A u \in Tasks : acquired(u)' = acquired(u)
    BY <1>0 DEF acquired, acquired_count
  <2> QED  BY <1>0, <1>6, <2>1 DEF Committed
<1>10. data' = Total(Committed)'
  <2>1. data = Total(Committed) /\ Total(Committed)' = Total(Committed)
    BY <1>9 DEF HoldsInv, Total, UnitsOf
  <2> QED  BY <1>0, <2>1
<1>11. Accounting'
  <2>1. /\ Total(holds') = Total(holds) + 0
        /\ data' + transferred'[t] = (data + transferred[t]) + 0
    BY <1>0, UnitsFinite
  <2> QED  BY <2>1, <1>0, AccountStep DEF HoldsInv
<1> QED  BY <1>0, <1>8, <1>10, <1>11 DEF HoldsInv

-----------------------------------------------------------------------------
(* A step that gives and takes nothing: what it has to keep of the task's  *)
(* own part.                                                               *)
Neutral(t) ==
    /\ SameOthers(t) /\ SameLists(t)
    /\ holds' = holds /\ data' = data /\ transferred' = transferred
    /\ Open(t) => op'[t] = op[t]
    /\ LocalInv(t)'

LEMMA NeutralHolds ==
    ASSUME WordInv, WordInv', WaitInv, HoldsInv, NEW t \in Tasks, Neutral(t)
    PROVE  HoldsInv'
<1>1. data \in Int /\ holds \in [Tasks -> 0..DATA_MASK] /\ holds[t] \in Int
  BY Shape DEF HoldsInv
<1>2. SameGrants
  BY ListsGrants DEF Neutral
<1>3. Shifts(t, 0)
  BY <1>1, <1>2 DEF Neutral, Shifts
<1> QED  BY <1>3, ShiftsHolds

(* The task counts on what it counted on. *)
KeepsLocal(t) ==
    /\ holds' = holds /\ op'[t] = op[t]
    /\ Granted(t)' <=> Granted(t)
    /\ pc'[t] = "release" => Granted(t)' \/ pc[t] = "release"
    /\ Leaving(t)' /\ Granted(t)' =>
          \/ Leaving(t) /\ outer'[t] = outer[t]
          \/ can_release(op[t], outer'[t].data)

LEMMA KeepsLocalInv ==
    ASSUME HoldsInv, NEW t \in Tasks, KeepsLocal(t)
    PROVE  LocalInv(t)'
<1>1. LocalInv(t) /\ acquired(t)' = acquired(t)
  BY DEF HoldsInv, KeepsLocal, acquired, acquired_count
<1> QED  BY <1>1 DEF KeepsLocal, LocalInv, Own, Exact, can_release

(* The task has nothing and is given nothing. *)
LEMMA EmptyLocal ==
    ASSUME HoldsInv, NEW t \in Tasks, ~Granted(t), ~Granted(t)', holds'[t] = holds[t],
           pc'[t] = "release" => Exact \/ holds[t] = 0
    PROVE  LocalInv(t)'
  BY DEF HoldsInv, LocalInv, Own, Exact

-----------------------------------------------------------------------------
LEMMA PushHolds ==
    ASSUME WordInv, WordInv', WaitInv, HoldsInv, NEW t \in Tasks, PushOk(t) \/ PushFailed(t)
    PROVE  HoldsInv'
<1>t. TypeOK
  BY DEF WordInv
<1>0. /\ pc[t] = "push" /\ pc'[t] \in {"wait", "try"} /\ result' = result /\ resolved' = resolved
      /\ holds' = holds /\ data' = data /\ transferred' = transferred
  BY <1>t DEF PushOk, PushFailed, Goto, TypeOK
<1>1. ~Inside(t) /\ pc[t] \notin Lists
  BY <1>0 DEF Inside, Lists
<1>2. /\ result[t] = NoResult /\ ~GrantPending(t) /\ ~Open(t) /\ resolved[t] = <<>>
  BY <1>1, Outside
<1>3. SameOthers(t) /\ SameLists(t)
  BY <1>t, <1>0, <1>2 DEF PushOk, PushFailed, Goto, TypeOK, SameOthers, SameLists
<1>4. ~GrantPending(t)'
  BY <1>2, <1>3, ListsGrants DEF SameGrants
<1>5. LocalInv(t)'
  BY <1>0, <1>2, <1>4, EmptyLocal DEF Granted
<1> QED  BY <1>0, <1>2, <1>3, <1>5, NeutralHolds DEF Neutral

(* Somebody outside who holds something gives it back. *)
GivesBack(t) ==
    /\ pc[t] \in {"own", "release"} /\ Granted(t)
    /\ pc'[t] \in {"idle", "pwq"}
    /\ data' = data - acquired(t)
    /\ holds' = [holds EXCEPT ![t] = @ - acquired(t)]
    /\ SameOthers(t) /\ resolved' = resolved /\ result' = result /\ transferred' = transferred

LEMMA GivesBackHolds ==
    ASSUME WordInv, WordInv', WaitInv, HoldsInv, NEW t \in Tasks, GivesBack(t)
    PROVE  HoldsInv'
<1>a. /\ acquired(t) \in 0..DATA_MASK /\ holds \in [Tasks -> 0..DATA_MASK] /\ data \in 0..DATA_MASK
      /\ acquired(t) <= holds[t] /\ (Exact => holds[t] = acquired(t))
  BY ReleaseFacts, Shape DEF HoldsInv, LocalInv, Own, GivesBack
<1>1. ~Inside(t) /\ pc[t] \notin Lists
  BY DEF GivesBack, Inside, Lists
<1>2. /\ result[t] = NoResult /\ ~GrantPending(t) /\ ~Open(t) /\ resolved[t] = <<>>
  BY <1>1, Outside
<1>3. SameOthers(t) /\ SameLists(t)
  BY <1>2 DEF GivesBack, SameLists
<1>4. SameGrants
  BY <1>3, ListsGrants
<1>5. /\ holds' \in [Tasks -> 0..DATA_MASK] /\ 0 <= holds'[t] /\ (Exact => holds'[t] = 0)
      /\ holds'[t] = holds[t] + (0 - acquired(t))
      /\ data' = data + (0 - acquired(t)) /\ 0 - acquired(t) \in Int
  <2>1. /\ holds[t] - acquired(t) \in 0..DATA_MASK /\ holds[t] - acquired(t) = holds[t] + (0 - acquired(t))
        /\ Exact => holds[t] - acquired(t) = 0
    BY <1>a, DataMaskAssumption
  <2>2. holds' = [holds EXCEPT ![t] = holds[t] - acquired(t)]
    BY DEF GivesBack
  <2>3. holds' \in [Tasks -> 0..DATA_MASK] /\ holds'[t] = holds[t] - acquired(t)
    BY <2>1, <2>2, <1>a
  <2> QED  BY <2>1, <2>3, <1>a, DataMaskAssumption DEF GivesBack
<1>6. LocalInv(t)'
  <2>1. ~Granted(t)'
    BY <1>2, <1>4 DEF Granted, GivesBack, SameGrants
  <2>2. pc'[t] # "release"
    BY DEF GivesBack
  <2> QED  BY <2>1, <2>2, <1>5 DEF LocalInv, Own, Exact
<1> DEFINE d == 0 - acquired(t)
<1>7. d \in Int /\ Shifts(t, d)
  BY <1>2, <1>3, <1>4, <1>5, <1>6 DEF Shifts, GivesBack
<1> HIDE DEF d
<1> QED  BY <1>7, ShiftsHolds

LEMMA ReleaseHolds ==
    ASSUME WordInv, WordInv', WaitInv, HoldsInv, CanGive, NEW t \in Tasks, Release(t)
    PROVE  HoldsInv'
<1>t. TypeOK
  BY DEF WordInv
<1>0. pc[t] = "release" /\ result' = result /\ resolved' = resolved /\ transferred' = transferred
  BY DEF Release, ReleaseRefused, ReleaseInPlace, ReleaseAndProcess, ReleaseRetry, Return, word
<1>1. ~Inside(t) /\ pc[t] \notin Lists
  BY <1>0 DEF Inside, Lists
<1>2. /\ result[t] = NoResult /\ ~GrantPending(t) /\ ~Open(t) /\ resolved[t] = <<>>
  BY <1>1, Outside
<1>3. CASE ReleaseRefused(t)
  <2>1. SameOthers(t) /\ SameLists(t) /\ pc'[t] = "idle" /\ holds' = holds /\ data' = data
    BY <1>3, <1>t, <1>0, <1>2 DEF ReleaseRefused, Return, Goto, word, TypeOK, SameOthers, SameLists
  <2>2. ~GrantPending(t)'
    BY <1>2, <2>1, ListsGrants DEF SameGrants
  <2>3. ~Granted(t) /\ ~Granted(t)'
    BY <1>0, <1>2, <1>3, <2>1, <2>2 DEF Granted, ReleaseRefused
  <2> QED  BY <1>0, <1>2, <2>1, <2>3, EmptyLocal, NeutralHolds DEF Neutral
<1>4. CASE ReleaseInPlace(t) \/ ReleaseAndProcess(t)
  <2>1. SameOthers(t) /\ pc'[t] \in {"idle", "pwq"}
    BY <1>4, <1>t, <1>0 DEF ReleaseInPlace, ReleaseAndProcess, Return, Goto, TypeOK, SameOthers, HoldsInv
  <2>2. Granted(t)
    BY <1>4 DEF ReleaseInPlace, ReleaseAndProcess, Granted
  <2>3. GivesBack(t)
    BY <1>4, <1>0, <2>1, <2>2 DEF GivesBack, ReleaseInPlace, ReleaseAndProcess
  <2> QED  BY <2>3, GivesBackHolds
<1>5. CASE ReleaseRetry(t)
  <2>1. /\ SameOthers(t) /\ SameLists(t) /\ pc' = pc /\ op' = op /\ holds' = holds /\ data' = data
        /\ snap'[t] = State
    BY <1>5, <1>t, <1>0 DEF ReleaseRetry, word, TypeOK, SameOthers, SameLists, InRound
  <2>2. Granted(t)
    BY <1>5 DEF ReleaseRetry, Granted
  <2>3. can_release(op[t], State.data)
    BY <2>2, <1>2, StateFacts DEF CanGive
  <2>4. Granted(t)'
    BY <2>1, <2>3, <1>0 DEF Granted, CanRelease, can_release
  <2>5. ~Leaving(t)'
    BY <2>1, <1>0 DEF Leaving
  <2>6. KeepsLocal(t)
    BY <2>1, <2>2, <2>4, <2>5 DEF KeepsLocal
  <2> QED  BY <1>0, <2>1, <2>6, KeepsLocalInv, NeutralHolds DEF Neutral
<1> QED  BY <1>3, <1>4, <1>5 DEF Release

(* A task that has nothing takes a step that gives it nothing. *)
Passes(t) ==
    /\ pc[t] \notin {"own", "release"}
    /\ pc'[t] \notin {"own", "release"} \/ (pc'[t] = "release" /\ ~CanRelease(t)')
    /\ result[t] # ACQUIRED /\ result'[t] # ACQUIRED /\ ~GrantPending(t) /\ ~Open(t)
    /\ resolved[t] = <<>>
    /\ SameOthers(t) /\ resolved' = resolved /\ transferred' = transferred
    /\ holds' = holds /\ data' = data
    /\ pc'[t] = "release" => Exact \/ holds[t] = 0

LEMMA PassesHolds ==
    ASSUME WordInv, WordInv', WaitInv, HoldsInv, NEW t \in Tasks, Passes(t)
    PROVE  HoldsInv'
<1>1. SameOthers(t) /\ SameLists(t)
  BY DEF Passes, SameLists
<1>2. ~GrantPending(t)'
  BY <1>1, ListsGrants DEF SameGrants, Passes
<1>3. ~Granted(t) /\ ~Granted(t)'
  BY <1>2 DEF Passes, Granted
<1>4. LocalInv(t)'
  BY <1>3, EmptyLocal DEF Passes
<1> QED  BY <1>1, <1>4, NeutralHolds DEF Passes, Neutral

(* What Return leaves of the others. *)
LEMMA ReturnOthers ==
    ASSUME TypeOK, NEW t \in Tasks, Return(t), \A u \in Tasks \ {t} : result'[u] = result[u],
           \A u \in Tasks \ {t} : holds'[u] = holds[u]
    PROVE  SameOthers(t) /\ pc'[t] = "idle" /\ resolved' = resolved /\ transferred' = transferred
  BY DEF Return, Goto, TypeOK, SameOthers

-----------------------------------------------------------------------------
(* Nobody completes a late drop with the news that the primitive is        *)
(* poisoned, unless it asked for nothing and has nothing.                  *)
NoPoisonedDrop ==
    \A t \in Tasks : pc[t] = "complete" /\ result[t] = POISONED => Exact /\ acquired(t) = 0

LEMMA ProcessHolds ==
    ASSUME WordInv, WordInv', WaitInv, HoldsInv, NEW t \in Tasks, Process(t)
    PROVE  HoldsInv'
<1>t. TypeOK
  BY DEF WordInv
<1>1. CASE PwqVisit(t) \/ PwqReset(t) \/ PwqUnlock(t) \/ PwqAdd(t)
  BY <1>1, PwqVisitHolds, PwqResetHolds, AddsHolds
<1>2. CASE Resolve(t)
  BY <1>2, SetResultHolds DEF Resolve
<1>3. CASE PwqResetFailed(t) \/ PwqUnlockFailed(t) \/ PwqContinue(t)
           \/ (PwqReturn(t) /\ then[t] # "idle")
  <2>1. /\ pc[t] \in {"pwq", "resolve_more", "resolve_done"}
        /\ pc'[t] \in {"pwq", "pwq_add", "complete"} /\ (pc'[t] = "complete" => then[t] = "complete")
        /\ op' = op /\ snap' = snap /\ outer' = outer /\ then' = then /\ transferred' = transferred
        /\ resolved' = resolved /\ result' = result /\ holds' = holds /\ data' = data /\ queue' = queue
        /\ \A u \in Tasks \ {t} : pc'[u] = pc[u]
        /\ resolved[t] # <<>> => pc[t] = "pwq" /\ pc'[t] = "pwq_add"
    BY <1>3, <1>t DEF PwqResetFailed, PwqUnlockFailed, PwqContinue, PwqReturn, Goto, word, locals, TypeOK
  <2>2. SameOthers(t) /\ SameLists(t)
    BY <2>1 DEF SameOthers, SameLists, InRound
  <2>3. GrantPending(t)' <=> GrantPending(t)
    BY <2>2, ListsGrants DEF SameGrants
  <2>4. Granted(t)' <=> Granted(t)
    BY <2>1, <2>3 DEF Granted
  <2>5. Leaving(t)' => Leaving(t)
    BY <2>1 DEF Leaving
  <2>6. KeepsLocal(t)
    BY <2>1, <2>4, <2>5 DEF KeepsLocal
  <2> QED  BY <2>1, <2>2, <2>6, KeepsLocalInv, NeutralHolds DEF Neutral
<1>4. CASE PwqReturn(t) /\ then[t] = "idle"
  <2>1. pc[t] = "resolve_done" /\ resolved[t] = <<>> /\ Return(t) /\ UNCHANGED <<word, result, holds>>
    BY <1>4 DEF PwqReturn
  <2>2. ~Inside(t)
    BY <2>1, <1>4 DEF Inside
  <2>3. result[t] = NoResult /\ ~GrantPending(t) /\ ~Open(t)
    BY <2>2, Outside
  <2>4. SameOthers(t) /\ SameLists(t) /\ pc'[t] = "idle" /\ transferred' = transferred /\ data' = data
    BY <2>1, <1>t DEF Return, Goto, word, TypeOK, SameOthers, SameLists
  <2>5. ~GrantPending(t)'
    BY <2>3, <2>4, ListsGrants DEF SameGrants
  <2>6. ~Granted(t) /\ ~Granted(t)'
    BY <2>1, <2>3, <2>4, <2>5 DEF Granted
  <2> QED  BY <2>1, <2>3, <2>4, <2>6, EmptyLocal, NeutralHolds DEF Neutral
<1> QED  BY <1>1, <1>2, <1>3, <1>4 DEF Process

(* Dropping and looking for the own entry. *)
LEMMA SeekHolds ==
    ASSUME WordInv, WordInv', WaitInv, HoldsInv, CanGive, NEW t \in Tasks,
           Drop(t) \/ CancelEmpty(t) \/ CancelLock(t) \/ RemoveRetry(t) \/ RemoveMissing(t)
    PROVE  HoldsInv'
<1>t. TypeOK
  BY DEF WordInv
<1>1. /\ pc[t] \in {"wait", "cancel", "remove"}
      /\ pc'[t] \in {"cancel", "complete", "remove", "pwq"}
      /\ op' = op /\ transferred' = transferred
      /\ resolved' = resolved /\ result' = result /\ holds' = holds /\ data' = data /\ queue' = queue
      /\ SameOthers(t)
  BY <1>t DEF Drop, CancelEmpty, CancelLock, RemoveRetry, RemoveMissing, Goto, word, locals, TypeOK,
     SameOthers
<1>2. resolved[t] = <<>>
  BY <1>1, Outside DEF Lists
<1>3. SameLists(t)
  BY <1>1, <1>2 DEF SameLists
<1>4. GrantPending(t)' <=> GrantPending(t)
  BY <1>1, <1>3, ListsGrants DEF SameGrants
<1>5. Granted(t)' <=> Granted(t)
  BY <1>1, <1>4 DEF Granted
<1>6. KeepsLocal(t)
  <2>1. CASE Drop(t)
    <3>1. ~Leaving(t)'
      BY <2>1, <1>t DEF Drop, Goto, Leaving, TypeOK
    <3> QED  BY <3>1, <1>1, <1>5 DEF KeepsLocal
  <2>2. CASE CancelEmpty(t) \/ CancelLock(t)
    <3>1. ~locked /\ outer'[t] = State
      BY <2>2, <1>t DEF CancelEmpty, CancelLock, TypeOK
    <3>2. ~Open(t)
      <4>1. \A p \in Tasks : ~Processing(p)
        BY <3>1, Worker
      <4> QED  BY <4>1 DEF Open, InRound, Processing
    <3>3. Granted(t) => can_release(op[t], outer'[t].data)
      BY <3>1, <3>2, StateFacts DEF CanGive
    <3> QED  BY <3>3, <1>1, <1>5 DEF KeepsLocal
  <2>3. CASE RemoveRetry(t) \/ RemoveMissing(t)
    <3>1. outer' = outer /\ (Leaving(t)' => Leaving(t))
      BY <2>3, <1>1 DEF RemoveRetry, RemoveMissing, Leaving, InQueue
    <3> QED  BY <3>1, <1>1, <1>5 DEF KeepsLocal
  <2> QED  BY <2>1, <2>2, <2>3
<1> QED  BY <1>1, <1>3, <1>6, KeepsLocalInv, NeutralHolds DEF Neutral

(* Whoever finds its entry in the queue leaves with nothing. *)
LEMMA RemoveHolds ==
    ASSUME WordInv, WordInv', WaitInv, HoldsInv, NEW t \in Tasks,
           RemoveInner(t) \/ RemoveTail(t) \/ RemoveSole(t)
    PROVE  HoldsInv'
<1>t. TypeOK
  BY DEF WordInv
<1>1. /\ pc[t] = "remove" /\ pc'[t] \in {"pwq", "idle"} /\ transferred' = transferred
      /\ resolved' = resolved /\ result' = result /\ holds' = holds /\ data' = data
      /\ SameOthers(t)
  BY <1>t DEF RemoveInner, RemoveTail, RemoveSole, Return, Goto, TypeOK, SameOthers
<1>2. InQueue(t)
  <2>1. CASE RemoveInner(t)
    BY <2>1 DEF RemoveInner, InQueue
  <2>2. CASE RemoveTail(t) \/ RemoveSole(t)
    <3>1. t = State.tail /\ t # NoTask
      BY <2>2, TasksAssumption DEF RemoveTail, RemoveSole
    <3> QED  BY <3>1, StateFacts DEF InQueue
  <2> QED  BY <2>1, <2>2
<1>3. ~Granted(t) /\ ~Open(t) /\ resolved[t] = <<>>
  BY <1>1, <1>2, Outside, OpenGranted DEF Lists
<1>4. SameLists(t)
  BY <1>1, <1>3 DEF SameLists
<1>5. GrantPending(t)' <=> GrantPending(t)
  BY <1>1, <1>4, ListsGrants DEF SameGrants
<1>6. ~Granted(t)'
  BY <1>1, <1>3, <1>5 DEF Granted
<1> QED  BY <1>1, <1>3, <1>4, <1>6, EmptyLocal, NeutralHolds DEF Neutral

LEMMA CompleteHolds ==
    ASSUME WordInv, WordInv', WaitInv, HoldsInv, NoPoisonedDrop, NEW t \in Tasks, Complete(t)
    PROVE  HoldsInv'
<1>t. TypeOK
  BY DEF WordInv
<1>1. /\ pc[t] = "complete" /\ pc'[t] = "release" /\ result[t] # NoResult /\ result'[t] = NoResult
      /\ snap'[t] = outer[t] /\ op' = op /\ transferred' = transferred
      /\ resolved' = resolved /\ holds' = holds /\ data' = data
      /\ SameOthers(t)
  BY <1>t DEF Complete, Goto, word, TypeOK, SameOthers
<1>2. resolved[t] = <<>> /\ ~GrantPending(t) /\ ~Open(t)
  BY <1>1, Outside DEF Lists
<1>3. SameLists(t)
  BY <1>1, <1>2 DEF SameLists
<1>4. ~GrantPending(t)'
  BY <1>1, <1>2, <1>3, ListsGrants DEF SameGrants
<1>5. Granted(t)' <=> can_release(op[t], outer[t].data)
  BY <1>1, <1>4 DEF Granted, CanRelease, can_release
<1>6. ~Leaving(t)'
  BY <1>1 DEF Leaving
<1>7. LocalInv(t) /\ acquired(t)' = acquired(t)
  BY <1>1 DEF HoldsInv, acquired, acquired_count
<1>8. LocalInv(t)'
  <2>1. CASE result[t] = ACQUIRED
    <3>1. Granted(t) /\ Leaving(t)
      BY <1>1, <2>1 DEF Granted, Leaving
    <3>2. Granted(t)' /\ acquired(t) <= holds[t] /\ (Exact => holds[t] = acquired(t))
      BY <3>1, <1>5, <1>7 DEF LocalInv, Own
    <3> QED  BY <3>2, <1>1, <1>6, <1>7 DEF LocalInv, Own, Exact
  <2>2. CASE result[t] = POISONED
    <3>1. ~Granted(t)
      BY <1>1, <1>2, <2>2 DEF Granted
    <3>2. acquired(t) = 0 /\ holds[t] = 0
      BY <3>1, <1>1, <1>7, <2>2 DEF LocalInv, Own, NoPoisonedDrop
    <3> QED  BY <3>2, <1>1, <1>6, <1>7 DEF LocalInv, Own, Exact
  <2> QED  BY <1>1, <1>t, <2>1, <2>2 DEF TypeOK
<1> QED  BY <1>1, <1>3, <1>8, NeutralHolds DEF Neutral

LEMMA SyncStepHolds ==
    ASSUME WordInv, WordInv', WaitInv, HoldsInv, CanGive, NoPoisonedDrop,
           NEW t \in Tasks, SyncStep(t) \/ Drop(t)
    PROVE  HoldsInv'
<1>1. CASE Cancel(t) \/ Drop(t)
  BY <1>1, SeekHolds, RemoveHolds, CompleteHolds DEF Cancel
<1> QED  BY <1>1, PushHolds, ReleaseHolds, ProcessHolds DEF SyncStep

LEMMA StutterHolds ==
    ASSUME HoldsInv, UNCHANGED vars
    PROVE  HoldsInv'
<1>1. /\ data' = data /\ holds' = holds /\ pc' = pc /\ transferred' = transferred
      /\ resolved' = resolved /\ result' = result /\ snap' = snap /\ op' = op /\ then' = then
      /\ queue' = queue /\ outer' = outer
  BY DEF vars
<1>2. Accounting'
  BY <1>1 DEF HoldsInv, Accounting, Units, Processing
<1>3. Total(Committed)' = Total(Committed)
  BY <1>1 DEF Total, UnitsOf, Committed, Open, InList, InRound, acquired, acquired_count
<1>4. \A t \in Tasks : LocalInv(t)'
  <2>1. \A t \in Tasks : /\ Granted(t)' <=> Granted(t)
                         /\ Leaving(t)' <=> Leaving(t)
                         /\ acquired(t)' = acquired(t)
    BY <1>1 DEF Granted, Leaving, GrantPending, InList, InQueue, CanRelease, can_release,
       acquired, acquired_count
  <2> QED  BY <1>1, <2>1 DEF HoldsInv, LocalInv, Own, Exact, can_release
<1> QED  BY <1>1, <1>2, <1>3, <1>4 DEF HoldsInv

(* What follows for the properties. *)
LEMMA HoldsImply ==
    ASSUME WordInv, WaitInv, HoldsInv
    PROVE  Accounting /\ GrantsReal /\ ReleaseNeverRefused
<1>1. Accounting
  BY DEF HoldsInv
<1>2. GrantsReal
  <2> SUFFICES ASSUME NEW t \in Tasks, pc[t] = "own" \/ result[t] = ACQUIRED
               PROVE  holds[t] >= acquired(t)
    BY DEF GrantsReal
  <2>1. Granted(t) /\ LocalInv(t)
    BY DEF Granted, HoldsInv
  <2>2. holds[t] \in 0..DATA_MASK /\ acquired(t) \in 0..DATA_MASK /\ acquired(t) <= holds[t]
    BY <2>1, ReleaseFacts DEF LocalInv, Own, HoldsInv
  <2> QED  BY <2>2
<1>3. ReleaseNeverRefused
  <2> SUFFICES ASSUME NEW t \in Tasks, pc[t] = "release", acquired(t) > 0, holds[t] >= acquired(t)
               PROVE  CanRelease(t)
    BY DEF ReleaseNeverRefused
  <2>1. Granted(t)
    <3>1. acquired(t) \in 0..DATA_MASK
      BY ReleaseFacts
    <3> QED  BY <3>1 DEF HoldsInv, LocalInv
  <2>2. ~Inside(t)
    BY DEF Inside
  <2>3. result[t] = NoResult /\ ~GrantPending(t)
    BY <2>2, Outside
  <2> QED  BY <2>1, <2>3 DEF Granted
<1> QED  BY <1>1, <1>2, <1>3

-----------------------------------------------------------------------------
(* The queue q, seen as requests of a fair allocator, when o are the       *)
(* opcodes.                                                                *)
Asks(t, o) == [task |-> t, desired |-> desired_count(o[t]), acquired |-> acquired_count(o[t])]
RequestsOf(q, o) == [i \in 1..Len(q) |-> Asks(q[i], o)]
RequestSet == [task : Tasks, desired : 0..DATA_MASK, acquired : 0..DATA_MASK]

LEMMA RequestsAre == Requests = RequestsOf(queue, op)
  BY DEF Requests, RequestsOf, Asks, acquired

LEMMA RequestsNext == Requests' = RequestsOf(queue', op')
  BY DEF Requests, RequestsOf, Asks, acquired, acquired_count, desired_count

LEMMA AsksFacts ==
    ASSUME NEW o \in [Tasks -> Opcodes], NEW t \in Tasks
    PROVE  Asks(t, o) \in RequestSet
<1>1. desired_count(o[t]) \in 0..DATA_MASK /\ acquired_count(o[t]) \in 0..DATA_MASK
  BY CountFacts
<1> QED  BY <1>1 DEF Asks, RequestSet

LEMMA RequestsFacts ==
    ASSUME NEW q \in Seq(Tasks), NEW o \in [Tasks -> Opcodes]
    PROVE  /\ RequestsOf(q, o) \in Seq(RequestSet) /\ Len(RequestsOf(q, o)) = Len(q)
           /\ \A i \in 1..Len(q) : RequestsOf(q, o)[i] = Asks(q[i], o)
           /\ RequestsOf(q, o) = <<>> <=> q = <<>>
<1>1. \A i \in 1..Len(q) : Asks(q[i], o) \in RequestSet
  BY AsksFacts
<1>2. Len(q) \in Nat
  OBVIOUS
<1>3. /\ RequestsOf(q, o) \in Seq(RequestSet) /\ Len(RequestsOf(q, o)) = Len(q)
      /\ \A i \in 1..Len(q) : RequestsOf(q, o)[i] = Asks(q[i], o)
  BY <1>1, <1>2 DEF RequestsOf
<1>4. RequestsOf(q, o) = <<>> <=> q = <<>>
  <2> DEFINE r == RequestsOf(q, o)
  <2>1. r \in Seq(RequestSet) /\ Len(r) = Len(q)
    BY <1>3
  <2> HIDE DEF r
  <2>2. r = <<>> <=> q = <<>>
    BY <2>1
  <2> QED  BY <2>2 DEF r
<1> QED  BY <1>3, <1>4

(* What the changes of the queue mean for the requests, as long as nobody  *)
(* who is in it changes what it asks for.                                  *)
SameAsked(q, o, p) == \A i \in 1..Len(q) : p[q[i]] = o[q[i]]

LEMMA AskedSame ==
    ASSUME NEW q \in Seq(Tasks), NEW o, NEW p, SameAsked(q, o, p)
    PROVE  /\ RequestsOf(q, p) = RequestsOf(q, o)
           /\ \A i \in 1..Len(q) : Asks(q[i], p) = Asks(q[i], o)
  BY DEF SameAsked, RequestsOf, Asks

LEMMA RequestsTail ==
    ASSUME NEW q \in Seq(Tasks), q # <<>>, NEW o \in [Tasks -> Opcodes]
    PROVE  RequestsOf(Tail(q), o) = Tail(RequestsOf(q, o))
<1> DEFINE r == RequestsOf(q, o)
           s == RequestsOf(Tail(q), o)
<1>1. r \in Seq(RequestSet) /\ r # <<>> /\ Len(r) = Len(q) /\ \A i \in 1..Len(q) : r[i] = Asks(q[i], o)
  BY RequestsFacts
<1>2. /\ Tail(q) \in Seq(Tasks) /\ Len(Tail(q)) = Len(q) - 1
      /\ \A i \in 1..Len(Tail(q)) : Tail(q)[i] = q[i + 1]
  BY HeadTailProperties
<1>3. /\ s \in Seq(RequestSet) /\ Len(s) = Len(Tail(q))
      /\ \A i \in 1..Len(Tail(q)) : s[i] = Asks(Tail(q)[i], o)
  BY <1>2, RequestsFacts
<1> HIDE DEF r, s
<1>4. /\ Tail(r) \in Seq(RequestSet) /\ Len(Tail(r)) = Len(r) - 1
      /\ \A i \in 1..Len(Tail(r)) : Tail(r)[i] = r[i + 1]
  BY <1>1, HeadTailProperties
<1>5. \A i \in 1..Len(s) : s[i] = Tail(r)[i]
  <2> SUFFICES ASSUME NEW i \in 1..Len(s) PROVE s[i] = Tail(r)[i]
    OBVIOUS
  <2>0. Len(q) \in Nat /\ i \in 1..(Len(q) - 1)
    BY <1>2, <1>3
  <2>1. i \in 1..Len(Tail(q)) /\ i \in 1..Len(Tail(r)) /\ i + 1 \in 1..Len(q)
    BY <2>0, <1>1, <1>2, <1>4
  <2>2. s[i] = Asks(q[i + 1], o)
    BY <2>1, <1>2, <1>3
  <2>3. Tail(r)[i] = Asks(q[i + 1], o)
    BY <2>1, <1>1, <1>4
  <2> QED  BY <2>2, <2>3
<1>6. s = Tail(r)
  BY <1>1, <1>2, <1>3, <1>4, <1>5, SeqEqual
<1> QED  BY <1>6 DEF r, s

LEMMA RequestsAppend ==
    ASSUME NEW q \in Seq(Tasks), NEW t \in Tasks, NEW o \in [Tasks -> Opcodes]
    PROVE  RequestsOf(Append(q, t), o) = Append(RequestsOf(q, o), Asks(t, o))
<1> DEFINE r == RequestsOf(q, o)
           s == RequestsOf(Append(q, t), o)
           e == Asks(t, o)
<1>0. e \in RequestSet
  BY AsksFacts
<1>1. r \in Seq(RequestSet) /\ Len(r) = Len(q) /\ \A i \in 1..Len(q) : r[i] = Asks(q[i], o)
  BY RequestsFacts
<1>2. /\ Append(q, t) \in Seq(Tasks) /\ Len(Append(q, t)) = Len(q) + 1
      /\ \A i \in 1..Len(q) : Append(q, t)[i] = q[i]
      /\ Append(q, t)[Len(q) + 1] = t
  BY AppendProperties
<1>3. /\ s \in Seq(RequestSet) /\ Len(s) = Len(Append(q, t))
      /\ \A i \in 1..Len(Append(q, t)) : s[i] = Asks(Append(q, t)[i], o)
  BY <1>2, RequestsFacts
<1>e. e = Asks(t, o)
  OBVIOUS
<1> HIDE DEF r, s, e
<1>4. /\ Append(r, e) \in Seq(RequestSet) /\ Len(Append(r, e)) = Len(r) + 1
      /\ \A i \in 1..Len(r) : Append(r, e)[i] = r[i]
      /\ Append(r, e)[Len(r) + 1] = e
  BY <1>0, <1>1, AppendProperties
<1>5. \A i \in 1..Len(s) : s[i] = Append(r, e)[i]
  <2> SUFFICES ASSUME NEW i \in 1..Len(s) PROVE s[i] = Append(r, e)[i]
    OBVIOUS
  <2>0. Len(q) \in Nat /\ i \in 1..(Len(q) + 1) /\ i \in 1..Len(Append(q, t))
    BY <1>2, <1>3
  <2>1. CASE i \in 1..Len(q)
    BY <2>0, <2>1, <1>1, <1>2, <1>3, <1>4
  <2>2. CASE i = Len(q) + 1
    BY <2>0, <2>2, <1>1, <1>2, <1>3, <1>4, <1>e
  <2>3. PICK n \in Nat : n = Len(q)
    BY <2>0
  <2>4. i \in 1..n \/ i = n + 1
    BY <2>0, <2>3
  <2> QED  BY <2>1, <2>2, <2>3, <2>4
<1>6. s = Append(r, e)
  <2>1. PICK v : v = Append(r, e)
    OBVIOUS
  <2>2. v \in Seq(RequestSet) /\ Len(s) = Len(v) /\ \A i \in 1..Len(s) : s[i] = v[i]
    BY <2>1, <1>1, <1>2, <1>3, <1>4, <1>5
  <2>3. s = v
    BY <2>2, <1>3, SeqEqual
  <2> QED  BY <2>1, <2>3
<1> QED  BY <1>6 DEF r, s, e

LEMMA RequestsUnlink ==
    ASSUME NEW q \in Seq(Tasks), NEW k \in 1..Len(q), NEW o \in [Tasks -> Opcodes]
    PROVE  LET r == RequestsOf(q, o)
           IN  RequestsOf(Unlink(q, k), o)
                 = [i \in 1..(Len(r) - 1) |-> IF i < k THEN r[i] ELSE r[i + 1]]
<1> DEFINE r == RequestsOf(q, o)
<1>1. r \in Seq(RequestSet) /\ Len(r) = Len(q) /\ \A i \in 1..Len(q) : r[i] = Asks(q[i], o)
  BY RequestsFacts
<1>2. /\ Len(Unlink(q, k)) = Len(q) - 1 /\ Len(q) \in Nat
      /\ \A i \in 1..(Len(q) - 1) : Unlink(q, k)[i] = IF i < k THEN q[i] ELSE q[i + 1]
  BY UnlinkFacts
<1>3. \A i \in 1..(Len(q) - 1) :
          Asks(Unlink(q, k)[i], o) = IF i < k THEN r[i] ELSE r[i + 1]
  <2> HIDE DEF r
  <2> SUFFICES ASSUME NEW i \in 1..(Len(q) - 1)
               PROVE  Asks(Unlink(q, k)[i], o) = IF i < k THEN r[i] ELSE r[i + 1]
    OBVIOUS
  <2>1. i \in 1..Len(q) /\ i + 1 \in 1..Len(q)
    BY <1>2
  <2>2. r[i] = Asks(q[i], o) /\ r[i + 1] = Asks(q[i + 1], o)
    BY <2>1, <1>1
  <2>3. CASE i < k
    BY <2>2, <2>3, <1>2
  <2>4. CASE ~(i < k)
    BY <2>2, <2>4, <1>2
  <2> QED  BY <2>3, <2>4
<1>4. RequestsOf(Unlink(q, k), o) = [i \in 1..(Len(q) - 1) |-> Asks(Unlink(q, k)[i], o)]
  BY <1>2 DEF RequestsOf
<1>5. RequestsOf(Unlink(q, k), o) = [i \in 1..(Len(q) - 1) |-> IF i < k THEN r[i] ELSE r[i + 1]]
  <2> HIDE DEF r
  <2> QED  BY <1>3, <1>4
<1> QED  BY <1>1, <1>5
-----------------------------------------------------------------------------
(* A step of the allocator, or one it does not notice. *)
FairStep == [Fair!Next]_(Fair!vars)

LEMMA FairTaken == Fair!Taken = Total(holds)
<1>1. \A S : Fair!Cardinality(S) = Cardinality(S)
  BY DEF Fair!Cardinality, Cardinality
<1> QED  BY <1>1 DEF Fair!Taken, Total, UnitsOf

(* Who is in the queue keeps its opcode. *)
KeepsAsked == \A u \in Tasks : InQueue(u) => op'[u] = op[u]

LEMMA KeptRequests ==
    ASSUME WordInv, KeepsAsked
    PROVE  /\ RequestsOf(queue, op') = Requests
           /\ \A i \in 1..Len(queue) : queue[i] \in Tasks /\ op'[queue[i]] = op[queue[i]]
<1>1. queue \in Seq(Tasks)
  BY Shape
<1>2. \A i \in 1..Len(queue) : queue[i] \in Tasks /\ op'[queue[i]] = op[queue[i]]
  BY <1>1 DEF KeepsAsked, InQueue
<1>3. SameAsked(queue, op, op')
  BY <1>2 DEF SameAsked
<1> QED  BY <1>1, <1>2, <1>3, AskedSame, RequestsAre

LEMMA SameRequests ==
    ASSUME WordInv, KeepsAsked, queue' = queue
    PROVE  Requests' = Requests
  BY KeptRequests, RequestsNext

LEMMA FairUnseen ==
    ASSUME WordInv, KeepsAsked, queue' = queue, holds' = holds
    PROVE  FairStep
<1>1. Requests' = Requests
  BY SameRequests
<1> QED  BY <1>1 DEF FairStep, Fair!vars

LEMMA FairRequest ==
    ASSUME WordInv, KeepsAsked, NEW t \in Tasks, op' \in [Tasks -> Opcodes],
           queue' = Append(queue, t), holds' = holds
    PROVE  FairStep
<1>1. queue \in Seq(Tasks)
  BY Shape
<1>2. Requests' = Append(Requests, Asks(t, op'))
  BY <1>1, KeptRequests, RequestsNext, RequestsAppend
<1>3. Asks(t, op') \in [task : {t}, desired : 0..DATA_MASK, acquired : 0..DATA_MASK]
  <2>1. desired_count(op'[t]) \in 0..DATA_MASK /\ acquired_count(op'[t]) \in 0..DATA_MASK
    BY CountFacts
  <2> QED  BY <2>1 DEF Asks
<1>4. Fair!Request(t)
  BY <1>2, <1>3 DEF Fair!Request
<1> QED  BY <1>4 DEF FairStep, Fair!Next

LEMMA FairRelease ==
    ASSUME WordInv, HoldsInv, KeepsAsked, queue' = queue, NEW t \in Tasks, NEW n \in 0..DATA_MASK,
           n <= holds[t], holds' = [holds EXCEPT ![t] = holds[t] - n]
    PROVE  FairStep
<1>0. holds \in [Tasks -> 0..DATA_MASK] /\ holds[t] \in Nat
  BY DataMaskAssumption DEF HoldsInv
<1>1. Requests' = Requests
  BY SameRequests
<1>2. CASE n = 0
  <2>1. holds[t] - n = holds[t]
    BY <1>0, <1>2
  <2>2. holds' = holds
    BY <1>0, <2>1
  <2> QED  BY <2>2, <1>1 DEF FairStep, Fair!vars
<1>3. CASE n # 0
  <2>1. n \in 1..DATA_MASK /\ holds[t] - n = holds[t] + (-n)
    BY <1>0, <1>3, DataMaskAssumption
  <2>2. Fair!Release(t, n)
    BY <2>1, <1>1 DEF Fair!Release, Fair!Give
  <2> QED  BY <2>1, <2>2 DEF FairStep, Fair!Next
<1> QED  BY <1>2, <1>3

(* Taken at once: nobody waits and it fits. *)
LEMMA FairAcquire ==
    ASSUME WordInv, HoldsInv, KeepsAsked, queue' = queue, NEW t \in Tasks, NEW n \in 0..DATA_MASK,
           n # 0 => queue = <<>> /\ (Total(holds) = 0 \/ Total(holds) + n <= max_shared_owners),
           holds' = [holds EXCEPT ![t] = holds[t] + n]
    PROVE  FairStep
<1>0. holds \in [Tasks -> 0..DATA_MASK] /\ holds[t] \in Nat
  BY DataMaskAssumption DEF HoldsInv
<1>1. Requests' = Requests
  BY SameRequests
<1>2. CASE n = 0
  <2>1. holds[t] + n = holds[t]
    BY <1>0, <1>2
  <2>2. holds' = holds
    BY <1>0, <2>1
  <2> QED  BY <2>2, <1>1 DEF FairStep, Fair!vars
<1>3. CASE n # 0
  <2>1. n \in 1..DATA_MASK
    BY <1>3, DataMaskAssumption
  <2>2. Requests = <<>>
    <3>1. queue \in Seq(Tasks) /\ op \in [Tasks -> Opcodes]
      BY DEF WordInv, TypeOK
    <3> QED  BY <1>3, <3>1, RequestsAre, RequestsFacts
  <2>3. Fair!Fits(n)
    BY <1>3, FairTaken DEF Fair!Fits
  <2>4. Fair!Acquire(t, n)
    BY <2>2, <2>3, <1>1 DEF Fair!Acquire, Fair!Give
  <2> QED  BY <2>1, <2>4 DEF FairStep, Fair!Next
<1> QED  BY <1>2, <1>3

(* The oldest entry is served, judged by a count that may be too high. *)
LEMMA FairGrant ==
    ASSUME WordInv, HoldsInv, NEW t \in Tasks, Processing(t), queue # <<>>, Eligible(t),
           op' = op, queue' = Tail(queue),
           holds' = [holds EXCEPT ![queue[1]] = @ + acquired(queue[1])]
    PROVE  FairStep
<1>0. /\ queue \in Seq(Tasks) /\ op \in [Tasks -> Opcodes] /\ snap \in [Tasks -> Words]
      /\ transferred \in [Tasks -> 0..DATA_MASK] /\ data \in 0..DATA_MASK
  BY DEF WordInv, TypeOK
<1>k. PICK k \in Tasks : k = queue[1] /\ 1 \in 1..Len(queue)
  BY <1>0
<1>1. Requests # <<>> /\ Requests[1] = Asks(k, op) /\ Requests' = Tail(Requests)
  <2>1. Requests' = RequestsOf(Tail(queue), op)
    BY RequestsNext
  <2> QED  BY <1>0, <1>k, <2>1, RequestsAre, RequestsFacts, RequestsTail
<1>2. /\ Requests[1].desired = desired_count(op[k]) /\ Requests[1].acquired = acquired(k)
      /\ Requests[1].task = k
  BY <1>1 DEF Asks, acquired
<1>3. Total(holds) <= Base(t) /\ Base(t) \in Nat /\ Total(holds) \in Nat
  <2>1. Total(holds) = data + transferred[t] /\ Total(holds) \in 0..DATA_MASK
    BY HeldBound
  <2>2. data <= snap[t].data /\ snap[t].data \in 0..DATA_MASK
    <3>1. snap[t].data \in 0..DATA_MASK
      BY <1>0 DEF Words
    <3> QED  BY <3>1, Worker
  <2> QED  BY <2>1, <2>2, <1>0, DataMaskAssumption DEF Base
<1>4. Fair!Fits(Requests[1].desired)
  <2>1. Base(t) = 0 \/ Base(t) + desired_count(op[k]) <= max_shared_owners
    BY <1>k DEF Eligible, Admits, Visited
  <2>2. desired_count(op[k]) \in 0..DATA_MASK
    BY <1>0, CountFacts
  <2>3. Total(holds) = 0 \/ Total(holds) + desired_count(op[k]) <= max_shared_owners
    BY <2>1, <2>2, <1>3, OwnersAssumption
  <2> QED  BY <2>3, <1>2, FairTaken DEF Fair!Fits
<1>5. Fair!Grant
  BY <1>1, <1>2, <1>4, <1>k DEF Fair!Grant, Fair!Give
<1> QED  BY <1>5 DEF FairStep, Fair!Next

LEMMA FairWithdraw ==
    ASSUME WordInv, KeepsAsked, op' \in [Tasks -> Opcodes], NEW k \in 1..Len(queue),
           queue' = Unlink(queue, k), holds' = holds
    PROVE  FairStep
<1>1. queue \in Seq(Tasks) /\ op \in [Tasks -> Opcodes]
  BY DEF WordInv, TypeOK
<1>2. RequestsOf(queue, op') = Requests /\ Len(Requests) = Len(queue)
  BY <1>1, KeptRequests, RequestsAre, RequestsFacts
<1>3. Requests' = [i \in 1..(Len(Requests) - 1) |-> IF i < k THEN Requests[i] ELSE Requests[i + 1]]
  BY <1>1, <1>2, RequestsNext, RequestsUnlink
<1>4. Fair!Withdraw(k) /\ k \in 1..Len(Requests)
  BY <1>2, <1>3 DEF Fair!Withdraw
<1> QED  BY <1>4 DEF FairStep, Fair!Next

-----------------------------------------------------------------------------
(* Who is on its way in or out, or only has a result, is not in the queue. *)
LEMMA NotQueued ==
    ASSUME WaitInv, NEW t \in Tasks, pc[t] \notin {"wait", "cancel", "remove"} \/ result[t] # NoResult
    PROVE  ~InQueue(t)
  BY WaitImplies DEF NoLostWaiter

LEMMA OwnOpcode ==
    ASSUME NEW t \in Tasks, ~InQueue(t), \A u \in Tasks \ {t} : op'[u] = op[u]
    PROVE  KeepsAsked
  BY DEF KeepsAsked

LEMMA ReturnKeeps ==
    ASSUME WordInv, NEW t \in Tasks, ~InQueue(t), Return(t)
    PROVE  KeepsAsked
<1>1. op \in [Tasks -> Opcodes]
  BY DEF WordInv, TypeOK
<1> QED  BY <1>1, OwnOpcode DEF Return

LEMMA ReleaseFair ==
    ASSUME WordInv, WaitInv, HoldsInv, NEW t \in Tasks, Release(t)
    PROVE  FairStep
<1>0. pc[t] = "release" /\ ~InQueue(t)
  BY NotQueued DEF Release, ReleaseRefused, ReleaseInPlace, ReleaseAndProcess, ReleaseRetry
<1>1. CASE ReleaseRefused(t)
  <2>1. Return(t) /\ queue' = queue /\ holds' = holds
    BY <1>1 DEF ReleaseRefused, word
  <2> QED  BY <2>1, <1>0, ReturnKeeps, FairUnseen
<1>2. CASE ReleaseRetry(t)
  <2>1. op' = op /\ queue' = queue /\ holds' = holds
    BY <1>2 DEF ReleaseRetry, word
  <2> QED  BY <2>1, FairUnseen DEF KeepsAsked
<1>3. CASE ReleaseInPlace(t) \/ ReleaseAndProcess(t)
  <2>1. holds' = [holds EXCEPT ![t] = @ - acquired(t)]
    BY <1>3 DEF ReleaseInPlace, ReleaseAndProcess
  <2>2. queue' = queue /\ KeepsAsked
    BY <1>3, <1>0, ReturnKeeps DEF ReleaseInPlace, ReleaseAndProcess, KeepsAsked
  <2>3. Granted(t) /\ LocalInv(t)
    BY <1>3, <1>0 DEF ReleaseInPlace, ReleaseAndProcess, Granted, HoldsInv
  <2>4. PICK n \in 0..DATA_MASK : n = acquired(t)
    BY ReleaseFacts
  <2>5. n <= holds[t] /\ holds' = [holds EXCEPT ![t] = holds[t] - n]
    BY <2>1, <2>3, <2>4 DEF LocalInv, Own
  <2> QED  BY <2>2, <2>5, FairRelease
<1> QED  BY <1>1, <1>2, <1>3 DEF Release

LEMMA ProcessFair ==
    ASSUME WordInv, WaitInv, HoldsInv, NEW t \in Tasks, Process(t)
    PROVE  FairStep
<1>1. CASE PwqVisit(t)
  <2>1. /\ Processing(t) /\ queue # <<>> /\ Eligible(t) /\ op' = op /\ queue' = Tail(queue)
        /\ holds' = [holds EXCEPT ![queue[1]] = @ + acquired(queue[1])]
    BY <1>1 DEF PwqVisit, Processing, Visited
  <2> QED  BY <2>1, FairGrant
<1>2. CASE PwqReset(t)
  <2>1. /\ Processing(t) /\ queue # <<>> /\ Eligible(t) /\ op' = op
        /\ holds' = [holds EXCEPT ![queue[1]] = @ + acquired(queue[1])]
    BY <1>2 DEF PwqReset, Processing, Visited
  <2>2. queue' = Tail(queue)
    BY <1>2, ResetTakes DEF Takes
  <2> QED  BY <2>1, <2>2, FairGrant
<1>3. CASE PwqResetFailed(t) \/ PwqUnlock(t) \/ PwqUnlockFailed(t) \/ PwqAdd(t) \/ Resolve(t)
           \/ PwqContinue(t) \/ (PwqReturn(t) /\ then[t] # "idle")
  <2>1. op' = op /\ queue' = queue /\ holds' = holds
    BY <1>3 DEF PwqResetFailed, PwqUnlock, PwqUnlockFailed, PwqAdd, Resolve, SetResult, PwqContinue,
       PwqReturn, word
  <2> QED  BY <2>1, FairUnseen DEF KeepsAsked
<1>4. CASE PwqReturn(t) /\ then[t] = "idle"
  <2>1. Return(t) /\ queue' = queue /\ holds' = holds /\ ~InQueue(t)
    BY <1>4, NotQueued DEF PwqReturn, word
  <2> QED  BY <2>1, ReturnKeeps, FairUnseen
<1> QED  BY <1>1, <1>2, <1>3, <1>4 DEF Process

(* The only entry of the queue is withdrawn by a call that returns. *)
LEMMA SoleFair ==
    ASSUME WordInv, NEW t \in Tasks, RemoveSole(t)
    PROVE  FairStep
<1>1. queue \in Seq(Tasks) /\ op \in [Tasks -> Opcodes]
  BY DEF WordInv, TypeOK
<1>2. Len(queue) = 1 /\ queue' = <<>> /\ holds' = holds
  BY DEF RemoveSole
<1>3. Len(Requests) = 1
  BY <1>1, <1>2, RequestsAre, RequestsFacts
<1>4. Requests' = <<>>
  BY <1>2, RequestsNext DEF RequestsOf
<1>5. [i \in 1..(Len(Requests) - 1) |-> IF i < 1 THEN Requests[i] ELSE Requests[i + 1]] = <<>>
  BY <1>3
<1>6. Fair!Withdraw(1) /\ 1 \in 1..Len(Requests)
  BY <1>2, <1>3, <1>4, <1>5 DEF Fair!Withdraw
<1> QED  BY <1>6 DEF FairStep, Fair!Next

LEMMA CancelFair ==
    ASSUME WordInv, NEW t \in Tasks, Cancel(t) \/ Drop(t)
    PROVE  FairStep
<1>1. CASE CancelEmpty(t) \/ CancelLock(t) \/ RemoveRetry(t) \/ RemoveMissing(t) \/ Complete(t) \/ Drop(t)
  <2>1. op' = op /\ queue' = queue /\ holds' = holds
    BY <1>1 DEF CancelEmpty, CancelLock, RemoveRetry, RemoveMissing, Complete, Drop, word
  <2> QED  BY <2>1, FairUnseen DEF KeepsAsked
<1>2. CASE RemoveInner(t) \/ RemoveTail(t)
  <2>1. op' = op /\ holds' = holds /\ op' \in [Tasks -> Opcodes] /\ queue \in Seq(Tasks)
    BY <1>2 DEF RemoveInner, RemoveTail, WordInv, TypeOK
  <2>2. PICK k \in 1..Len(queue) : queue' = Unlink(queue, k)
    <3>1. CASE RemoveInner(t)
      BY <3>1 DEF RemoveInner
    <3>2. CASE RemoveTail(t)
      <4>1. queue' = Unlink(queue, Len(queue)) /\ Len(queue) \in 1..Len(queue)
        BY <3>2, <2>1 DEF RemoveTail
      <4> QED  BY <4>1
    <3> QED  BY <1>2, <3>1, <3>2
  <2> QED  BY <2>1, <2>2, FairWithdraw DEF KeepsAsked
<1> QED  BY <1>1, <1>2, SoleFair DEF Cancel

(* Every step of the wait queue protocol is a step of the allocator. *)
LEMMA SyncStepFair ==
    ASSUME WordInv, WaitInv, HoldsInv, NEW t \in Tasks, SyncStep(t) \/ Drop(t)
    PROVE  FairStep
<1>1. CASE PushOk(t)
  <2>1. /\ queue' = Append(queue, t) /\ op' = op /\ holds' = holds
        /\ op' \in [Tasks -> Opcodes]
    BY <1>1 DEF PushOk, WordInv, TypeOK
  <2> QED  BY <2>1, FairRequest DEF KeepsAsked
<1>2. CASE PushFailed(t)
  <2>1. op' = op /\ queue' = queue /\ holds' = holds
    BY <1>2 DEF PushFailed
  <2> QED  BY <2>1, FairUnseen DEF KeepsAsked
<1>3. CASE Cancel(t) \/ Drop(t)
  BY <1>3, CancelFair
<1> QED  BY <1>1, <1>2, <1>3, ReleaseFair, ProcessFair DEF SyncStep

(* Before anybody calls, nobody asks for anything. *)
LEMMA FairInit ==
    ASSUME queue = <<>>, holds \in [Tasks -> 0..DATA_MASK]
    PROVE  Fair!Init
<1>1. Requests = <<>>
  BY DEF Requests
<1> QED  BY <1>1 DEF Fair!Init

LEMMA StutterFair ==
    ASSUME UNCHANGED vars
    PROVE  FairStep
<1>1. Requests' = Requests /\ holds' = holds
  BY DEF vars, Requests, acquired, acquired_count, desired_count
<1> QED  BY <1>1 DEF FairStep, Fair!vars
=============================================================================
