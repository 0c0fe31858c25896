------------------------------ MODULE GateProof ------------------------------
(***************************************************************************)
(* The safety of the gate for any number of tasks and controllers: nobody  *)
(* is lost between the queue and the lists that are being woken, and every *)
(* task is told the answer of the operation that detached it.              *)
(***************************************************************************)
EXTENDS Gate, SequenceTheorems, TLAPS

(* No entry is in the queue twice. *)
QueueOnce == \A i, j \in 1..Len(queue) : queue[i] = queue[j] => i = j

(* A detached list belongs to a thread inside wake_all: no call overwrites *)
(* a list it has not finished.                                             *)
OwnList == \A u \in Threads : resolved[u] # <<>> => pc[u] = "waking"

(* A result is gone when its task enters again. *)
Fresh == \A t \in Tasks : pc[t] \in {"idle", "enter", "push"} => result[t] = NoResult

(* The byte a waking thread is going to store means what the operation     *)
(* that detached the entry meant.                                          *)
DetachedMatch ==
    \A u \in Threads : \A i \in 1..Len(resolved[u]) :
        /\ verdict[resolved[u][i]] # "none"
        /\ to_result(value[u]) = Told(verdict[resolved[u][i]])

IInv == /\ TypeOK /\ NobodyWaitsAtSettledGate /\ ReachableOnce /\ AnswersMatch
        /\ QueueOnce /\ OwnList /\ Fresh /\ DetachedMatch

USE DEF NoResult, Controlled, Sealed, Open, NoError, Rejected, SealedError, SpuriousFailure

Inside == {"wait", "drop", "waking", "ack"}

-----------------------------------------------------------------------------
(* Sequences. *)
LEMMA AppendFacts ==
    ASSUME NEW q \in Seq(Tasks), NEW t \in Tasks
    PROVE  /\ Append(q, t) \in Seq(Tasks) /\ Len(Append(q, t)) = Len(q) + 1
           /\ \A i \in 1..Len(q) : Append(q, t)[i] = q[i]
           /\ Append(q, t)[Len(q) + 1] = t
  OBVIOUS

LEMMA FrontFacts ==
    ASSUME NEW q \in Seq(Tasks), q # <<>>
    PROVE  /\ Len(q) \in Nat /\ Len(q) >= 1
           /\ SubSeq(q, 1, Len(q) - 1) \in Seq(Tasks)
           /\ Len(SubSeq(q, 1, Len(q) - 1)) = Len(q) - 1
           /\ \A i \in 1..(Len(q) - 1) : SubSeq(q, 1, Len(q) - 1)[i] = q[i]
<1> DEFINE n == Len(q)
           f == SubSeq(q, 1, n - 1)
<1>1. n \in Nat /\ n # 0
  OBVIOUS
<1>2. \A i \in 1..(n - 1) : q[i] \in Tasks
  BY <1>1
<1>3. /\ f \in Seq(Tasks) /\ Len(f) = IF 1 <= n - 1 THEN n - 1 - 1 + 1 ELSE 0
      /\ \A i \in 1..(n - 1 - 1 + 1) : f[i] = q[1 + i - 1]
  BY <1>1, <1>2, SubSeqProperties
<1> SUFFICES n >= 1 /\ f \in Seq(Tasks) /\ Len(f) = n - 1 /\ \A i \in 1..(n - 1) : f[i] = q[i]
  BY <1>1
<1> HIDE DEF n, f
<1>4. n - 1 - 1 + 1 = n - 1 /\ \A i \in 1..(n - 1) : 1 + i - 1 = i
  BY <1>1
<1> QED  BY <1>1, <1>3, <1>4

LEMMA EmptyFacts == <<>> \in Seq(Tasks) /\ Len(<<>>) = 0
  OBVIOUS

(* to_result undoes into_u8: the state where there is no error, and the    *)
(* error alone where there is one.                                         *)
LEMMA Decodes ==
    /\ \A s \in States : /\ to_result(into_u8(s, NoError)) = [ok |-> TRUE, code |-> s]
                         /\ \A e \in {Rejected, SealedError, SpuriousFailure} :
                                to_result(into_u8(s, e)) = [ok |-> FALSE, code |-> e]
    /\ \A s \in States : \A e \in {NoError, Rejected, SealedError, SpuriousFailure} :
           into_u8(s, e) \in 0..15
  BY DEF States, to_result, into_u8

-----------------------------------------------------------------------------
LEMMA InitInv == ASSUME Init PROVE IInv
<1>1. TypeOK
  BY EmptyFacts DEF Init, TypeOK, Initial, Labels, States
<1>0. Len(queue) = 0 /\ \A u \in Threads : Len(resolved[u]) = 0
  BY EmptyFacts DEF Init
<1>2. \A t \in Tasks : ~InQueue(t) /\ ~Pending(t)
  BY <1>0 DEF InQueue, Pending
<1>3. ReachableOnce
  <2>1. \A t \in Tasks : pc[t] = "idle"
    BY DEF Init, Threads
  <2>2. \A u \in Threads : 1..Len(resolved[u]) = {}
    BY <1>0
  <2> QED  BY <1>2, <2>1, <2>2, Zenon DEF ReachableOnce
<1>4. QueueOnce /\ DetachedMatch
  BY <1>0 DEF QueueOnce, DetachedMatch
<1> QED  BY <1>1, <1>3, <1>4 DEF Init, IInv, NobodyWaitsAtSettledGate, AnswersMatch, OwnList,
            Fresh

(* A thread moves and nothing else happens, besides what it remembers of   *)
(* the word.                                                               *)
LEMMA MovePreserves ==
    ASSUME IInv, NEW t \in Threads, NEW l \in Labels, Goto(t, l), TypeOK',
           UNCHANGED <<data, queue, resolved, result, verdict>>,
           \A u \in Threads : resolved[u] # <<>> => value'[u] = value[u],
           t \in Tasks => (pc[t] \in Inside <=> l \in Inside),
           t \in Tasks /\ l \in {"idle", "enter", "push"} => pc[t] \in {"idle", "enter", "push"},
           resolved[t] = <<>>
    PROVE  IInv'
<1>1. \A u \in Threads : u # t => pc'[u] = pc[u]
  BY DEF IInv, TypeOK, Goto
<1>2. pc'[t] = l
  BY DEF IInv, TypeOK, Goto
<1>3. \A u \in Tasks : InQueue(u)' = InQueue(u) /\ Pending(u)' = Pending(u)
  BY DEF InQueue, Pending
<1>4. ReachableOnce'
  BY <1>1, <1>2, <1>3 DEF IInv, ReachableOnce, Inside, Threads
<1>5. Fresh' /\ OwnList'
  BY <1>1, <1>2 DEF IInv, Fresh, OwnList, Threads
<1>6. DetachedMatch'
  BY EmptyFacts DEF IInv, DetachedMatch
<1>7. NobodyWaitsAtSettledGate' /\ AnswersMatch' /\ QueueOnce'
  BY DEF IInv, NobodyWaitsAtSettledGate, AnswersMatch, QueueOnce
<1> QED  BY <1>4, <1>5, <1>6, <1>7 DEF IInv

LEMMA EnterInv == ASSUME IInv, NEW t \in Tasks, Enter(t) PROVE IInv'
<1>1. TypeOK'
  BY DEF IInv, TypeOK, Enter, Goto, Labels, Threads
<1> QED  BY <1>1, MovePreserves DEF IInv, TypeOK, OwnList, Enter, Labels, Inside, Threads

LEMMA EnterControlledInv == ASSUME IInv, NEW t \in Tasks, EnterControlled(t) PROVE IInv'
<1>0. Word \in [data : {Controlled}, tail : Tasks \cup {NoTask}]
  BY DEF IInv, TypeOK, EnterControlled, Word
<1>1. TypeOK'
  BY <1>0 DEF IInv, TypeOK, EnterControlled, Goto, Labels, Threads
<1> QED  BY <1>1, MovePreserves DEF IInv, TypeOK, OwnList, EnterControlled, Labels, Inside, Threads

LEMMA PushFailedInv == ASSUME IInv, NEW t \in Tasks, PushFailed(t) PROVE IInv'
<1>1. TypeOK'
  BY DEF IInv, TypeOK, PushFailed, Goto, Labels, Threads, Initial
<1> QED  BY <1>1, MovePreserves DEF IInv, TypeOK, OwnList, PushFailed, Labels, Inside, Threads

LEMMA DropPendingInv == ASSUME IInv, NEW t \in Tasks, DropPending(t) PROVE IInv'
<1>1. TypeOK'
  BY DEF IInv, TypeOK, DropPending, Goto, Labels, Threads
<1> QED  BY <1>1, MovePreserves DEF IInv, TypeOK, OwnList, DropPending, Labels, Inside, Threads

LEMMA WakeReturnInv == ASSUME IInv, NEW t \in Threads, WakeReturn(t) PROVE IInv'
<1>1. TypeOK'
  BY DEF IInv, TypeOK, WakeReturn, Goto, Labels
<1>2. \A u \in Threads : resolved[u] # <<>> => value'[u] = value[u]
  BY DEF IInv, TypeOK, WakeReturn
<1> QED  BY <1>1, <1>2, MovePreserves DEF WakeReturn, Labels, Inside

LEMMA ResetInv == ASSUME IInv, NEW c \in Controllers, reset(c) \/ ResetReturn(c) PROVE IInv'
<1>0. c \in Threads /\ c \notin Tasks
  BY GateAssumption DEF Threads
<1>1. TypeOK'
  BY <1>0 DEF IInv, TypeOK, reset, ResetReturn, Goto, Labels
<1> QED  BY <1>0, <1>1, MovePreserves DEF IInv, TypeOK, OwnList, reset, ResetReturn, Labels

-----------------------------------------------------------------------------
(* A task is told at once that the gate is open or sealed. *)
LEMMA EnterSettledInv == ASSUME IInv, NEW t \in Tasks, EnterSettled(t) PROVE IInv'
<1> DEFINE v == IF data = Sealed THEN into_u8(Sealed, SealedError) ELSE into_u8(Open, NoError)
           o == IF data = Sealed THEN "sealed" ELSE "opened"
<1>0. t \in Threads /\ data \in {Sealed, Open} /\ pc[t] = "enter" /\ result[t] = NoResult
  BY DEF Threads, IInv, TypeOK, States, EnterSettled, Fresh
<1>1. v \in 0..15 /\ v # NoResult /\ o \in Operations /\ o # "none" /\ to_result(v) = Told(o)
  <2>1. CASE data = Sealed
    BY <2>1, Decodes DEF States, Operations, Told
  <2>2. CASE data = Open
    BY <2>2, Decodes DEF States, Operations, Told
  <2> QED  BY <1>0, <2>1, <2>2
<1>2. /\ result' = [result EXCEPT ![t] = v] /\ verdict' = [verdict EXCEPT ![t] = o]
      /\ pc' = [pc EXCEPT ![t] = "wait"] /\ UNCHANGED <<data, queue, snap, resolved, value>>
  BY DEF EnterSettled, Goto
<1> HIDE DEF v, o
<1>3. TypeOK'
  BY <1>0, <1>1, <1>2 DEF IInv, TypeOK, Labels
<1>4. ~InQueue(t) /\ ~Pending(t)
  BY <1>0 DEF IInv, ReachableOnce
<1>5. \A u \in Tasks : InQueue(u)' = InQueue(u) /\ Pending(u)' = Pending(u)
  BY <1>2 DEF InQueue, Pending
<1>6. ReachableOnce'
  BY <1>0, <1>1, <1>2, <1>4, <1>5 DEF IInv, TypeOK, ReachableOnce
<1>7. AnswersMatch' /\ Fresh' /\ OwnList'
  BY <1>0, <1>1, <1>2 DEF IInv, TypeOK, AnswersMatch, Fresh, OwnList
<1>8. DetachedMatch'
  <2>1. \A u \in Threads : \A i \in 1..Len(resolved[u]) : resolved[u][i] # t /\ resolved[u][i] \in Tasks
    BY <1>4 DEF Pending, IInv, TypeOK
  <2> QED  BY <1>2, <2>1 DEF IInv, TypeOK, DetachedMatch
<1>9. NobodyWaitsAtSettledGate' /\ QueueOnce'
  BY <1>2 DEF IInv, NobodyWaitsAtSettledGate, QueueOnce
<1> QED  BY <1>3, <1>6, <1>7, <1>8, <1>9 DEF IInv

(* A result is consumed, or thrown away by a drop. *)
LEMMA ConsumePreserves ==
    ASSUME IInv, NEW t \in Tasks, result[t] # NoResult,
           result' = [result EXCEPT ![t] = NoResult], verdict' = [verdict EXCEPT ![t] = "none"],
           Goto(t, "idle"), pc[t] # "waking", UNCHANGED <<data, queue, snap, resolved, value>>
    PROVE  IInv'
<1>0. t \in Threads
  BY DEF Threads
<1>1. TypeOK'
  BY <1>0 DEF IInv, TypeOK, Goto, Labels
<1>2. ~InQueue(t) /\ ~Pending(t)
  BY DEF IInv, ReachableOnce
<1>3. \A u \in Tasks : InQueue(u)' = InQueue(u) /\ Pending(u)' = Pending(u)
  BY DEF InQueue, Pending
<1>4. ReachableOnce'
  BY <1>0, <1>2, <1>3 DEF IInv, TypeOK, ReachableOnce, Goto
<1>5. AnswersMatch' /\ Fresh' /\ OwnList'
  BY <1>0 DEF IInv, TypeOK, AnswersMatch, Fresh, OwnList, Goto
<1>6. DetachedMatch'
  <2>1. \A u \in Threads : \A i \in 1..Len(resolved[u]) : resolved[u][i] # t /\ resolved[u][i] \in Tasks
    BY <1>2 DEF Pending, IInv, TypeOK
  <2> QED  BY <2>1 DEF IInv, TypeOK, DetachedMatch
<1>7. NobodyWaitsAtSettledGate' /\ QueueOnce'
  BY DEF IInv, NobodyWaitsAtSettledGate, QueueOnce
<1> QED  BY <1>1, <1>4, <1>5, <1>6, <1>7 DEF IInv

LEMMA ConsumeInv ==
    ASSUME IInv, NEW t \in Tasks, Poll(t) \/ DropSettled(t) \/ Acknowledge(t)
    PROVE  IInv'
  BY ConsumePreserves DEF Poll, DropSettled, Acknowledge

-----------------------------------------------------------------------------
LEMMA PushOkInv == ASSUME IInv, NEW t \in Tasks, PushOk(t) PROVE IInv'
<1>0. t \in Threads /\ pc[t] = "push" /\ result[t] = NoResult /\ data = Controlled
  BY DEF Threads, IInv, TypeOK, Fresh, PushOk, Word
<1>1. /\ queue' = Append(queue, t) /\ pc' = [pc EXCEPT ![t] = "wait"]
      /\ UNCHANGED <<data, resolved, value, result, verdict>>
  BY DEF PushOk, Goto
<1>2. TypeOK'
  BY <1>0, <1>1, AppendFacts DEF IInv, TypeOK, PushOk, Labels, Initial
<1>3. ~InQueue(t) /\ ~Pending(t)
  BY <1>0 DEF IInv, ReachableOnce
<1>q. queue \in Seq(Tasks) /\ Len(queue) \in Nat
  BY DEF IInv, TypeOK
<1>4. \A u \in Tasks : (InQueue(u)' <=> InQueue(u) \/ u = t) /\ (Pending(u)' <=> Pending(u))
  <2>1. ASSUME NEW u \in Tasks PROVE InQueue(u)' <=> InQueue(u) \/ u = t
    BY <1>1, <1>q, AppendFacts DEF InQueue
  <2> QED  BY <1>1, <2>1 DEF Pending
<1>5. ReachableOnce'
  BY <1>0, <1>1, <1>3, <1>4 DEF IInv, TypeOK, ReachableOnce
<1>6. QueueOnce'
  BY <1>1, <1>q, <1>3, AppendFacts DEF IInv, QueueOnce, InQueue
<1>7. AnswersMatch' /\ Fresh' /\ OwnList' /\ DetachedMatch' /\ NobodyWaitsAtSettledGate'
  BY <1>0, <1>1 DEF IInv, TypeOK, AnswersMatch, Fresh, OwnList, DetachedMatch, NobodyWaitsAtSettledGate
<1> QED  BY <1>2, <1>5, <1>6, <1>7 DEF IInv

-----------------------------------------------------------------------------
(* The list is detached, with the answer the operation means. *)
LEMMA WakeAllPreserves ==
    ASSUME IInv, NEW t \in Threads, NEW next \in States, NEW o \in Operations,
           NEW error \in {NoError, Rejected, SealedError, SpuriousFailure},
           wake_all(t, next, error, o),
           pc[t] = "idle" \/ (t \in Tasks /\ pc[t] = "drop"),
           t \in Tasks => pc[t] = "drop",
           queue # <<>> => to_result(into_u8(next, error)) = Told(o)
    PROVE  IInv'
<1>1. /\ queue' = <<>> /\ resolved' = [resolved EXCEPT ![t] = queue]
      /\ pc' = [pc EXCEPT ![t] = "waking"] /\ value' = [value EXCEPT ![t] = into_u8(next, error)]
      /\ verdict' = [u \in Tasks |-> IF InQueue(u) THEN o ELSE verdict[u]]
      /\ data' = next /\ UNCHANGED <<snap, result>>
  BY DEF wake_all, Goto
<1>2. TypeOK'
  BY <1>1, Decodes, EmptyFacts DEF IInv, TypeOK, Labels
<1>3. resolved[t] = <<>>
  BY DEF IInv, OwnList
<1>q. /\ queue \in Seq(Tasks) /\ Len(queue) \in Nat
      /\ \A i \in 1..Len(queue) : queue[i] \in Tasks
  BY DEF IInv, TypeOK
<1>r. /\ resolved'[t] = queue /\ \A u \in Threads : u # t => resolved'[u] = resolved[u]
      /\ \A u \in Threads : resolved[u] \in Seq(Tasks)
  BY <1>1 DEF IInv, TypeOK
<1>4. \A u \in Tasks : ~InQueue(u)' /\ (Pending(u)' <=> InQueue(u) \/ Pending(u))
  <2>1. ASSUME NEW u \in Tasks PROVE ~InQueue(u)'
    BY <1>1, EmptyFacts DEF InQueue
  <2>2. ASSUME NEW u \in Tasks, Pending(u)' PROVE InQueue(u) \/ Pending(u)
    BY <2>2, <1>r DEF Pending, InQueue
  <2>3. ASSUME NEW u \in Tasks, InQueue(u) PROVE Pending(u)'
    BY <2>3, <1>r DEF Pending, InQueue
  <2>4. ASSUME NEW u \in Tasks, Pending(u) PROVE Pending(u)'
    BY <2>4, <1>r, <1>3, EmptyFacts DEF Pending
  <2> QED  BY <2>1, <2>2, <2>3, <2>4
<1>5. ReachableOnce'
  <2>1. ASSUME NEW k \in Tasks, NEW u \in Threads, NEW v \in Threads,
               NEW i \in 1..Len(resolved'[u]), NEW j \in 1..Len(resolved'[v]),
               resolved'[u][i] = k, resolved'[v][j] = k
        PROVE  u = v /\ i = j
    <3>1. CASE u = t /\ v = t
      BY <2>1, <3>1, <1>r DEF IInv, QueueOnce
    <3>2. CASE u # t /\ v # t
      BY <2>1, <3>2, <1>r DEF IInv, ReachableOnce
    <3>3. CASE u # t /\ v = t
      <4>1. Pending(k) /\ InQueue(k)
        BY <2>1, <3>3, <1>r DEF Pending, InQueue
      <4> QED  BY <4>1 DEF IInv, ReachableOnce
    <3>4. CASE u = t /\ v # t
      <4>1. Pending(k) /\ InQueue(k)
        BY <2>1, <3>4, <1>r DEF Pending, InQueue
      <4> QED  BY <4>1 DEF IInv, ReachableOnce
    <3> QED  BY <3>1, <3>2, <3>3, <3>4
  <2>2. \A u \in Tasks : (pc'[u] \in Inside <=> pc[u] \in Inside) /\ result'[u] = result[u]
    BY <1>1 DEF IInv, TypeOK, Inside, Threads
  <2> QED  BY <1>4, <2>1, <2>2 DEF IInv, ReachableOnce, Inside
<1>6. \A u \in Tasks : ~InQueue(u) => verdict'[u] = verdict[u]
  BY <1>1
<1>7. AnswersMatch'
  <2>1. \A u \in Tasks : result[u] # NoResult => ~InQueue(u)
    BY DEF IInv, ReachableOnce
  <2> QED  BY <1>1, <1>6, <2>1 DEF IInv, AnswersMatch
<1>8. DetachedMatch'
  <2> SUFFICES ASSUME NEW u \in Threads, NEW i \in 1..Len(resolved'[u])
               PROVE  /\ verdict'[resolved'[u][i]] # "none"
                      /\ to_result(value'[u]) = Told(verdict'[resolved'[u][i]])
    BY DEF DetachedMatch, Told, to_result
  <2>1. CASE u = t
    <3>1. InQueue(queue[i]) /\ queue[i] \in Tasks /\ i \in 1..Len(queue)
      BY <2>1, <1>r, <1>q DEF InQueue
    <3>2. verdict'[queue[i]] = o /\ o # "none" /\ queue # <<>>
      BY <3>1, <1>1, EmptyFacts DEF Operations
    <3>3. value'[t] = into_u8(next, error)
      BY <1>1 DEF IInv, TypeOK
    <3> QED  BY <2>1, <3>1, <3>2, <3>3, <1>r
  <2>2. CASE u # t
    <3>1. resolved'[u] = resolved[u] /\ value'[u] = value[u] /\ resolved[u][i] \in Tasks
      BY <2>2, <1>1, <1>r DEF IInv, TypeOK
    <3>2. Pending(resolved[u][i])
      BY <3>1 DEF Pending
    <3>3. ~InQueue(resolved[u][i])
      BY <3>1, <3>2 DEF IInv, ReachableOnce
    <3> QED  BY <3>1, <3>3, <1>6 DEF IInv, DetachedMatch
  <2> QED  BY <2>1, <2>2
<1>9. Fresh' /\ OwnList'
  BY <1>1, <1>r DEF IInv, TypeOK, Fresh, OwnList, Threads
<1>10. QueueOnce' /\ NobodyWaitsAtSettledGate'
  BY <1>1, EmptyFacts DEF QueueOnce, NobodyWaitsAtSettledGate
<1> QED  BY <1>2, <1>5, <1>7, <1>8, <1>9, <1>10 DEF IInv

(* permit and reject detach nobody from a gate that is open or sealed. *)
LEMMA OperateInv ==
    ASSUME IInv, NEW c \in Controllers, permit(c) \/ reject(c) \/ open(c) \/ seal(c)
    PROVE  IInv'
<1>0. c \in Threads /\ c \notin Tasks /\ data \in States
  BY GateAssumption DEF Threads, IInv, TypeOK
<1>1. queue # <<>> => data = Controlled
  BY DEF IInv, NobodyWaitsAtSettledGate
<1>2. CASE permit(c)
  BY <1>0, <1>1, <1>2, WakeAllPreserves, Decodes DEF permit, Told, Operations, States
<1>3. CASE reject(c)
  BY <1>0, <1>3, WakeAllPreserves, Decodes DEF reject, Told, Operations, States
<1>4. CASE open(c)
  BY <1>0, <1>4, WakeAllPreserves, Decodes DEF open, Told, Operations, States
<1>5. CASE seal(c)
  BY <1>0, <1>5, WakeAllPreserves, Decodes DEF seal, Told, Operations, States
<1> QED  BY <1>2, <1>3, <1>4, <1>5

LEMMA DropWakeInv == ASSUME IInv, NEW t \in Tasks, DropWake(t) PROVE IInv'
<1>0. t \in Threads /\ data \in States
  BY DEF Threads, IInv, TypeOK
<1> QED  BY <1>0, WakeAllPreserves, Decodes DEF DropWake, Told, Operations, States

-----------------------------------------------------------------------------
LEMMA SetResultInv == ASSUME IInv, NEW t \in Threads, SetResult(t) PROVE IInv'
<1> DEFINE n == Len(resolved[t])
           k == resolved[t][n]
<1>0. resolved[t] \in Seq(Tasks) /\ resolved[t] # <<>> /\ pc[t] = "waking"
  BY DEF IInv, TypeOK, SetResult
<1>1. n \in Nat /\ n >= 1 /\ k \in Tasks
  BY <1>0
<1>2. /\ result' = [result EXCEPT ![k] = value[t]]
      /\ resolved' = [resolved EXCEPT ![t] = SubSeq(resolved[t], 1, n - 1)]
      /\ UNCHANGED <<data, queue, pc, snap, value, verdict>>
  BY DEF SetResult
<1>3. Pending(k) /\ n \in 1..Len(resolved[t]) /\ k = resolved[t][n]
  BY <1>1 DEF Pending
<1>4. value[t] # NoResult /\ verdict[k] # "none" /\ to_result(value[t]) = Told(verdict[k])
  <2>1. value[t] \in 0..15
    BY DEF IInv, TypeOK
  <2>2. verdict[k] # "none" /\ to_result(value[t]) = Told(verdict[k])
    BY <1>3 DEF IInv, DetachedMatch
  <2> QED  BY <2>1, <2>2
<1>5. /\ resolved'[t] \in Seq(Tasks) /\ Len(resolved'[t]) = n - 1
      /\ \A i \in 1..(n - 1) : resolved'[t][i] = resolved[t][i]
      /\ \A u \in Threads : u # t => resolved'[u] = resolved[u]
  BY <1>0, <1>2, FrontFacts DEF IInv, TypeOK
<1> HIDE DEF n, k
<1>6. TypeOK'
  BY <1>1, <1>2, <1>5 DEF IInv, TypeOK
<1>7. \A u \in Tasks : (InQueue(u)' <=> InQueue(u)) /\ (Pending(u)' <=> Pending(u) /\ u # k)
  <2>1. ASSUME NEW u \in Tasks PROVE InQueue(u)' <=> InQueue(u)
    BY <1>2 DEF InQueue
  <2>2. ASSUME NEW u \in Tasks, Pending(u)' PROVE Pending(u) /\ u # k
    <3>1. PICK w \in Threads : \E i \in 1..Len(resolved'[w]) : resolved'[w][i] = u
      BY <2>2 DEF Pending
    <3>0. PICK i \in 1..Len(resolved'[w]) : resolved'[w][i] = u
      BY <3>1
    <3>2. i \in 1..Len(resolved[w]) /\ resolved[w][i] = u /\ ~(w = t /\ i = n)
      BY <3>0, <1>1, <1>5, <1>3
    <3>3. Pending(u)
      BY <3>2 DEF Pending
    <3>4. u # k
      BY <3>2, <1>1, <1>3 DEF IInv, ReachableOnce
    <3> QED  BY <3>3, <3>4
  <2>3. ASSUME NEW u \in Tasks, Pending(u), u # k PROVE Pending(u)'
    <3>1. PICK w \in Threads : \E i \in 1..Len(resolved[w]) : resolved[w][i] = u
      BY <2>3 DEF Pending
    <3>0. PICK i \in 1..Len(resolved[w]) : resolved[w][i] = u
      BY <3>1
    <3>2. i \in 1..Len(resolved'[w]) /\ resolved'[w][i] = u
      <4>1. CASE w # t
        BY <4>1, <3>0, <1>5
      <4>2. CASE w = t
        <5>1. i # n /\ n = Len(resolved[t])
          BY <4>2, <3>0, <2>3, <1>3 DEF n
        <5> QED  BY <4>2, <5>1, <3>0, <1>1, <1>5
      <4> QED  BY <4>1, <4>2
    <3> QED  BY <3>2 DEF Pending
  <2> QED  BY <2>1, <2>2, <2>3
<1>8. ReachableOnce'
  <2>1. ASSUME NEW x \in Tasks, NEW u \in Threads, NEW v \in Threads,
               NEW i \in 1..Len(resolved'[u]), NEW j \in 1..Len(resolved'[v]),
               resolved'[u][i] = x, resolved'[v][j] = x
        PROVE  u = v /\ i = j
    <3>1. i \in 1..Len(resolved[u]) /\ j \in 1..Len(resolved[v])
      BY <1>1, <1>3, <1>5
    <3>2. resolved[u][i] = x /\ resolved[v][j] = x
      BY <2>1, <1>1, <1>5
    <3> QED  BY <3>1, <3>2 DEF IInv, ReachableOnce
  <2>2. \A u \in Tasks : pc'[u] = pc[u] /\ (u # k => result'[u] = result[u])
    BY <1>2 DEF IInv, TypeOK
  <2>3. result'[k] # NoResult
    BY <1>1, <1>2, <1>4 DEF IInv, TypeOK
  <2> QED  BY <1>3, <1>7, <2>1, <2>2, <2>3 DEF IInv, ReachableOnce
<1>9. AnswersMatch'
  BY <1>1, <1>2, <1>4 DEF IInv, TypeOK, AnswersMatch
<1>10. Fresh'
  <2>1. pc[k] \in Inside
    BY <1>1, <1>3 DEF IInv, ReachableOnce, Inside
  <2> QED  BY <1>1, <1>2, <2>1 DEF IInv, TypeOK, Fresh, Inside
<1>11. OwnList'
  BY <1>0, <1>2, <1>5 DEF IInv, OwnList
<1>12. DetachedMatch'
  <2> SUFFICES ASSUME NEW u \in Threads, NEW i \in 1..Len(resolved'[u])
               PROVE  /\ verdict'[resolved'[u][i]] # "none"
                      /\ to_result(value'[u]) = Told(verdict'[resolved'[u][i]])
    BY DEF DetachedMatch, Told, to_result
  <2>1. i \in 1..Len(resolved[u]) /\ resolved'[u][i] = resolved[u][i]
    BY <1>1, <1>3, <1>5
  <2> QED  BY <2>1, <1>2 DEF IInv, DetachedMatch
<1>13. QueueOnce' /\ NobodyWaitsAtSettledGate'
  BY <1>2 DEF IInv, QueueOnce, NobodyWaitsAtSettledGate
<1> QED  BY <1>6, <1>8, <1>9, <1>10, <1>11, <1>12, <1>13 DEF IInv

-----------------------------------------------------------------------------
LEMMA GateInvariant == Spec => []IInv
<1>1. IInv /\ UNCHANGED vars => IInv'
  BY DEF vars, IInv, TypeOK, NobodyWaitsAtSettledGate, ReachableOnce, AnswersMatch,
     QueueOnce, OwnList, Fresh, DetachedMatch, InQueue, Pending
<1>2. IInv /\ Next => IInv'
  BY EnterInv, EnterControlledInv, EnterSettledInv, PushOkInv, PushFailedInv, ConsumeInv,
     DropPendingInv, DropWakeInv, SetResultInv, WakeReturnInv, OperateInv, ResetInv
     DEF Next, TaskStep, Waking
<1> QED  BY InitInv, <1>1, <1>2, PTL DEF Spec

(* Every variable of the gate keeps its range: the byte of an answer, the  *)
(* state bits of the word, and the copy a pushing task compares with.      *)
THEOREM GateTypeCorrect == Spec => []TypeOK
<1>1. IInv => TypeOK
  BY DEF IInv
<1> QED  BY <1>1, GateInvariant, PTL

(* Nobody waits at a gate that is open or sealed. *)
THEOREM GateSettledEmpty == Spec => []NobodyWaitsAtSettledGate
<1>1. IInv => NobodyWaitsAtSettledGate
  BY DEF IInv
<1> QED  BY <1>1, GateInvariant, PTL

(* A waiting entry is reachable in exactly one way until it has a result,  *)
(* and nobody else is reachable.                                           *)
THEOREM GateReachableOnce == Spec => []ReachableOnce
<1>1. IInv => ReachableOnce
  BY DEF IInv
<1> QED  BY <1>1, GateInvariant, PTL

(* What a task is told is the answer of the operation that detached it.    *)
THEOREM GateAnswersMatch == Spec => []AnswersMatch
<1>1. IInv => AnswersMatch
  BY DEF IInv
<1> QED  BY <1>1, GateInvariant, PTL
=============================================================================
