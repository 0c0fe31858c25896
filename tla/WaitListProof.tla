---------------------------- MODULE WaitListProof ----------------------------
(***************************************************************************)
(* The intrusive list, for every number of entries and processes: the word *)
(* leads to its tail wherever the entries are pinned, no walk leaves the   *)
(* list, the assertions about successors hold, and the pointers implement  *)
(* a first-in, first-out sequence.                                         *)
(***************************************************************************)
EXTENDS WaitList, AnchorLayoutProof, WellFoundedInduction, FiniteSetTheorems

(* Entries that are pinned apart have different anchors. *)
LEMMA AnchorsApart ==
    ASSUME NEW s \in Addresses, NEW t \in Addresses, s + VIRTUAL_ALIGNMENT <= t
    PROVE  anchor_ptr(s) # anchor_ptr(t)
<1>1. s \in Nat /\ t \in Nat
  BY DEF Addresses
<1>2. /\ anchor_offset(s) \in Nat /\ anchor_offset(s) + 8 <= VIRTUAL_ALIGNMENT
      /\ anchor_offset(t) \in Nat
  BY OffsetRange
<1> QED  BY <1>1, <1>2 DEF anchor_ptr, VIRTUAL_ALIGNMENT

(* What to_anchor_ptr needs to know of the tail. *)
LinksOK == tail \in Pointers /\ next \in [Entries -> Pointers]

LEMMA LinksInit == Init => LinksOK
  BY DEF Init, LinksOK, Pointers

LEMMA PushLinks ==
    ASSUME LinksOK, NEW e \in Entries, Push(e) \/ Leave(e) PROVE LinksOK'
<1>1. e \in Pointers /\ Null \in Pointers
  BY DEF Pointers
<1> QED  BY <1>1 DEF LinksOK, Push, Leave, Set

LEMMA RoundLinks ==
    ASSUME LinksOK, NEW p \in Processes, Round(p) PROVE LinksOK'
<1>1. Null \in Pointers /\ tail \in Pointers /\ next \in [Entries -> Pointers]
  BY DEF Pointers, LinksOK
<1>2. CASE Lock(p) \/ Scan(p) \/ SetPrev(p) \/ Visit(p) \/ Unlock(p) \/ UnlockFailed(p)
           \/ Add(p) \/ Tell(p) \/ Continue(p)
  BY <1>1, <1>2 DEF LinksOK, Lock, Scan, SetPrev, Visit, Unlock, UnlockFailed, Add, Tell, Continue, links
<1>3. CASE Detach(p) \/ VisitTail(p)
  BY <1>1, <1>3 DEF LinksOK, Detach, VisitTail, links
<1>4. CASE VisitTailFailed(p) \/ Stop(p)
  BY <1>1, <1>4 DEF LinksOK, VisitTailFailed, Stop, Set
<1>5. CASE Return(p)
  BY <1>1, <1>5 DEF LinksOK, Return, Exit, links, Set
<1> QED  BY <1>2, <1>3, <1>4, <1>5 DEF Round

LEMMA RemovalLinks ==
    ASSUME LinksOK, NEW e \in Droppers, Removal(e) PROVE LinksOK'
<1>1. /\ Null \in Pointers /\ tail \in Pointers /\ next \in [Entries -> Pointers]
      /\ e \in Entries /\ next[e] \in Pointers
  BY WaitListAssumption DEF Pointers, LinksOK
<1>2. CASE Drop(e) \/ DropEmpty(e) \/ DropLock(e) \/ RemoveSkip(e) \/ RemoveRetry(e) \/ RemoveMissing(e)
  BY <1>1, <1>2 DEF LinksOK, Drop, DropEmpty, DropLock, RemoveSkip, RemoveRetry, RemoveMissing, links
<1>3. CASE RemoveInner(e)
  BY <1>1, <1>3 DEF LinksOK, RemoveInner, Set
<1>4. CASE RemoveTail(e)
  BY <1>1, <1>4 DEF LinksOK, RemoveTail
<1>5. CASE RemoveSole(e) \/ Complete(e)
  BY <1>1, <1>5 DEF LinksOK, RemoveSole, Complete, Exit, Set
<1> QED  BY <1>2, <1>3, <1>4, <1>5 DEF Removal

LEMMA LinksInvariant == Spec => []LinksOK
<1>1. LinksOK /\ [Next]_vars => LinksOK'
  <2> SUFFICES ASSUME LinksOK, [Next]_vars PROVE LinksOK'
    OBVIOUS
  <2>1. CASE UNCHANGED vars
    BY <2>1 DEF LinksOK, vars, links
  <2>2. CASE \E e \in Entries : Push(e) \/ Leave(e)
    BY <2>2, PushLinks
  <2>3. CASE \E p \in Processes : Round(p)
    BY <2>3, RoundLinks
  <2>4. CASE \E e \in Droppers : Removal(e)
    BY <2>4, RemovalLinks
  <2> QED  BY <2>1, <2>2, <2>3, <2>4 DEF Next
<1> QED  BY <1>1, LinksInit, PTL DEF Spec

(* Masking the word gives its address part. *)
LEMMA WordAddress ==
    ASSUME LinksOK PROVE to_anchor_ptr(Word) = Address
<1>1. Address \in Nat /\ Address % VIRTUAL_ALIGNMENT = 0
  <2>1. CASE tail = Null
    BY <2>1, SMT DEF Address, VIRTUAL_ALIGNMENT
  <2>2. CASE tail # Null
    <3>1. Start[tail] \in Addresses
      BY <2>2, WaitListAssumption DEF LinksOK, Pointers
    <3>2. Start[tail] \in Nat
      BY <3>1 DEF Addresses
    <3> QED  BY <2>2, <3>1, <3>2, OffsetRange DEF Address, anchor_ptr
  <2> QED  BY <2>1, <2>2
<1>2. Word = Address \/ Word = Address + 64
  BY <1>1 DEF Word, LOCKED_FLAG, Half, VIRTUAL_ALIGNMENT
<1> QED  BY <1>1, <1>2, SMT DEF to_anchor_ptr, VIRTUAL_ALIGNMENT

LEMMA TailIsFound == ASSUME LinksOK PROVE TailFound
<1>1. ASSUME NEW e \in Entries PROVE LayoutSound(Start[e])
  BY <1>1, LayoutSoundEverywhere, WaitListAssumption
<1>2. ASSUME NEW e \in Entries PROVE Address = anchor_ptr(Start[e]) <=> e = tail
  <2>1. Start[e] \in Addresses /\ Start[e] \in Nat /\ Start[e] > 0 /\ e # Null
    BY WaitListAssumption DEF Addresses
  <2>2. anchor_ptr(Start[e]) \in Nat /\ anchor_ptr(Start[e]) > 0
    BY <2>1, OffsetRange DEF anchor_ptr
  <2>3. CASE tail = Null
    BY <2>1, <2>2, <2>3 DEF Address
  <2>4. CASE tail = e
    BY <2>1, <2>4 DEF Address
  <2>5. CASE tail # Null /\ tail # e
    <3>1. tail \in Entries /\ Start[tail] \in Addresses
      BY <2>5, WaitListAssumption DEF LinksOK, Pointers
    <3>2. anchor_ptr(Start[tail]) # anchor_ptr(Start[e])
      BY <2>1, <2>5, <3>1, AnchorsApart, WaitListAssumption
    <3> QED  BY <2>5, <3>2 DEF Address
  <2> QED  BY <2>3, <2>4, <2>5
<1> QED  BY <1>1, <1>2, WordAddress DEF TailFound

(* In every state of the list the word leads to its tail and to no other   *)
(* entry (to_anchor_ptr, to_entry_ptr), for every number of entries, at    *)
(* all addresses at which WaitQueues can be pinned.                        *)
THEOREM WaitListTailFound == Spec => []TailFound
  BY LinksInvariant, TailIsFound, PTL

-----------------------------------------------------------------------------
(* The lists.  An entry is on the queue, or on the list of entries a       *)
(* process is about to tell, or on neither: own[e] is Queue, the process,  *)
(* or Null.  ord[e] is its place there, n more than every place.           *)
Queue   == CHOOSE q : q \notin Processes \cup {Null}
Owners  == Processes \cup {Queue, Null}
Labels  == {"idle", "scan", "setprev", "visit", "unlock", "add", "tell_more", "tell_done",
            "drop", "remove", "complete"}
Holding == {"scan", "setprev", "visit", "unlock", "add", "tell_more", "remove"}
Telling == {"tell_more", "tell_done"}
Ending  == {"unlock", "add"}

(* The newest entry that p has taken off the queue. *)
Newest(p) == IF pc[p] \in Telling THEN cur[p]
             ELSE IF pc[p] \in Ending THEN resolved[p] ELSE Null

ListType ==
    /\ tail \in Pointers
    /\ next \in [Entries -> Pointers] /\ prev \in [Entries -> Pointers]
    /\ status \in [Entries -> {"out", "in", "done"}]
    /\ pc \in [Processes -> Labels]
    /\ cur \in [Processes -> Pointers] /\ head \in [Processes -> Pointers]
    /\ last \in [Processes -> Pointers] /\ resolved \in [Processes -> Pointers]
    /\ missing \in [Processes -> BOOLEAN]

(* An entry of a list waits, and has a place of its own. *)
Placed(own, ord, n) ==
    /\ \A x \in Entries : own[x] # Null => status[x] = "in" /\ ord[x] < n
    /\ \A x, y \in Entries : own[x] # Null /\ own[x] = own[y] /\ ord[x] = ord[y] => x = y

(* `next` leads to the entry before it on the same list, if there is one. *)
Linked(own, ord) ==
    /\ \A x \in Entries : own[x] # Null /\ next[x] # Null =>
           own[next[x]] = own[x] /\ ord[next[x]] < ord[x]
    /\ \A x, y \in Entries : own[x] # Null /\ own[y] = own[x] /\ ord[y] < ord[x] =>
           next[x] # Null /\ ord[y] <= ord[next[x]]

(* t is the newest entry of list c, Null if c is empty. *)
IsTop(own, ord, c, t) ==
    /\ t # Null => own[t] = c
    /\ \A x \in Entries : own[x] = c => t # Null /\ ord[x] <= ord[t]

Topped(own, ord) ==
    /\ IsTop(own, ord, Queue, tail)
    /\ \A p \in Processes : IsTop(own, ord, p, Newest(p))

(* An entry of the queue that knows a successor knows the right one. *)
Backed(own) ==
    \A x \in Entries : own[x] = Queue /\ prev[x] # Null =>
        own[prev[x]] = Queue /\ next[prev[x]] = x

(* Who has the flag: nobody knows a successor beyond the tail it has read. *)
Held(own, ord, p) ==
    pc[p] \in Holding =>
        /\ holder = p /\ last[p] # Null /\ own[last[p]] = Queue
        /\ \A x \in Entries : own[x] = Queue /\ ord[last[p]] <= ord[x] => prev[x] = Null

(* Where a walk is, and which successors it has filled in. *)
Walked(own, ord, p) ==
    /\ pc[p] \in {"scan", "setprev", "visit"} => cur[p] # Null
    /\ pc[p] \in {"scan", "setprev", "visit", "remove"} /\ cur[p] # Null =>
           own[cur[p]] = Queue /\ ord[cur[p]] <= ord[last[p]]
    /\ pc[p] \in {"scan", "setprev", "remove"} /\ cur[p] # Null =>
           \A x \in Entries : own[x] = Queue /\ ord[cur[p]] <= ord[x] /\ ord[x] < ord[last[p]]
               => prev[x] # Null
    /\ pc[p] \in {"visit", "unlock", "add"} =>
           \A x \in Entries : own[x] = Queue /\ ord[x] < ord[last[p]] => prev[x] # Null

(* Between two rounds an entry older than one that knows its successor     *)
(* knows its own: set_prev_ptr may stop there.                             *)
Closed(own, ord, p) ==
    /\ pc[p] = "tell_more" =>
           \A x, y \in Entries : own[x] = Queue /\ own[y] = Queue /\ ord[y] < ord[x] /\ prev[x] # Null
               => prev[y] # Null
    /\ pc[p] = "setprev" =>
           \A x, y \in Entries : own[x] = Queue /\ own[y] = Queue /\ ord[y] < ord[x] /\ prev[x] # Null
                                 /\ ord[x] < ord[cur[p]] => prev[y] # Null

(* The head of the next round, and what this one has served. *)
Rounds(own, p) ==
    /\ pc[p] \in {"unlock", "add", "tell_more", "setprev"} =>
           head[p] # Null /\ own[head[p]] = Queue /\ next[head[p]] = Null
    /\ pc[p] \in {"unlock", "add"} => cur[p] = head[p]
    /\ pc[p] = "visit" => resolved[p] = next[cur[p]]
    /\ pc[p] \notin {"visit", "unlock", "add"} => resolved[p] = Null

(* A dropping owner that took its entry off the queue has it on no list. *)
Dropping(own, p) ==
    p \in Droppers =>
        /\ pc[p] # "idle" => status[p] # "out"
        /\ pc[p] \in (Holding \cup {"tell_done"}) \ {"remove"} /\ ~missing[p] => own[p] = Null

ProcOK(own, ord, p) ==
    /\ Held(own, ord, p) /\ Walked(own, ord, p) /\ Closed(own, ord, p)
    /\ Rounds(own, p) /\ Dropping(own, p)

Shape(own, ord, n) ==
    /\ Placed(own, ord, n) /\ Linked(own, ord) /\ Topped(own, ord) /\ Backed(own)
    /\ \A p \in Processes : ProcOK(own, ord, p)

Lists(own, ord, n) ==
    /\ own \in [Entries -> Owners] /\ ord \in [Entries -> Nat] /\ n \in Nat
    /\ ListType /\ Shape(own, ord, n)

ListInv == \E own, ord, n : Lists(own, ord, n)

LEMMA NamesApart ==
    /\ Queue \notin Processes /\ Queue # Null
    /\ Null \notin Entries /\ Null \notin Processes
    /\ Droppers \subseteq Entries /\ Droppers \subseteq Processes
<1>1. \E q : q \notin Processes \cup {Null}
  BY NoSetContainsEverything
<1>2. Queue \notin Processes \cup {Null}
  BY <1>1 DEF Queue
<1> QED  BY <1>2, WaitListAssumption DEF Processes

(* Only one process has the flag. *)
LEMMA OneHolder ==
    ASSUME NEW own, NEW ord, NEW n, Lists(own, ord, n),
           NEW p \in Processes, NEW q \in Processes, p # q, pc[p] \in Holding
    PROVE  pc[q] \notin Holding
  BY DEF Lists, Shape, ProcOK, Held

LEMMA NoHolder ==
    ASSUME NEW own, NEW ord, NEW n, Lists(own, ord, n), holder = Null, NEW q \in Processes
    PROVE  pc[q] \notin Holding
  BY NamesApart DEF Lists, Shape, ProcOK, Held

(* Each entry of the queue has one successor. *)
LEMMA OneSuccessor ==
    ASSUME NEW own, NEW ord, NEW n, Lists(own, ord, n),
           NEW x \in Entries, NEW y \in Entries, own[x] # Null, own[y] = own[x],
           next[x] = next[y], next[x] # Null
    PROVE  x = y
<1>1. next[x] \in Entries /\ ord[x] \in Nat /\ ord[y] \in Nat /\ ord[next[x]] \in Nat
  BY DEF Lists, ListType, Pointers
<1>2. ord[next[x]] < ord[x] /\ ord[next[y]] < ord[y]
  BY DEF Lists, Shape, Linked
<1>3. ~(ord[x] < ord[y]) /\ ~(ord[y] < ord[x])
  BY <1>1, <1>2 DEF Lists, Shape, Linked
<1>4. ord[x] = ord[y]
  BY <1>1, <1>3
<1> QED  BY <1>4 DEF Lists, Shape, Placed

(* The newest entry of the queue knows no successor. *)
LEMMA TailPrev ==
    ASSUME NEW own, NEW ord, NEW n, Lists(own, ord, n), tail # Null
    PROVE  /\ tail \in Entries /\ own[tail] = Queue /\ prev[tail] = Null
           /\ \A x \in Entries : own[x] = Queue /\ ord[tail] <= ord[x] => x = tail
<1>1. tail \in Entries /\ own[tail] = Queue
  BY DEF Lists, ListType, Pointers, Shape, Topped, IsTop
<1>2. \A x \in Entries : own[x] = Queue => ord[x] <= ord[tail]
  BY DEF Lists, Shape, Topped, IsTop
<1>3. ASSUME prev[tail] # Null PROVE FALSE
  <2>1. prev[tail] \in Entries /\ own[prev[tail]] = Queue /\ next[prev[tail]] = tail
    BY <1>1, <1>3 DEF Lists, ListType, Pointers, Shape, Backed
  <2>2. ord[tail] < ord[prev[tail]]
    BY <1>1, <2>1, NamesApart DEF Lists, Shape, Linked
  <2>3. ord[tail] \in Nat /\ ord[prev[tail]] \in Nat
    BY <1>1, <2>1 DEF Lists
  <2> QED  BY <1>2, <2>1, <2>2, <2>3
<1>4. ASSUME NEW x \in Entries, own[x] = Queue, ord[tail] <= ord[x] PROVE x = tail
  <2>1. ord[x] = ord[tail]
    BY <1>1, <1>2, <1>4 DEF Lists
  <2> QED  BY <1>1, <1>4, <2>1, NamesApart DEF Lists, Shape, Placed
<1> QED  BY <1>1, <1>3, <1>4

(* A process that has not moved, when the queue is the same to it. *)
Same(q) == /\ pc'[q] = pc[q] /\ cur'[q] = cur[q] /\ head'[q] = head[q] /\ last'[q] = last[q]
           /\ resolved'[q] = resolved[q] /\ missing'[q] = missing[q]

(* What a dropping owner expects of its own entry. *)
Kept(own, own2, q) ==
    q \in Droppers => /\ status[q] # "out" => status'[q] # "out"
                      /\ own[q] = Null => own2[q] = Null

LEMMA Others ==
    ASSUME NEW own, NEW ord, NEW n, Lists(own, ord, n), NEW own2, NEW q \in Processes,
           Same(q), Kept(own, own2, q), holder' = holder,
           \A x \in Entries : own2[x] = Queue <=> own[x] = Queue,
           \A x \in Entries : own[x] = Queue => next'[x] = next[x] /\ prev'[x] = prev[x]
    PROVE  ProcOK(own2, ord, q)'
<1>1. ProcOK(own, ord, q)
  BY DEF Lists, Shape
<1>2. cur[q] \in Pointers /\ last[q] \in Pointers /\ head[q] \in Pointers
  BY DEF Lists, ListType
<1>3. Held(own2, ord, q)'
  BY <1>1, <1>2 DEF ProcOK, Held, Same, Pointers
<1>4. Walked(own2, ord, q)'
  BY <1>1, <1>2 DEF ProcOK, Walked, Same, Pointers
<1>5. Closed(own2, ord, q)'
  BY <1>1, <1>2 DEF ProcOK, Closed, Same, Pointers
<1>6. Rounds(own2, q)'
  <2>1. pc[q] = "visit" => cur[q] \in Entries /\ own[cur[q]] = Queue
    BY <1>1, <1>2 DEF ProcOK, Walked, Pointers
  <2> QED  BY <1>1, <1>2, <2>1 DEF ProcOK, Rounds, Same, Pointers
<1>7. Dropping(own2, q)'
  BY <1>1 DEF ProcOK, Dropping, Same, Kept
<1> QED  BY <1>3, <1>4, <1>5, <1>6, <1>7 DEF ProcOK

(* A process without the flag, whatever happens to the queue. *)
LEMMA Bystander ==
    ASSUME NEW own, NEW ord, NEW n, Lists(own, ord, n), NEW own2, NEW ord2, NEW q \in Processes,
           pc[q] \notin Holding, Same(q), Kept(own, own2, q)
    PROVE  ProcOK(own2, ord2, q)'
<1>1. ProcOK(own, ord, q)
  BY DEF Lists, Shape
<1>2. Held(own2, ord2, q)' /\ Walked(own2, ord2, q)' /\ Closed(own2, ord2, q)'
  BY DEF Held, Walked, Closed, Same, Holding
<1>3. Rounds(own2, q)'
  BY <1>1 DEF ProcOK, Rounds, Same, Holding
<1>4. Dropping(own2, q)'
  BY <1>1 DEF ProcOK, Dropping, Same, Kept
<1> QED  BY <1>2, <1>3, <1>4 DEF ProcOK

(* A step of p that leaves the lists of the others alone. *)
LEMMA Assemble ==
    ASSUME NEW own, NEW ord, NEW n, Lists(own, ord, n), NEW p \in Processes,
           NEW own2 \in [Entries -> Owners], ListType',
           \A q \in Processes \ {p} : Same(q) /\ ProcOK(own2, ord, q)',
           \A q \in Processes \ {p}, x \in Entries : own2[x] = q <=> own[x] = q,
           Placed(own2, ord, n)', Linked(own2, ord)', Backed(own2)',
           IsTop(own2, ord, Queue, tail)', IsTop(own2, ord, p, Newest(p))',
           ProcOK(own2, ord, p)'
    PROVE  Lists(own2, ord, n)'
<1>1. ASSUME NEW q \in Processes, q # p PROVE IsTop(own2, ord, q, Newest(q))'
  <2>1. IsTop(own, ord, q, Newest(q))
    BY DEF Lists, Shape, Topped
  <2>2. Newest(q)' = Newest(q) /\ Newest(q) \in Pointers
    BY <1>1 DEF Same, Newest, Lists, ListType, Pointers
  <2>3. \A x \in Entries : own2[x] = q <=> own[x] = q
    BY <1>1
  <2> HIDE DEF Newest
  <2> QED  BY <2>1, <2>2, <2>3 DEF IsTop, Pointers
<1>2. Topped(own2, ord)'
  BY <1>1 DEF Topped
<1>3. \A q \in Processes : ProcOK(own2, ord, q)'
  OBVIOUS
<1>4. Shape(own2, ord, n)'
  BY <1>2, <1>3 DEF Shape
<1> QED  BY <1>4 DEF Lists

(* A step of the process that has the flag, on the same lists: what is     *)
(* left to show is about the links and about itself.                       *)
LEMMA HolderStep ==
    ASSUME NEW own, NEW ord, NEW n, Lists(own, ord, n), NEW p \in Processes,
           \A q \in Processes \ {p} : Same(q) /\ pc[q] \notin Holding, status' = status, tail' = tail,
           ListType', Linked(own, ord)', Backed(own)',
           IsTop(own, ord, p, Newest(p))', ProcOK(own, ord, p)'
    PROVE  Lists(own, ord, n)'
<1>1. own \in [Entries -> Owners]
  BY DEF Lists
<1>2. \A q \in Processes \ {p} : Kept(own, own, q)
  BY DEF Kept
<1>3. \A q \in Processes \ {p} : ProcOK(own, ord, q)'
  BY <1>2, Bystander
<1>4. Placed(own, ord, n)' /\ IsTop(own, ord, Queue, tail)'
  BY DEF Lists, Shape, Placed, Topped, IsTop
<1> QED  BY <1>1, <1>3, <1>4, Assemble

(* What a walk knows of the entry it has reached. *)
LEMMA Walker ==
    ASSUME NEW own, NEW ord, NEW n, Lists(own, ord, n), NEW p \in Processes,
           pc[p] \in {"scan", "setprev", "visit", "remove"}, pc[p] = "remove" => cur[p] # Null
    PROVE  /\ cur[p] \in Entries /\ own[cur[p]] = Queue /\ last[p] \in Entries /\ own[last[p]] = Queue
           /\ ord[cur[p]] \in Nat /\ ord[last[p]] \in Nat /\ ord[cur[p]] <= ord[last[p]]
<1>1. ProcOK(own, ord, p) /\ cur[p] \in Pointers /\ last[p] \in Pointers
  BY DEF Lists, Shape, ListType
<1>2. cur[p] # Null /\ own[cur[p]] = Queue /\ ord[cur[p]] <= ord[last[p]]
  BY <1>1 DEF ProcOK, Walked
<1>3. last[p] # Null /\ own[last[p]] = Queue
  BY <1>1 DEF ProcOK, Held, Holding
<1> QED  BY <1>1, <1>2, <1>3 DEF Pointers, Lists

(* The entry before one of the queue. *)
LEMMA Before ==
    ASSUME NEW own, NEW ord, NEW n, Lists(own, ord, n), NEW e \in Entries, own[e] # Null
    PROVE  /\ next[e] = Null => \A x \in Entries : own[x] = own[e] => ord[e] <= ord[x]
           /\ next[e] # Null =>
                 /\ next[e] \in Entries /\ own[next[e]] = own[e] /\ ord[next[e]] < ord[e]
                 /\ \A x \in Entries : own[x] = own[e] /\ ord[x] < ord[e] => ord[x] <= ord[next[e]]
                 /\ \A x \in Entries : own[x] = own[e] /\ ord[next[e]] < ord[x] => ord[e] <= ord[x]
<1>1. \A x \in Entries : ord[x] \in Nat
  BY DEF Lists
<1>2. ASSUME NEW x \in Entries, own[x] = own[e], ord[x] < ord[e]
      PROVE  next[e] # Null /\ ord[x] <= ord[next[e]]
  BY <1>2 DEF Lists, Shape, Linked
<1>3. next[e] # Null => next[e] \in Entries /\ own[next[e]] = own[e] /\ ord[next[e]] < ord[e]
  BY DEF Lists, Shape, Linked, ListType, Pointers
<1> QED  BY <1>1, <1>2, <1>3

(* A walk fills in the successor of the entry it is going to. *)
LEMMA Fill ==
    ASSUME NEW own, NEW ord, NEW n, Lists(own, ord, n), NEW e \in Entries, own[e] = Queue,
           next[e] # Null, prev' = Set(prev, next[e], e), next' = next
    PROVE  Backed(own)' /\ Linked(own, ord)'
<1>1. next[e] \in Entries
  BY DEF Lists, ListType, Pointers
<1>2. Linked(own, ord)'
  BY DEF Lists, Shape, Linked
<1>3. Backed(own)'
  BY <1>1 DEF Lists, Shape, Backed, Set, ListType
<1> QED  BY <1>2, <1>3

(* The links are not touched. *)
LEMMA LinksSame ==
    ASSUME NEW own, NEW ord, NEW n, Lists(own, ord, n), UNCHANGED links
    PROVE  Backed(own)' /\ Linked(own, ord)'
  BY DEF Lists, Shape, Backed, Linked, links

(* A list nobody is told of is empty. *)
LEMMA NothingTaken ==
    ASSUME NEW own, NEW ord, NEW n, Lists(own, ord, n), NEW p \in Processes,
           pc[p] \notin Telling \cup Ending
    PROVE  \A x \in Entries : own[x] # p
  BY DEF Lists, Shape, Topped, IsTop, Newest

LEMMA EmptyTop ==
    ASSUME NEW own, NEW ord, NEW p, \A x \in Entries : own[x] # p, Newest(p)' = Null
    PROVE  IsTop(own, ord, p, Newest(p))'
  BY DEF IsTop

(* The process that has the flag when another one has none. *)
LEMMA Alone ==
    ASSUME NEW own, NEW ord, NEW n, Lists(own, ord, n), NEW p \in Processes,
           pc[p] \in Holding \/ holder = Null
    PROVE  \A q \in Processes \ {p} : pc[q] \notin Holding
  BY OneHolder, NoHolder

LEMMA ScanStep ==
    ASSUME NEW own, NEW ord, NEW n, Lists(own, ord, n), NEW p \in Processes, Scan(p)
    PROVE  Lists(own, ord, n)'
<1> DEFINE e == cur[p]
<1>1. pc[p] = "scan" /\ pc[p] \in Holding /\ ProcOK(own, ord, p) /\ ListType
  BY DEF Scan, Holding, Lists, Shape
<1>2. /\ e \in Entries /\ own[e] = Queue /\ last[p] \in Entries /\ own[last[p]] = Queue
      /\ ord[e] \in Nat /\ ord[last[p]] \in Nat /\ ord[e] <= ord[last[p]] /\ own[e] # Null
      /\ \A x \in Entries : ord[x] \in Nat
  BY <1>1, Walker, NamesApart DEF Lists
<1>3. \A q \in Processes \ {p} : Same(q) /\ pc[q] \notin Holding
  BY <1>1, Alone DEF Same, Scan, Set, Goto, ListType
<1>4. \A x \in Entries : own[x] # p
  BY <1>1, NothingTaken DEF Telling, Ending
<1>5. ProcOK(own, ord, p)
  BY <1>1
<1>6. /\ holder = p /\ resolved[p] = Null
      /\ \A x \in Entries : own[x] = Queue /\ ord[last[p]] <= ord[x] => prev[x] = Null
      /\ \A x \in Entries : own[x] = Queue /\ ord[e] <= ord[x] /\ ord[x] < ord[last[p]] => prev[x] # Null
  BY <1>1, <1>2, NamesApart DEF ProcOK, Held, Walked, Rounds
<1>7. CASE next[e] = Null
  <2>1. /\ pc' = [pc EXCEPT ![p] = "visit"] /\ cur' = [cur EXCEPT ![p] = e]
        /\ head' = [head EXCEPT ![p] = e]
        /\ UNCHANGED <<tail, holder, links, status, last, resolved, missing>>
    BY <1>7 DEF Scan, Set, Goto, links
  <2>2. ListType'
    BY <1>1, <1>2, <2>1 DEF ListType, Labels, Pointers, links
  <2>3. Backed(own)' /\ Linked(own, ord)'
    BY <2>1, LinksSame
  <2>4. /\ pc'[p] = "visit" /\ cur'[p] = e /\ last'[p] = last[p] /\ resolved'[p] = Null
        /\ holder' = p /\ next' = next /\ prev' = prev /\ missing' = missing /\ status' = status
    BY <1>1, <1>6, <2>1 DEF ListType, links
  <2>5. \A x \in Entries : own[x] = Queue => ord[e] <= ord[x]
    BY <1>2, <1>7, Before
  <2>6. Held(own, ord, p)' /\ Closed(own, ord, p)' /\ Rounds(own, p)'
    BY <1>2, <1>6, <1>7, <2>4, NamesApart DEF Held, Closed, Rounds
  <2>7. Walked(own, ord, p)'
    BY <1>2, <1>6, <2>4, <2>5, NamesApart DEF Walked
  <2>8. Dropping(own, p)'
    BY <1>1, <2>4 DEF ProcOK, Dropping, Holding
  <2>9. ProcOK(own, ord, p)'
    BY <2>6, <2>7, <2>8 DEF ProcOK
  <2>10. IsTop(own, ord, p, Newest(p))'
    BY <1>4, <2>4, EmptyTop DEF Newest, Telling, Ending
  <2> QED  BY <1>3, <2>1, <2>2, <2>3, <2>9, <2>10, HolderStep
<1>8. CASE next[e] # Null
  <2> DEFINE m == next[e]
  <2>1. /\ prev' = Set(prev, m, e) /\ cur' = [cur EXCEPT ![p] = m] /\ head' = [head EXCEPT ![p] = e]
        /\ UNCHANGED <<pc, tail, holder, next, status, last, resolved, missing>>
    BY <1>8 DEF Scan, Set, Goto
  <2>2. /\ m \in Entries /\ own[m] = Queue /\ ord[m] < ord[e]
        /\ \A x \in Entries : own[x] = Queue /\ ord[m] < ord[x] => ord[e] <= ord[x]
    BY <1>2, <1>8, Before
  <2>3. ListType'
    BY <1>1, <1>2, <2>1, <2>2 DEF ListType, Pointers, Set
  <2>4. Backed(own)' /\ Linked(own, ord)'
    BY <1>2, <1>8, <2>1, Fill
  <2>5. /\ pc'[p] = "scan" /\ cur'[p] = m /\ last'[p] = last[p] /\ resolved'[p] = Null
        /\ holder' = p /\ next' = next /\ missing' = missing /\ status' = status
        /\ prev' = [prev EXCEPT ![m] = e]
    BY <1>1, <1>6, <2>1 DEF ListType, Set
  <2>6. \A x \in Entries : prev'[x] = IF x = m THEN e ELSE prev[x]
    BY <1>1, <2>5 DEF ListType
  <2>7. \A x \in Entries : own[x] = Queue /\ ord[m] = ord[x] => x = m
    BY <2>2, NamesApart DEF Lists, Shape, Placed
  <2>8. Held(own, ord, p)'
    BY <1>2, <1>6, <2>2, <2>5, <2>6, NamesApart DEF Held
  <2>9. Walked(own, ord, p)'
    <3>1. ASSUME NEW x \in Entries, own[x] = Queue, ord[m] <= ord[x], ord[x] < ord[last[p]]
          PROVE  prev'[x] # Null
      <4>1. CASE x = m
        BY <4>1, <1>2, <2>6, NamesApart
      <4>2. CASE x # m
        <5>1. ord[e] <= ord[x]
          BY <3>1, <4>2, <1>2, <2>2, <2>7
        <5> QED  BY <3>1, <4>2, <5>1, <1>6, <2>6
      <4> QED  BY <4>1, <4>2
    <3>2. m # Null /\ ord[m] <= ord[last[p]]
      BY <1>2, <2>2, NamesApart
    <3> QED  BY <2>2, <2>5, <3>1, <3>2 DEF Walked
  <2>10. Closed(own, ord, p)' /\ Rounds(own, p)'
    BY <2>5 DEF Closed, Rounds
  <2>11. Dropping(own, p)'
    BY <1>1, <2>5 DEF ProcOK, Dropping
  <2>12. ProcOK(own, ord, p)'
    BY <2>8, <2>9, <2>10, <2>11 DEF ProcOK
  <2>13. IsTop(own, ord, p, Newest(p))'
    BY <1>4, <2>5, EmptyTop DEF Newest, Telling, Ending
  <2> QED  BY <1>3, <2>1, <2>3, <2>4, <2>12, <2>13, HolderStep
<1> QED  BY <1>7, <1>8

(* What the process that has the flag knows of the tail it has read. *)
LEMMA Reader ==
    ASSUME NEW own, NEW ord, NEW n, Lists(own, ord, n), NEW p \in Processes, pc[p] \in Holding
    PROVE  /\ holder = p /\ last[p] \in Entries /\ own[last[p]] = Queue /\ last[p] # Null
           /\ \A x \in Entries : own[x] = Queue /\ ord[last[p]] <= ord[x] => prev[x] = Null
           /\ \A x \in Entries : ord[x] \in Nat
<1>1. Held(own, ord, p) /\ last[p] \in Pointers /\ ord \in [Entries -> Nat]
  BY DEF Lists, Shape, ProcOK, ListType
<1> QED  BY <1>1 DEF Held, Pointers

(* The clauses about the links of a process hold of a new walk from the    *)
(* tail it has read.                                                       *)
LEMMA NewWalk ==
    ASSUME NEW own, NEW ord, ord \in [Entries -> Nat], NEW p, last'[p] \in Entries,
           own[last'[p]] = Queue, pc'[p] \in {"scan", "remove"}, cur'[p] = last'[p],
           holder' = p, resolved'[p] = Null,
           \A x \in Entries : own[x] = Queue /\ ord[last'[p]] <= ord[x] => prev'[x] = Null
    PROVE  (Held(own, ord, p) /\ Walked(own, ord, p) /\ Closed(own, ord, p) /\ Rounds(own, p))'
<1>1. last'[p] # Null /\ ord[last'[p]] \in Nat /\ \A x \in Entries : ord[x] \in Nat
  BY NamesApart
<1>2. Held(own, ord, p)'
  BY <1>1 DEF Held
<1>3. Walked(own, ord, p)'
  BY <1>1 DEF Walked
<1>4. Closed(own, ord, p)' /\ Rounds(own, p)'
  BY DEF Closed, Rounds
<1> QED  BY <1>2, <1>3, <1>4

LEMMA SetPrevStep ==
    ASSUME NEW own, NEW ord, NEW n, Lists(own, ord, n), NEW p \in Processes, SetPrev(p)
    PROVE  Lists(own, ord, n)'
<1> DEFINE e == cur[p]
           m == next[e]
<1>1. pc[p] = "setprev" /\ pc[p] \in Holding /\ ProcOK(own, ord, p) /\ ListType
  BY DEF SetPrev, Holding, Lists, Shape
<1>2. /\ e \in Entries /\ own[e] = Queue /\ last[p] \in Entries /\ own[last[p]] = Queue
      /\ ord[e] \in Nat /\ ord[last[p]] \in Nat /\ ord[e] <= ord[last[p]] /\ own[e] # Null
      /\ \A x \in Entries : ord[x] \in Nat
  BY <1>1, Walker, NamesApart DEF Lists
<1>3. \A q \in Processes \ {p} : Same(q) /\ pc[q] \notin Holding
  BY <1>1, Alone DEF Same, SetPrev, Set, Goto, ListType
<1>4. \A x \in Entries : own[x] # p
  BY <1>1, NothingTaken DEF Telling, Ending
<1>5. /\ holder = p /\ resolved[p] = Null
      /\ \A x \in Entries : own[x] = Queue /\ ord[last[p]] <= ord[x] => prev[x] = Null
      /\ \A x \in Entries : own[x] = Queue /\ ord[e] <= ord[x] /\ ord[x] < ord[last[p]] => prev[x] # Null
  BY <1>1, <1>2, NamesApart DEF ProcOK, Held, Walked, Rounds
<1>6. /\ head[p] \in Entries /\ own[head[p]] = Queue /\ next[head[p]] = Null
      /\ \A x \in Entries : own[x] = Queue => ord[head[p]] <= ord[x]
  <2>1. head[p] \in Entries /\ own[head[p]] = Queue /\ next[head[p]] = Null
    BY <1>1 DEF ProcOK, Rounds, ListType, Pointers
  <2> QED  BY <2>1, Before, NamesApart
<1>7. \A x, y \in Entries : own[x] = Queue /\ own[y] = Queue /\ ord[y] < ord[x] /\ prev[x] # Null
                            /\ ord[x] < ord[e] => prev[y] # Null
  BY <1>1 DEF ProcOK, Closed
<1>8. CASE m # Null /\ prev[m] = Null
  <2>1. /\ prev' = Set(prev, m, e) /\ cur' = [cur EXCEPT ![p] = m]
        /\ UNCHANGED <<pc, tail, holder, next, status, head, last, resolved, missing>>
    BY <1>8 DEF SetPrev, Set, Goto
  <2>2. /\ m \in Entries /\ own[m] = Queue /\ ord[m] < ord[e] /\ ord[m] \in Nat
        /\ \A x \in Entries : own[x] = Queue /\ ord[m] < ord[x] => ord[e] <= ord[x]
    BY <1>2, <1>8, Before
  <2>3. ListType'
    BY <1>1, <1>2, <2>1, <2>2 DEF ListType, Pointers, Set
  <2>4. Backed(own)' /\ Linked(own, ord)'
    BY <1>2, <1>8, <2>1, Fill
  <2>5. /\ pc'[p] = "setprev" /\ cur'[p] = m /\ last'[p] = last[p] /\ resolved'[p] = Null
        /\ head'[p] = head[p] /\ holder' = p /\ next' = next /\ missing' = missing /\ status' = status
    BY <1>1, <1>5, <2>1 DEF ListType, Set
  <2>6. \A x \in Entries : prev'[x] = IF x = m THEN e ELSE prev[x]
    BY <1>1, <2>1 DEF ListType, Set
  <2>7. \A x \in Entries : own[x] = Queue /\ ord[m] = ord[x] => x = m
    BY <2>2, NamesApart DEF Lists, Shape, Placed
  <2>8. Held(own, ord, p)'
    BY <1>2, <1>5, <2>2, <2>5, <2>6, NamesApart DEF Held
  <2>9. Walked(own, ord, p)'
    <3>1. ASSUME NEW x \in Entries, own[x] = Queue, ord[m] <= ord[x], ord[x] < ord[last[p]]
          PROVE  prev'[x] # Null
      <4>1. CASE x = m
        BY <4>1, <1>2, <2>6, NamesApart
      <4>2. CASE x # m
        <5>1. ord[e] <= ord[x]
          BY <3>1, <4>2, <1>2, <2>2, <2>7
        <5> QED  BY <3>1, <4>2, <5>1, <1>5, <2>6
      <4> QED  BY <4>1, <4>2
    <3>2. m # Null /\ ord[m] <= ord[last[p]]
      BY <1>2, <2>2, NamesApart
    <3> QED  BY <2>2, <2>5, <3>1, <3>2 DEF Walked
  <2>10. Closed(own, ord, p)'
    <3>1. ASSUME NEW x \in Entries, NEW y \in Entries, own[x] = Queue, own[y] = Queue,
                 ord[y] < ord[x], prev'[x] # Null, ord[x] < ord[m]
          PROVE  prev'[y] # Null
      <4>1. x # m /\ y # m /\ ord[x] < ord[e]
        BY <1>2, <2>2, <3>1
      <4> QED  BY <4>1, <3>1, <1>7, <2>6
    <3> QED  BY <2>5, <3>1 DEF Closed
  <2>11. Rounds(own, p)'
    BY <1>6, <2>5, NamesApart DEF Rounds
  <2>12. Dropping(own, p)'
    BY <1>1, <2>5 DEF ProcOK, Dropping
  <2>13. ProcOK(own, ord, p)'
    BY <2>8, <2>9, <2>10, <2>11, <2>12 DEF ProcOK
  <2>14. IsTop(own, ord, p, Newest(p))'
    BY <1>4, <2>5, EmptyTop DEF Newest, Telling, Ending
  <2> QED  BY <1>3, <2>1, <2>3, <2>4, <2>13, <2>14, HolderStep
<1>9. CASE ~(m # Null /\ prev[m] = Null)
  <2>1. /\ pc' = [pc EXCEPT ![p] = "visit"] /\ cur' = [cur EXCEPT ![p] = head[p]]
        /\ UNCHANGED <<tail, holder, links, status, head, last, resolved, missing>>
    BY <1>9 DEF SetPrev, Set, Goto, links
  <2>2. ListType'
    BY <1>1, <1>6, <2>1 DEF ListType, Labels, Pointers, links
  <2>3. Backed(own)' /\ Linked(own, ord)'
    BY <2>1, LinksSame
  <2>4. /\ pc'[p] = "visit" /\ cur'[p] = head[p] /\ last'[p] = last[p] /\ resolved'[p] = Null
        /\ holder' = p /\ next' = next /\ prev' = prev /\ missing' = missing /\ status' = status
    BY <1>1, <1>5, <2>1 DEF ListType, links
  <2>5. ASSUME NEW x \in Entries, own[x] = Queue, ord[x] < ord[last[p]] PROVE prev[x] # Null
    <3>1. CASE ord[e] <= ord[x]
      BY <1>5, <2>5, <3>1
    <3>2. CASE ~(ord[e] <= ord[x])
      <4>1. ord[x] < ord[e]
        BY <1>2, <3>2
      <4>2. m # Null
        BY <1>2, <2>5, <3>2, Before
      <4>3. m \in Entries /\ own[m] = Queue /\ ord[m] < ord[e] /\ ord[x] <= ord[m] /\ prev[m] # Null
        BY <1>2, <1>9, <2>5, <4>1, <4>2, Before
      <4>4. CASE ord[x] = ord[m]
        <5>1. x = m
          BY <2>5, <4>3, <4>4, NamesApart DEF Lists, Shape, Placed
        <5> QED  BY <5>1, <4>3
      <4>5. CASE ord[x] < ord[m]
        BY <1>7, <2>5, <4>3, <4>5
      <4> QED  BY <1>2, <4>3, <4>4, <4>5
    <3> QED  BY <3>1, <3>2
  <2>6. Held(own, ord, p)' /\ Closed(own, ord, p)' /\ Rounds(own, p)'
    BY <1>2, <1>5, <1>6, <2>4, NamesApart DEF Held, Closed, Rounds
  <2>7. Walked(own, ord, p)'
    BY <1>2, <1>6, <2>4, <2>5, NamesApart DEF Walked
  <2>8. Dropping(own, p)'
    BY <1>1, <2>4 DEF ProcOK, Dropping, Holding
  <2>9. ProcOK(own, ord, p)'
    BY <2>6, <2>7, <2>8 DEF ProcOK
  <2>10. IsTop(own, ord, p, Newest(p))'
    BY <1>4, <2>4, EmptyTop DEF Newest, Telling, Ending
  <2> QED  BY <1>3, <2>1, <2>2, <2>3, <2>9, <2>10, HolderStep
<1> QED  BY <1>8, <1>9

LEMMA VisitStep ==
    ASSUME NEW own, NEW ord, NEW n, Lists(own, ord, n), NEW p \in Processes, Visit(p)
    PROVE  Lists(own, ord, n)'
<1> DEFINE e == cur[p]
           f == prev[e]
<1>1. pc[p] = "visit" /\ pc[p] \in Holding /\ ProcOK(own, ord, p) /\ ListType /\ f # Null
  BY DEF Visit, Holding, Lists, Shape
<1>2. /\ e \in Entries /\ own[e] = Queue /\ last[p] \in Entries /\ own[last[p]] = Queue
      /\ ord[e] \in Nat /\ ord[last[p]] \in Nat /\ ord[e] <= ord[last[p]] /\ own[e] # Null
      /\ \A x \in Entries : ord[x] \in Nat
  BY <1>1, Walker, NamesApart DEF Lists
<1>3. \A q \in Processes \ {p} : Same(q) /\ pc[q] \notin Holding
  BY <1>1, Alone DEF Same, Visit, Set, ListType
<1>4. \A x \in Entries : own[x] # p
  BY <1>1, NothingTaken DEF Telling, Ending
<1>5. f \in Entries /\ own[f] = Queue /\ next[f] = e
  BY <1>1, <1>2 DEF ListType, Pointers, Lists, Shape, Backed
<1>6. ord[f] <= ord[last[p]]
  <2>1. ~(ord[last[p]] <= ord[e])
    BY <1>1, <1>2 DEF ProcOK, Held
  <2>2. e # Null /\ own[f] # Null
    BY <1>2, <1>5, NamesApart
  <2>3. ord[next[f]] < ord[last[p]] /\ own[last[p]] = own[f]
    BY <1>2, <1>5, <2>1
  <2> QED  BY <1>2, <1>5, <2>2, <2>3, Before
<1>7. /\ pc' = pc /\ cur'[p] = f /\ resolved'[p] = e /\ last' = last /\ holder' = holder
      /\ UNCHANGED <<tail, links, status, missing, head>>
      /\ next' = next /\ prev' = prev
  BY <1>1 DEF Visit, Set, ListType, links
<1>8. ListType'
  BY <1>1, <1>2, <1>5, <1>7 DEF ListType, Visit, Set, Pointers
<1>9. Backed(own)' /\ Linked(own, ord)'
  BY <1>7, LinksSame
<1>10. Held(own, ord, p)' /\ Closed(own, ord, p)' /\ Rounds(own, p)'
  BY <1>1, <1>5, <1>7 DEF ProcOK, Held, Closed, Rounds
<1>11. Walked(own, ord, p)'
  BY <1>1, <1>2, <1>5, <1>6, <1>7, NamesApart DEF ProcOK, Walked
<1>12. Dropping(own, p)'
  BY <1>1, <1>7 DEF ProcOK, Dropping
<1>13. ProcOK(own, ord, p)'
  BY <1>10, <1>11, <1>12 DEF ProcOK
<1>14. IsTop(own, ord, p, Newest(p))'
  BY <1>1, <1>4, <1>7, EmptyTop DEF Newest, Telling, Ending
<1> QED  BY <1>3, <1>7, <1>8, <1>9, <1>13, <1>14, HolderStep

LEMMA UnlockStep ==
    ASSUME NEW own, NEW ord, NEW n, Lists(own, ord, n), NEW p \in Processes,
           Unlock(p) \/ UnlockFailed(p)
    PROVE  Lists(own, ord, n)'
<1>1. pc[p] = "unlock" /\ pc[p] \in Holding /\ ProcOK(own, ord, p) /\ ListType
  BY DEF Unlock, UnlockFailed, Holding, Lists, Shape
<1>2. \A q \in Processes \ {p} : Same(q) /\ pc[q] \notin Holding
  BY <1>1, Alone DEF Same, Unlock, UnlockFailed, Set, Goto, ListType, locals
<1>3. IsTop(own, ord, p, resolved[p])
  <2>1. Newest(p) = resolved[p]
    BY <1>1 DEF Newest, Telling, Ending
  <2> QED  BY <2>1 DEF Lists, Shape, Topped
<1>4. resolved[p] \in Pointers /\ Null \in Pointers
  BY <1>1 DEF ListType, Pointers
<1>5. CASE Unlock(p)
  <2>1. /\ pc'[p] = "tell_done" /\ cur'[p] = resolved[p] /\ resolved'[p] = Null
        /\ UNCHANGED <<tail, links, status, missing>>
    BY <1>1, <1>5 DEF Unlock, Goto, Set, ListType
  <2>2. ListType'
    BY <1>1, <1>4, <1>5 DEF Unlock, Goto, Set, ListType, Labels, links
  <2>3. Backed(own)' /\ Linked(own, ord)'
    BY <2>1, LinksSame
  <2>4. ProcOK(own, ord, p)'
    BY <1>1, <2>1 DEF ProcOK, Held, Walked, Closed, Rounds, Dropping, Holding
  <2>5. Newest(p)' = resolved[p]
    BY <2>1 DEF Newest, Telling
  <2>6. IsTop(own, ord, p, Newest(p))'
    BY <1>3, <2>5 DEF IsTop
  <2> QED  BY <1>2, <2>1, <2>2, <2>3, <2>4, <2>6, HolderStep
<1>6. CASE UnlockFailed(p)
  <2>1. /\ pc'[p] = "add" /\ UNCHANGED <<tail, holder, links, status, locals>>
        /\ cur' = cur /\ head' = head /\ last' = last /\ resolved' = resolved /\ missing' = missing
        /\ next' = next /\ prev' = prev
    BY <1>1, <1>6 DEF UnlockFailed, Goto, Set, ListType, locals, links
  <2>2. ListType'
    BY <1>1, <1>6, <2>1 DEF UnlockFailed, Goto, Set, ListType, Labels
  <2>3. Backed(own)' /\ Linked(own, ord)'
    BY <2>1, LinksSame
  <2>4. ProcOK(own, ord, p)'
    BY <1>1, <2>1 DEF ProcOK, Held, Walked, Closed, Rounds, Dropping, Holding
  <2>5. Newest(p)' = resolved[p]
    BY <2>1 DEF Newest, Telling, Ending
  <2>6. IsTop(own, ord, p, Newest(p))'
    BY <1>3, <2>5 DEF IsTop
  <2> QED  BY <1>2, <2>1, <2>2, <2>3, <2>4, <2>6, HolderStep
<1> QED  BY <1>5, <1>6

LEMMA AddStep ==
    ASSUME NEW own, NEW ord, NEW n, Lists(own, ord, n), NEW p \in Processes, Add(p)
    PROVE  Lists(own, ord, n)'
<1>1. pc[p] = "add" /\ pc[p] \in Holding /\ ProcOK(own, ord, p) /\ ListType
  BY DEF Add, Holding, Lists, Shape
<1>2. \A q \in Processes \ {p} : Same(q) /\ pc[q] \notin Holding
  BY <1>1, Alone DEF Same, Add, Set, Goto, ListType
<1>3. IsTop(own, ord, p, resolved[p])
  <2>1. Newest(p) = resolved[p]
    BY <1>1 DEF Newest, Telling, Ending
  <2> QED  BY <2>1 DEF Lists, Shape, Topped
<1>4. /\ holder = p /\ last[p] \in Entries /\ own[last[p]] = Queue
      /\ \A x \in Entries : own[x] = Queue /\ ord[last[p]] <= ord[x] => prev[x] = Null
      /\ \A x \in Entries : ord[x] \in Nat
  BY <1>1, Reader
<1>5. tail # Null
  BY <1>4 DEF Lists, Shape, Topped, IsTop
<1>6. /\ tail \in Entries /\ own[tail] = Queue /\ prev[tail] = Null
      /\ \A x \in Entries : own[x] = Queue /\ ord[tail] <= ord[x] => x = tail
  BY <1>5, TailPrev
<1>7. /\ pc'[p] = "tell_more" /\ cur'[p] = resolved[p] /\ resolved'[p] = Null /\ last'[p] = tail
      /\ UNCHANGED <<tail, holder, links, status, head, missing>>
      /\ next' = next /\ prev' = prev
  BY <1>1 DEF Add, Goto, Set, ListType, links
<1>8. ListType'
  BY <1>1, <1>7 DEF Add, Goto, Set, ListType, Labels, Pointers
<1>9. Backed(own)' /\ Linked(own, ord)'
  BY <1>7, LinksSame
<1>10. Held(own, ord, p)'
  BY <1>4, <1>5, <1>6, <1>7 DEF Held
<1>11. Walked(own, ord, p)'
  BY <1>7 DEF Walked
<1>12. Closed(own, ord, p)'
  <2>1. ASSUME NEW x \in Entries, NEW y \in Entries, own[x] = Queue, own[y] = Queue,
               ord[y] < ord[x], prev[x] # Null
        PROVE  prev[y] # Null
    <3>1. ord[x] < ord[last[p]]
      BY <1>4, <2>1
    <3>2. ord[y] < ord[last[p]]
      BY <1>4, <2>1, <3>1
    <3> QED  BY <1>1, <2>1, <3>2 DEF ProcOK, Walked
  <2> QED  BY <1>7, <2>1 DEF Closed
<1>13. Rounds(own, p)' /\ Dropping(own, p)'
  BY <1>1, <1>7 DEF ProcOK, Rounds, Dropping, Holding
<1>14. ProcOK(own, ord, p)'
  BY <1>10, <1>11, <1>12, <1>13 DEF ProcOK
<1>15. Newest(p)' = resolved[p]
  BY <1>7 DEF Newest, Telling
<1>16. IsTop(own, ord, p, Newest(p))'
  BY <1>3, <1>15 DEF IsTop
<1> QED  BY <1>2, <1>7, <1>8, <1>9, <1>14, <1>16, HolderStep

LEMMA ContinueStep ==
    ASSUME NEW own, NEW ord, NEW n, Lists(own, ord, n), NEW p \in Processes, Continue(p)
    PROVE  Lists(own, ord, n)'
<1>1. pc[p] = "tell_more" /\ cur[p] = Null /\ pc[p] \in Holding /\ ProcOK(own, ord, p) /\ ListType
  BY DEF Continue, Holding, Lists, Shape
<1>2. \A q \in Processes \ {p} : Same(q) /\ pc[q] \notin Holding
  BY <1>1, Alone DEF Same, Continue, Set, Goto, ListType
<1>3. \A x \in Entries : own[x] # p
  <2>1. Newest(p) = Null
    BY <1>1 DEF Newest, Telling
  <2> QED  BY <2>1 DEF Lists, Shape, Topped, IsTop
<1>4. /\ holder = p /\ last[p] \in Entries /\ own[last[p]] = Queue /\ last[p] # Null
      /\ \A x \in Entries : ord[x] \in Nat
  BY <1>1, Reader
<1>5. /\ pc'[p] = "setprev" /\ cur'[p] = last[p]
      /\ UNCHANGED <<tail, holder, links, status, head, last, resolved, missing>>
      /\ next' = next /\ prev' = prev
  BY <1>1 DEF Continue, Goto, Set, ListType, links
<1>6. ListType'
  BY <1>1, <1>4, <1>5 DEF Continue, Goto, Set, ListType, Labels, Pointers
<1>7. Backed(own)' /\ Linked(own, ord)'
  BY <1>5, LinksSame
<1>8. Held(own, ord, p)' /\ Rounds(own, p)' /\ Dropping(own, p)'
  BY <1>1, <1>5 DEF ProcOK, Held, Rounds, Dropping, Holding
<1>9. Walked(own, ord, p)'
  BY <1>4, <1>5 DEF Walked
<1>10. Closed(own, ord, p)'
  BY <1>1, <1>5 DEF ProcOK, Closed
<1>11. ProcOK(own, ord, p)'
  BY <1>8, <1>9, <1>10 DEF ProcOK
<1>12. IsTop(own, ord, p, Newest(p))'
  BY <1>3, <1>5, EmptyTop DEF Newest, Telling, Ending
<1> QED  BY <1>2, <1>5, <1>6, <1>7, <1>11, <1>12, HolderStep

LEMMA LockStep ==
    ASSUME NEW own, NEW ord, NEW n, Lists(own, ord, n), NEW p \in Processes,
           Lock(p) \/ DropLock(p), p \in Droppers <=> DropLock(p)
    PROVE  Lists(own, ord, n)'
<1>1. /\ pc[p] \in {"idle", "drop"} /\ holder = Null /\ tail # Null /\ ProcOK(own, ord, p) /\ ListType
      /\ DropLock(p) => pc[p] = "drop"
  BY DEF Lock, DropLock, Lists, Shape
<1>2. \A q \in Processes \ {p} : Same(q) /\ pc[q] \notin Holding
  BY <1>1, Alone DEF Same, Lock, DropLock, Set, Goto, ListType
<1>3. \A x \in Entries : own[x] # p
  BY <1>1, NothingTaken DEF Telling, Ending
<1>4. /\ tail \in Entries /\ own[tail] = Queue /\ prev[tail] = Null
      /\ \A x \in Entries : own[x] = Queue /\ ord[tail] <= ord[x] => x = tail
      /\ ord \in [Entries -> Nat]
  BY <1>1, TailPrev DEF Lists
<1>5. /\ pc'[p] \in {"scan", "remove"} /\ cur'[p] = tail /\ last'[p] = tail
      /\ holder' = p /\ UNCHANGED <<tail, links, status, head, resolved, missing>>
      /\ next' = next /\ prev' = prev
      /\ DropLock(p) => pc'[p] = "remove"
  BY <1>1 DEF Lock, DropLock, Goto, Set, ListType, links
<1>6. ListType'
  BY <1>1, <1>5 DEF Lock, DropLock, Goto, Set, ListType, Labels, Pointers
<1>7. Backed(own)' /\ Linked(own, ord)'
  BY <1>5, LinksSame
<1>8. resolved'[p] = Null
  BY <1>1, <1>5 DEF ProcOK, Rounds
<1>9. Held(own, ord, p)' /\ Walked(own, ord, p)' /\ Closed(own, ord, p)' /\ Rounds(own, p)'
  <2>1. /\ last'[p] \in Entries /\ own[last'[p]] = Queue /\ cur'[p] = last'[p]
        /\ \A x \in Entries : own[x] = Queue /\ ord[last'[p]] <= ord[x] => prev'[x] = Null
    BY <1>4, <1>5
  <2> QED  BY <1>4, <1>5, <1>8, <2>1, NewWalk
<1>10. Dropping(own, p)'
  BY <1>1, <1>5 DEF ProcOK, Dropping
<1>11. ProcOK(own, ord, p)'
  BY <1>9, <1>10 DEF ProcOK
<1>12. IsTop(own, ord, p, Newest(p))'
  BY <1>3, <1>5, EmptyTop DEF Newest, Telling, Ending
<1> QED  BY <1>2, <1>5, <1>6, <1>7, <1>11, <1>12, HolderStep

LEMMA RemoveSkipStep ==
    ASSUME NEW own, NEW ord, NEW n, Lists(own, ord, n), NEW p \in Droppers, RemoveSkip(p)
    PROVE  Lists(own, ord, n)'
<1> DEFINE e == cur[p]
           m == next[e]
<1>1. /\ pc[p] = "remove" /\ e # Null /\ pc[p] \in Holding /\ ProcOK(own, ord, p) /\ ListType
      /\ p \in Processes
  BY NamesApart DEF RemoveSkip, Holding, Lists, Shape
<1>2. /\ e \in Entries /\ own[e] = Queue /\ last[p] \in Entries /\ own[last[p]] = Queue
      /\ ord[e] \in Nat /\ ord[last[p]] \in Nat /\ ord[e] <= ord[last[p]] /\ own[e] # Null
      /\ \A x \in Entries : ord[x] \in Nat
  BY <1>1, Walker, NamesApart DEF Lists
<1>3. \A q \in Processes \ {p} : Same(q) /\ pc[q] \notin Holding
  BY <1>1, Alone DEF Same, RemoveSkip, Set, ListType
<1>4. \A x \in Entries : own[x] # p
  BY <1>1, NothingTaken DEF Telling, Ending
<1>5. /\ holder = p /\ resolved[p] = Null
      /\ \A x \in Entries : own[x] = Queue /\ ord[last[p]] <= ord[x] => prev[x] = Null
      /\ \A x \in Entries : own[x] = Queue /\ ord[e] <= ord[x] /\ ord[x] < ord[last[p]] => prev[x] # Null
  BY <1>1, <1>2 DEF ProcOK, Held, Walked, Rounds
<1>6. /\ pc'[p] = "remove" /\ cur'[p] = m /\ last'[p] = last[p] /\ resolved'[p] = Null
      /\ holder' = p /\ next' = next /\ UNCHANGED <<tail, status, missing, pc>>
  BY <1>1, <1>5 DEF RemoveSkip, Set, ListType
<1>7. IsTop(own, ord, p, Newest(p))'
  BY <1>4, <1>6, EmptyTop DEF Newest, Telling, Ending
<1>8. Dropping(own, p)' /\ Closed(own, ord, p)' /\ Rounds(own, p)'
  BY <1>1, <1>6 DEF ProcOK, Dropping, Closed, Rounds
<1>9. CASE m = Null
  <2>1. prev' = prev /\ UNCHANGED links
    BY <1>6, <1>9 DEF RemoveSkip, SetNext, links
  <2>2. ListType'
    BY <1>1, <1>9, <2>1 DEF RemoveSkip, Set, ListType, Pointers
  <2>3. Backed(own)' /\ Linked(own, ord)'
    BY <2>1, LinksSame
  <2>4. Held(own, ord, p)' /\ Walked(own, ord, p)'
    BY <1>1, <1>6, <1>9, <2>1 DEF ProcOK, Held, Walked
  <2>5. ProcOK(own, ord, p)'
    BY <1>8, <2>4 DEF ProcOK
  <2> QED  BY <1>1, <1>3, <1>6, <1>7, <2>2, <2>3, <2>5, HolderStep
<1>10. CASE m # Null
  <2>1. prev' = Set(prev, m, e)
    BY <1>10 DEF RemoveSkip, SetNext
  <2>2. /\ m \in Entries /\ own[m] = Queue /\ ord[m] < ord[e] /\ ord[m] \in Nat
        /\ \A x \in Entries : own[x] = Queue /\ ord[m] < ord[x] => ord[e] <= ord[x]
    BY <1>2, <1>10, Before
  <2>3. ListType'
    BY <1>1, <1>2, <2>1, <2>2 DEF RemoveSkip, ListType, Pointers, Set
  <2>4. Backed(own)' /\ Linked(own, ord)'
    BY <1>2, <1>6, <1>10, <2>1, Fill
  <2>5. \A x \in Entries : prev'[x] = IF x = m THEN e ELSE prev[x]
    BY <1>1, <2>1 DEF ListType, Set
  <2>6. \A x \in Entries : own[x] = Queue /\ ord[m] = ord[x] => x = m
    BY <2>2, NamesApart DEF Lists, Shape, Placed
  <2>7. Held(own, ord, p)'
    BY <1>2, <1>5, <1>6, <2>2, <2>5, NamesApart DEF Held
  <2>8. Walked(own, ord, p)'
    <3>1. ASSUME NEW x \in Entries, own[x] = Queue, ord[m] <= ord[x], ord[x] < ord[last[p]]
          PROVE  prev'[x] # Null
      <4>1. CASE x = m
        BY <4>1, <1>1, <2>5
      <4>2. CASE x # m
        <5>1. ord[e] <= ord[x]
          BY <3>1, <4>2, <1>2, <2>2, <2>6
        <5> QED  BY <3>1, <4>2, <5>1, <1>5, <2>5
      <4> QED  BY <4>1, <4>2
    <3>2. m # Null /\ ord[m] <= ord[last[p]]
      BY <1>2, <1>10, <2>2
    <3> QED  BY <2>2, <1>6, <3>1, <3>2 DEF Walked
  <2>9. ProcOK(own, ord, p)'
    BY <1>8, <2>7, <2>8 DEF ProcOK
  <2> QED  BY <1>1, <1>3, <1>6, <1>7, <2>3, <2>4, <2>9, HolderStep
<1> QED  BY <1>9, <1>10

LEMMA RemoveRetryStep ==
    ASSUME NEW own, NEW ord, NEW n, Lists(own, ord, n), NEW p \in Droppers, RemoveRetry(p)
    PROVE  Lists(own, ord, n)'
<1> DEFINE m == next[p]
<1>1. /\ pc[p] = "remove" /\ cur[p] = p /\ pc[p] \in Holding /\ ProcOK(own, ord, p) /\ ListType
      /\ p \in Processes /\ p \in Entries /\ p # Null
  BY NamesApart DEF RemoveRetry, Holding, Lists, Shape
<1>2. own[p] = Queue /\ own[p] # Null
  BY <1>1, Walker, NamesApart
<1>3. \A q \in Processes \ {p} : Same(q) /\ pc[q] \notin Holding
  BY <1>1, Alone DEF Same, RemoveRetry, Set, ListType
<1>4. \A x \in Entries : own[x] # p
  BY <1>1, NothingTaken DEF Telling, Ending
<1>5. holder = p /\ resolved[p] = Null
  BY <1>1, Reader DEF ProcOK, Rounds
<1>6. tail # Null
  BY <1>1, <1>2 DEF Lists, Shape, Topped, IsTop
<1>7. /\ tail \in Entries /\ own[tail] = Queue /\ prev[tail] = Null
      /\ \A x \in Entries : own[x] = Queue /\ ord[tail] <= ord[x] => x = tail
      /\ ord \in [Entries -> Nat]
  BY <1>6, TailPrev DEF Lists
<1>8. /\ pc'[p] = "remove" /\ cur'[p] = tail /\ last'[p] = tail /\ resolved'[p] = Null
      /\ holder' = p /\ next' = next /\ UNCHANGED <<tail, status, missing, pc>>
  BY <1>1, <1>5 DEF RemoveRetry, Set, ListType
<1>9. m \in Pointers /\ prev' \in [Entries -> Pointers] /\ \A x \in Entries : prev'[x] \in {Null, prev[x]}
  BY <1>1 DEF RemoveRetry, SetNext, Set, ListType, Pointers
<1>10. ListType'
  BY <1>1, <1>9 DEF RemoveRetry, Set, ListType
<1>11. Backed(own)' /\ Linked(own, ord)'
  BY <1>8, <1>9 DEF Lists, Shape, Backed, Linked
<1>12. Held(own, ord, p)' /\ Walked(own, ord, p)' /\ Closed(own, ord, p)' /\ Rounds(own, p)'
  <2>1. /\ last'[p] \in Entries /\ own[last'[p]] = Queue /\ cur'[p] = last'[p]
        /\ \A x \in Entries : own[x] = Queue /\ ord[last'[p]] <= ord[x] => prev'[x] = Null
    BY <1>7, <1>8, <1>9
  <2> QED  BY <1>7, <1>8, <2>1, NewWalk
<1>13. Dropping(own, p)'
  BY <1>1, <1>8 DEF ProcOK, Dropping
<1>14. ProcOK(own, ord, p)'
  BY <1>12, <1>13 DEF ProcOK
<1>15. IsTop(own, ord, p, Newest(p))'
  BY <1>4, <1>8, EmptyTop DEF Newest, Telling, Ending
<1> QED  BY <1>1, <1>3, <1>8, <1>10, <1>11, <1>14, <1>15, HolderStep

LEMMA RemoveMissingStep ==
    ASSUME NEW own, NEW ord, NEW n, Lists(own, ord, n), NEW p \in Droppers, RemoveMissing(p)
    PROVE  Lists(own, ord, n)'
<1>1. /\ pc[p] = "remove" /\ pc[p] \in Holding /\ ProcOK(own, ord, p) /\ ListType
      /\ p \in Processes
  BY NamesApart DEF RemoveMissing, Holding, Lists, Shape
<1>2. \A q \in Processes \ {p} : Same(q) /\ pc[q] \notin Holding
  <2>1. \A q \in Processes \ {p} : pc'[q] = pc[q] /\ cur'[q] = cur[q] /\ last'[q] = last[q]
    BY <1>1 DEF RemoveMissing, Process, Set, Goto, ListType
  <2>2. \A q \in Processes \ {p} : head'[q] = head[q] /\ resolved'[q] = resolved[q] /\ missing'[q] = missing[q]
    BY <1>1 DEF RemoveMissing, Set
  <2> QED  BY <1>1, <2>1, <2>2, Alone DEF Same
<1>3. \A x \in Entries : own[x] # p
  BY <1>1, NothingTaken DEF Telling, Ending
<1>4. /\ holder = p /\ last[p] \in Entries /\ own[last[p]] = Queue
      /\ \A x \in Entries : own[x] = Queue /\ ord[last[p]] <= ord[x] => prev[x] = Null
      /\ ord \in [Entries -> Nat]
  BY <1>1, Reader DEF Lists
<1>5. /\ pc'[p] = "scan" /\ cur'[p] = last[p] /\ last'[p] = last[p] /\ resolved'[p] = Null
      /\ UNCHANGED <<tail, holder, links, status>> /\ prev' = prev
  BY <1>1 DEF RemoveMissing, Process, Goto, Set, ListType, ProcOK, Rounds, links
<1>6. missing'[p]
  BY <1>1 DEF RemoveMissing, Set, ListType
<1>7. ListType'
  <2>1. missing' \in [Processes -> BOOLEAN]
    BY <1>1 DEF RemoveMissing, Set, ListType
  <2> QED  BY <1>1, <1>5, <2>1 DEF RemoveMissing, Process, Goto, Set, ListType, Labels, links
<1>8. Backed(own)' /\ Linked(own, ord)'
  BY <1>5, LinksSame
<1>9. Held(own, ord, p)' /\ Walked(own, ord, p)' /\ Closed(own, ord, p)' /\ Rounds(own, p)'
  BY <1>4, <1>5, NewWalk
<1>10. Dropping(own, p)'
  BY <1>1, <1>5, <1>6 DEF ProcOK, Dropping
<1>11. ProcOK(own, ord, p)'
  BY <1>9, <1>10 DEF ProcOK
<1>12. IsTop(own, ord, p, Newest(p))'
  BY <1>3, <1>5, EmptyTop DEF Newest, Telling, Ending
<1> QED  BY <1>1, <1>2, <1>5, <1>7, <1>8, <1>11, <1>12, HolderStep

(* An entry on no list goes out of scope. *)
LEMMA OutOfScope ==
    ASSUME NEW own, NEW ord, NEW n, Lists(own, ord, n), NEW e \in Entries, own[e] = Null, Exit(e),
           tail' = tail
    PROVE  /\ Placed(own, ord, n)' /\ Linked(own, ord)' /\ Backed(own)'
           /\ IsTop(own, ord, Queue, tail)'
           /\ \A x \in Entries : own[x] = Queue => next'[x] = next[x] /\ prev'[x] = prev[x]
           /\ next' \in [Entries -> Pointers] /\ prev' \in [Entries -> Pointers]
           /\ status' \in [Entries -> {"out", "in", "done"}]
           /\ \A x \in Entries \ {e} : status'[x] = status[x]
<1>1. ListType /\ Placed(own, ord, n) /\ Linked(own, ord) /\ Backed(own) /\ IsTop(own, ord, Queue, tail)
  BY DEF Lists, Shape, Topped
<1>2. /\ \A x \in Entries \ {e} : next'[x] = next[x] /\ prev'[x] = prev[x] /\ status'[x] = status[x]
      /\ next' \in [Entries -> Pointers] /\ prev' \in [Entries -> Pointers]
      /\ status' \in [Entries -> {"out", "in", "done"}]
  BY <1>1 DEF Exit, Set, ListType, Pointers
<1>3. \A x \in Entries : own[x] # Null => x # e
  OBVIOUS
<1>4. Placed(own, ord, n)'
  BY <1>1, <1>2, <1>3 DEF Placed
<1>5. Linked(own, ord)'
  BY <1>1, <1>2, <1>3 DEF Linked
<1>6. Backed(own)'
  BY <1>1, <1>2, <1>3, NamesApart DEF Backed, ListType, Pointers
<1>7. IsTop(own, ord, Queue, tail)'
  BY <1>1 DEF IsTop
<1> QED  BY <1>2, <1>3, <1>4, <1>5, <1>6, <1>7, NamesApart

LEMMA LeaveStep ==
    ASSUME NEW own, NEW ord, NEW n, Lists(own, ord, n), NEW e \in Entries, Leave(e)
    PROVE  Lists(own, ord, n)'
<1>1. /\ Exit(e) /\ ListType /\ status[e] = "done"
      /\ UNCHANGED <<tail, holder, pc, cur, head, last, resolved, missing>>
  BY DEF Leave, Exit, Lists, locals
<1>2. own[e] = Null
  BY <1>1 DEF Lists, Shape, Placed
<1>3. /\ Placed(own, ord, n)' /\ Linked(own, ord)' /\ Backed(own)'
      /\ IsTop(own, ord, Queue, tail)'
      /\ \A x \in Entries : own[x] = Queue => next'[x] = next[x] /\ prev'[x] = prev[x]
      /\ next' \in [Entries -> Pointers] /\ prev' \in [Entries -> Pointers]
      /\ status' \in [Entries -> {"out", "in", "done"}]
      /\ \A x \in Entries \ {e} : status'[x] = status[x]
  BY <1>1, <1>2, OutOfScope
<1>4. ListType'
  BY <1>1, <1>3 DEF ListType
<1>5. ASSUME NEW q \in Processes PROVE ProcOK(own, ord, q)'
  <2>1. Same(q)
    BY <1>1 DEF Same
  <2>2. CASE q = e /\ q \in Droppers
    <3>1. pc[q] = "idle"
      BY <1>1, <2>2 DEF Leave
    <3>2. pc'[q] = "idle" /\ resolved'[q] = Null
      BY <1>1, <3>1 DEF Lists, Shape, ProcOK, Rounds
    <3> QED  BY <3>2 DEF ProcOK, Held, Walked, Closed, Rounds, Dropping, Holding
  <2>3. CASE ~(q = e /\ q \in Droppers)
    <3>1. Kept(own, own, q)
      BY <1>3, <2>3, NamesApart DEF Kept
    <3> QED  BY <1>1, <1>3, <2>1, <3>1, Others
  <2> QED  BY <2>2, <2>3
<1>6. ASSUME NEW q \in Processes PROVE IsTop(own, ord, q, Newest(q))'
  <2>1. IsTop(own, ord, q, Newest(q)) /\ Newest(q)' = Newest(q)
    BY <1>1 DEF Lists, Shape, Topped, Newest
  <2> QED  BY <2>1 DEF IsTop
<1>7. Shape(own, ord, n)'
  BY <1>3, <1>5, <1>6 DEF Shape, Topped
<1> QED  BY <1>4, <1>7 DEF Lists

(* Steps of a process that has no flag and is telling nobody. *)
LEMMA ReturnStep ==
    ASSUME NEW own, NEW ord, NEW n, Lists(own, ord, n), NEW p \in Processes, Return(p)
    PROVE  Lists(own, ord, n)'
<1>1. /\ pc[p] = "tell_done" /\ cur[p] = Null /\ ProcOK(own, ord, p) /\ ListType
      /\ own \in [Entries -> Owners]
      /\ UNCHANGED <<tail, holder, cur, head, last, resolved>>
  BY DEF Return, Lists, Shape
<1>2. /\ pc'[p] \in {"complete", "idle"} /\ resolved'[p] = Null
      /\ pc' \in [Processes -> Labels] /\ missing' \in [Processes -> BOOLEAN]
      /\ pc'[p] = "complete" <=> missing[p]
  BY <1>1 DEF Return, Goto, Set, ListType, Labels, ProcOK, Rounds
<1>3. \A q \in Processes \ {p} : Same(q)
  BY <1>1 DEF Return, Goto, Set, ListType, Same
<1>4. \A x \in Entries : own[x] # p
  <2>1. Newest(p) = Null
    BY <1>1 DEF Newest, Telling
  <2> QED  BY <2>1 DEF Lists, Shape, Topped, IsTop
<1>5. IsTop(own, ord, p, Newest(p))'
  BY <1>2, <1>4, EmptyTop DEF Newest, Telling, Ending
<1>6. /\ Placed(own, ord, n)' /\ Linked(own, ord)' /\ Backed(own)'
      /\ IsTop(own, ord, Queue, tail)'
      /\ \A x \in Entries : own[x] = Queue => next'[x] = next[x] /\ prev'[x] = prev[x]
      /\ next' \in [Entries -> Pointers] /\ prev' \in [Entries -> Pointers]
      /\ status' \in [Entries -> {"out", "in", "done"}]
      /\ \A x \in Entries \ {p} : status'[x] = status[x]
      /\ p \in Droppers /\ missing[p] => status' = status
  <2>1. CASE p \in Droppers /\ ~missing[p]
    <3>1. own[p] = Null /\ p \in Entries /\ Exit(p)
      BY <1>1, <2>1, NamesApart DEF Return, ProcOK, Dropping
    <3> QED  BY <1>1, <2>1, <3>1, OutOfScope
  <2>2. CASE ~(p \in Droppers /\ ~missing[p])
    <3>1. UNCHANGED <<links, status>> /\ next' = next /\ prev' = prev /\ tail' = tail
      BY <1>1, <2>2 DEF Return, links
    <3>2. Linked(own, ord)' /\ Backed(own)'
      BY <3>1, LinksSame
    <3>3. Placed(own, ord, n)' /\ IsTop(own, ord, Queue, tail)'
      BY <3>1 DEF Lists, Shape, Placed, Topped, IsTop
    <3> QED  BY <1>1, <3>1, <3>2, <3>3 DEF ListType
  <2> QED  BY <2>1, <2>2
<1>7. ListType'
  BY <1>1, <1>2, <1>6 DEF ListType
<1>8. \A q \in Processes \ {p} : ProcOK(own, ord, q)'
  <2>1. \A q \in Processes \ {p} : Kept(own, own, q)
    BY <1>6, NamesApart DEF Kept
  <2> QED  BY <1>1, <1>3, <1>6, <2>1, Others
<1>9. ProcOK(own, ord, p)'
  <2>1. Held(own, ord, p)' /\ Walked(own, ord, p)' /\ Closed(own, ord, p)' /\ Rounds(own, p)'
    BY <1>2 DEF Held, Walked, Closed, Rounds, Holding
  <2>2. Dropping(own, p)'
    BY <1>1, <1>2, <1>6 DEF ProcOK, Dropping, Holding
  <2> QED  BY <2>1, <2>2 DEF ProcOK
<1> QED  BY <1>1, <1>3, <1>5, <1>6, <1>7, <1>8, <1>9, Assemble

LEMMA DropStep ==
    ASSUME NEW own, NEW ord, NEW n, Lists(own, ord, n), NEW p \in Droppers,
           Drop(p) \/ DropEmpty(p)
    PROVE  Lists(own, ord, n)'
<1>1. /\ pc[p] \in {"idle", "drop"} /\ ProcOK(own, ord, p) /\ ListType
      /\ p \in Processes /\ p \in Entries /\ own \in [Entries -> Owners]
      /\ UNCHANGED <<tail, holder, links, status, cur, head, last, resolved, missing>>
  BY NamesApart DEF Drop, DropEmpty, Lists, Shape, locals
<1>2. /\ pc'[p] \in {"drop", "complete"} /\ resolved'[p] = Null /\ status'[p] # "out"
      /\ pc' \in [Processes -> Labels]
  BY <1>1 DEF Drop, DropEmpty, Goto, Set, ListType, Labels, ProcOK, Rounds, Dropping
<1>3. \A q \in Processes \ {p} : Same(q)
  BY <1>1 DEF Drop, DropEmpty, Goto, Set, ListType, Same
<1>4. \A x \in Entries : own[x] # p
  BY <1>1, NothingTaken DEF Telling, Ending
<1>5. IsTop(own, ord, p, Newest(p))'
  BY <1>2, <1>4, EmptyTop DEF Newest, Telling, Ending
<1>6. Linked(own, ord)' /\ Backed(own)'
  BY <1>1, LinksSame
<1>7. Placed(own, ord, n)' /\ IsTop(own, ord, Queue, tail)'
  BY <1>1 DEF Lists, Shape, Placed, Topped, IsTop
<1>8. ListType'
  BY <1>1, <1>2 DEF ListType, links
<1>9. \A q \in Processes \ {p} : ProcOK(own, ord, q)'
  <2>1. \A q \in Processes \ {p} : Kept(own, own, q)
    BY <1>1 DEF Kept
  <2>2. next' = next /\ prev' = prev /\ holder' = holder
    BY <1>1 DEF links
  <2> QED  BY <1>3, <2>1, <2>2, Others
<1>10. ProcOK(own, ord, p)'
  BY <1>2 DEF ProcOK, Held, Walked, Closed, Rounds, Dropping, Holding
<1> QED  BY <1>1, <1>3, <1>5, <1>6, <1>7, <1>8, <1>9, <1>10, Assemble

LEMMA CompleteStep ==
    ASSUME NEW own, NEW ord, NEW n, Lists(own, ord, n), NEW p \in Droppers, Complete(p)
    PROVE  Lists(own, ord, n)'
<1>1. /\ pc[p] = "complete" /\ status[p] = "done" /\ ProcOK(own, ord, p) /\ ListType
      /\ p \in Processes /\ p \in Entries /\ own \in [Entries -> Owners] /\ Exit(p)
      /\ UNCHANGED <<tail, holder, cur, head, last, resolved, missing>>
  BY NamesApart DEF Complete, Lists, Shape, locals
<1>2. pc'[p] = "idle" /\ resolved'[p] = Null /\ pc' \in [Processes -> Labels]
  BY <1>1 DEF Complete, Goto, Set, ListType, Labels, ProcOK, Rounds
<1>3. \A q \in Processes \ {p} : Same(q)
  BY <1>1 DEF Complete, Goto, Set, ListType, Same
<1>4. own[p] = Null /\ \A x \in Entries : own[x] # p
  BY <1>1, NothingTaken DEF Telling, Ending, Lists, Shape, Placed
<1>5. IsTop(own, ord, p, Newest(p))'
  BY <1>2, <1>4, EmptyTop DEF Newest, Telling, Ending
<1>6. /\ Placed(own, ord, n)' /\ Linked(own, ord)' /\ Backed(own)'
      /\ IsTop(own, ord, Queue, tail)'
      /\ \A x \in Entries : own[x] = Queue => next'[x] = next[x] /\ prev'[x] = prev[x]
      /\ next' \in [Entries -> Pointers] /\ prev' \in [Entries -> Pointers]
      /\ status' \in [Entries -> {"out", "in", "done"}]
      /\ \A x \in Entries \ {p} : status'[x] = status[x]
  BY <1>1, <1>4, OutOfScope
<1>7. ListType'
  BY <1>1, <1>2, <1>6 DEF ListType
<1>8. \A q \in Processes \ {p} : ProcOK(own, ord, q)'
  <2>1. \A q \in Processes \ {p} : Kept(own, own, q)
    BY <1>6, NamesApart DEF Kept
  <2> QED  BY <1>1, <1>3, <1>6, <2>1, Others
<1>9. ProcOK(own, ord, p)'
  BY <1>2 DEF ProcOK, Held, Walked, Closed, Rounds, Dropping, Holding
<1> QED  BY <1>1, <1>3, <1>5, <1>6, <1>7, <1>8, <1>9, Assemble

(* The whole queue is taken: by a detach, or when the tail is served. *)
LEMMA TakeAll ==
    ASSUME NEW own, NEW ord, NEW n, Lists(own, ord, n), NEW p \in Processes,
           NEW own2, own2 = [x \in Entries |-> IF own[x] = Queue THEN p ELSE own[x]],
           \A x \in Entries : own[x] # p,
           \A q \in Processes \ {p} : Same(q) /\ pc[q] \notin Holding,
           tail' = Null, next' = next, status' = status, ListType',
           pc'[p] = "tell_done", cur'[p] = tail, resolved'[p] = Null, Dropping(own2, p)'
    PROVE  Lists(own2, ord, n)'
<1>1. own \in [Entries -> Owners] /\ ListType /\ ord \in [Entries -> Nat]
  BY DEF Lists
<1>2. p # Queue /\ p # Null /\ Queue # Null
  BY NamesApart
<1>3. /\ own2 \in [Entries -> Owners]
      /\ \A x \in Entries : own2[x] = IF own[x] = Queue THEN p ELSE own[x]
  BY <1>1 DEF Owners
<1>4. \A x \in Entries : own2[x] # Queue
  BY <1>2, <1>3
<1>5. \A q \in Processes \ {p}, x \in Entries : own2[x] = q <=> own[x] = q
  BY <1>3, NamesApart
<1>6. \A x \in Entries : own2[x] = Null <=> own[x] = Null
  BY <1>2, <1>3
<1>7. \A q \in Processes \ {p} : ProcOK(own2, ord, q)'
  <2>1. \A q \in Processes \ {p} : Kept(own, own2, q)
    BY <1>6, NamesApart DEF Kept
  <2> QED  BY <2>1, Bystander
<1>8. \A x, y \in Entries : own2[x] = own2[y] <=> own[x] = own[y]
  BY <1>2, <1>3
<1>9. Placed(own2, ord, n)'
  BY <1>6, <1>8 DEF Lists, Shape, Placed
<1>10. Linked(own2, ord)'
  <2>1. \A x \in Entries : next[x] # Null => next[x] \in Entries
    BY <1>1 DEF ListType, Pointers
  <2> QED  BY <1>6, <1>8, <2>1 DEF Lists, Shape, Linked
<1>11. Backed(own2)'
  BY <1>4 DEF Backed
<1>12. IsTop(own2, ord, Queue, tail)'
  BY <1>4 DEF IsTop
<1>13. IsTop(own2, ord, p, Newest(p))'
  <2>1. Newest(p)' = tail
    BY DEF Newest, Telling
  <2>2. IsTop(own, ord, Queue, tail) /\ tail \in Pointers
    BY <1>1 DEF Lists, Shape, Topped, ListType
  <2>3. \A x \in Entries : own2[x] = p <=> own[x] = Queue
    BY <1>2, <1>3
  <2> QED  BY <2>1, <2>2, <2>3 DEF IsTop, Pointers
<1>14. ProcOK(own2, ord, p)'
  BY DEF ProcOK, Held, Walked, Closed, Rounds, Holding
<1> QED  BY <1>3, <1>5, <1>7, <1>9, <1>10, <1>11, <1>12, <1>13, <1>14, Assemble

LEMMA DetachStep ==
    ASSUME NEW own, NEW ord, NEW n, Lists(own, ord, n), NEW p \in Processes, Detach(p),
           NEW own2, own2 = [x \in Entries |-> IF own[x] = Queue THEN p ELSE own[x]]
    PROVE  Lists(own2, ord, n)'
<1>1. /\ pc[p] = "idle" /\ holder = Null /\ ProcOK(own, ord, p) /\ ListType /\ p \notin Droppers
  BY WaitListAssumption DEF Detach, Lists, Shape
<1>2. \A q \in Processes \ {p} : Same(q) /\ pc[q] \notin Holding
  BY <1>1, Alone DEF Same, Detach, Set, Goto, ListType
<1>3. \A x \in Entries : own[x] # p
  BY <1>1, NothingTaken DEF Telling, Ending
<1>4. /\ tail' = Null /\ next' = next /\ status' = status
      /\ pc'[p] = "tell_done" /\ cur'[p] = tail /\ resolved'[p] = Null
  BY <1>1 DEF Detach, Set, Goto, ListType, links, ProcOK, Rounds
<1>5. ListType'
  BY <1>1 DEF Detach, Set, Goto, ListType, links, Labels, Pointers
<1>6. Dropping(own2, p)'
  BY <1>1 DEF Dropping
<1> QED  BY <1>2, <1>3, <1>4, <1>5, <1>6, TakeAll

(* An entry that a visit or a removal finds without a successor is the     *)
(* tail it has read.                                                       *)
LEMMA NoSuccessor ==
    ASSUME NEW own, NEW ord, NEW n, Lists(own, ord, n), NEW p \in Processes,
           pc[p] \in {"visit", "remove"}, pc[p] = "remove" => cur[p] # Null, prev[cur[p]] = Null
    PROVE  cur[p] = last[p]
<1>1. ProcOK(own, ord, p)
  BY DEF Lists, Shape
<1>2. /\ cur[p] \in Entries /\ own[cur[p]] = Queue /\ last[p] \in Entries /\ own[last[p]] = Queue
      /\ ord[cur[p]] \in Nat /\ ord[last[p]] \in Nat /\ ord[cur[p]] <= ord[last[p]]
  BY Walker
<1>3. ~(ord[cur[p]] < ord[last[p]])
  BY <1>1, <1>2, NamesApart DEF ProcOK, Walked
<1>4. ord[cur[p]] = ord[last[p]]
  BY <1>2, <1>3
<1> QED  BY <1>2, <1>4, NamesApart DEF Lists, Shape, Placed

LEMMA VisitTailStep ==
    ASSUME NEW own, NEW ord, NEW n, Lists(own, ord, n), NEW p \in Processes, VisitTail(p),
           NEW own2, own2 = [x \in Entries |-> IF own[x] = Queue THEN p ELSE own[x]]
    PROVE  Lists(own2, ord, n)'
<1>1. /\ pc[p] = "visit" /\ pc[p] \in Holding /\ prev[cur[p]] = Null /\ tail = last[p]
      /\ ProcOK(own, ord, p) /\ ListType
  BY DEF VisitTail, Holding, Lists, Shape
<1>2. cur[p] = tail
  BY <1>1, NoSuccessor
<1>3. \A q \in Processes \ {p} : Same(q) /\ pc[q] \notin Holding
  BY <1>1, Alone DEF Same, VisitTail, Set, Goto, ListType
<1>4. \A x \in Entries : own[x] # p
  BY <1>1, NothingTaken DEF Telling, Ending
<1>5. /\ tail' = Null /\ next' = next /\ status' = status /\ missing' = missing
      /\ pc'[p] = "tell_done" /\ cur'[p] = tail /\ resolved'[p] = Null
  BY <1>1, <1>2 DEF VisitTail, Set, Goto, ListType, links
<1>6. ListType'
  BY <1>1 DEF VisitTail, Set, Goto, ListType, links, Labels, Pointers
<1>7. Dropping(own2, p)'
  <2>1. p \in Droppers => p \in Entries /\ (own[p] = Null => own2[p] = Null)
    BY NamesApart
  <2>2. Dropping(own, p)
    BY <1>1 DEF ProcOK
  <2> QED  BY <1>1, <1>5, <2>1, <2>2 DEF Dropping, Holding
<1> QED  BY <1>3, <1>4, <1>5, <1>6, <1>7, TakeAll

(* The list is cut below the visited entry: what is older has been served. *)
LEMMA CutStep ==
    ASSUME NEW own, NEW ord, NEW n, Lists(own, ord, n), NEW p \in Processes,
           Stop(p) \/ VisitTailFailed(p),
           NEW own2, own2 = [x \in Entries |-> IF own[x] = Queue /\ ord[x] < ord[cur[p]] THEN p ELSE own[x]]
    PROVE  Lists(own2, ord, n)'
<1> DEFINE e == cur[p]
<1>1. pc[p] = "visit" /\ pc[p] \in Holding /\ ProcOK(own, ord, p) /\ ListType /\ own \in [Entries -> Owners]
  BY DEF Stop, VisitTailFailed, Holding, Lists, Shape
<1>2. /\ e \in Entries /\ own[e] = Queue /\ last[p] \in Entries /\ own[last[p]] = Queue
      /\ ord[e] \in Nat /\ ord[last[p]] \in Nat /\ ord[e] <= ord[last[p]] /\ own[e] # Null
      /\ \A x \in Entries : ord[x] \in Nat
  BY <1>1, Walker, NamesApart DEF Lists
<1>3. \A q \in Processes \ {p} : Same(q) /\ pc[q] \notin Holding
  BY <1>1, Alone DEF Same, Stop, VisitTailFailed, Set, Goto, ListType
<1>4. \A x \in Entries : own[x] # p
  BY <1>1, NothingTaken DEF Telling, Ending
<1>5. /\ pc'[p] \in {"unlock", "add"} /\ cur' = cur /\ head'[p] = e /\ last' = last
      /\ resolved' = resolved /\ holder' = holder /\ prev' = prev /\ missing' = missing
      /\ tail' = tail /\ status' = status /\ next' = [next EXCEPT ![e] = Null]
  BY <1>1 DEF Stop, VisitTailFailed, Set, Goto, ListType
<1>6. \A x \in Entries : next'[x] = IF x = e THEN Null ELSE next[x]
  BY <1>1, <1>5 DEF ListType
<1>7. ListType'
  BY <1>1, <1>2, <1>5 DEF Stop, VisitTailFailed, Set, Goto, ListType, Labels, Pointers
<1>8. p # Queue /\ p # Null /\ Queue # Null
  BY NamesApart
<1>9. /\ own2 \in [Entries -> Owners]
      /\ \A x \in Entries : own2[x] = IF own[x] = Queue /\ ord[x] < ord[e] THEN p ELSE own[x]
  BY <1>1 DEF Owners
<1>10. /\ \A q \in Processes \ {p}, x \in Entries : own2[x] = q <=> own[x] = q
       /\ \A x \in Entries : own2[x] = Null <=> own[x] = Null
       /\ \A x \in Entries : own2[x] = p <=> own[x] = Queue /\ ord[x] < ord[e]
       /\ \A x \in Entries : own2[x] = Queue <=> own[x] = Queue /\ ord[e] <= ord[x]
       /\ \A x, y \in Entries : own2[x] = own2[y] => own[x] = own[y]
  BY <1>2, <1>4, <1>8, <1>9, NamesApart
<1>11. \A q \in Processes \ {p} : ProcOK(own2, ord, q)'
  <2>1. \A q \in Processes \ {p} : Kept(own, own2, q)
    BY <1>5, <1>10, NamesApart DEF Kept
  <2> QED  BY <1>3, <2>1, Bystander
<1>12. Placed(own2, ord, n)'
  BY <1>5, <1>10 DEF Lists, Shape, Placed
<1>13. Linked(own2, ord)'
  <2>1. ASSUME NEW x \in Entries, own2[x] # Null, next'[x] # Null
        PROVE  own2[next'[x]] = own2[x] /\ ord[next'[x]] < ord[x]
    <3>1. x # e /\ next'[x] = next[x] /\ own[x] # Null /\ next[x] # Null
      BY <1>6, <1>10, <2>1
    <3>2. /\ next[x] \in Entries /\ own[next[x]] = own[x] /\ ord[next[x]] < ord[x]
          /\ \A y \in Entries : own[y] = own[x] /\ ord[y] < ord[x] => ord[y] <= ord[next[x]]
      BY <3>1, Before
    <3>3. CASE own[x] = Queue /\ ord[x] < ord[e]
      BY <1>2, <1>9, <3>1, <3>2, <3>3
    <3>4. CASE own[x] = Queue /\ ~(ord[x] < ord[e])
      <4>1. ord[x] # ord[e]
        BY <1>2, <3>1, <3>4 DEF Lists, Shape, Placed
      <4>2. ord[e] <= ord[next[x]]
        BY <1>2, <3>2, <3>4, <4>1
      <4> QED  BY <1>2, <1>9, <3>1, <3>2, <3>4, <4>2
    <3>5. CASE own[x] # Queue
      BY <1>9, <3>1, <3>2, <3>5
    <3> QED  BY <3>3, <3>4, <3>5
  <2>2. ASSUME NEW x \in Entries, NEW y \in Entries, own2[x] # Null, own2[y] = own2[x], ord[y] < ord[x]
        PROVE  next'[x] # Null /\ ord[y] <= ord[next'[x]]
    <3>1. own[x] # Null /\ own[y] = own[x]
      BY <1>10, <2>2
    <3>2. x # e
      BY <1>2, <1>9, <2>2, <3>1, <1>8
    <3> QED  BY <1>6, <2>2, <3>1, <3>2 DEF Lists, Shape, Linked
  <2> QED  BY <2>1, <2>2 DEF Linked
<1>14. Backed(own2)'
  <2>1. ASSUME NEW x \in Entries, own2[x] = Queue, prev[x] # Null
        PROVE  own2[prev[x]] = Queue /\ next'[prev[x]] = x
    <3>1. own[x] = Queue /\ ord[e] <= ord[x]
      BY <1>10, <2>1
    <3>2. prev[x] \in Entries /\ own[prev[x]] = Queue /\ next[prev[x]] = x
      BY <1>1, <2>1, <3>1 DEF ListType, Pointers, Lists, Shape, Backed
    <3>3. ord[x] < ord[prev[x]]
      BY <1>8, <2>1, <3>2, Before, NamesApart
    <3>4. ord[e] < ord[prev[x]]
      BY <1>2, <3>1, <3>2, <3>3
    <3> QED  BY <1>2, <1>6, <1>10, <3>2, <3>4
  <2> QED  BY <1>5, <2>1 DEF Backed
<1>15. IsTop(own2, ord, Queue, tail)'
  <2>1. IsTop(own, ord, Queue, tail) /\ tail \in Pointers
    BY <1>1 DEF Lists, Shape, Topped, ListType
  <2>2. tail # Null /\ tail \in Entries /\ own[tail] = Queue /\ ord[e] <= ord[tail]
    BY <1>2, <2>1 DEF IsTop, Pointers
  <2> QED  BY <1>5, <1>10, <2>1, <2>2 DEF IsTop
<1>16. IsTop(own2, ord, p, Newest(p))'
  <2>1. Newest(p)' = next[e]
    BY <1>1, <1>5 DEF Newest, Telling, Ending, ProcOK, Rounds
  <2>2. next[e] # Null => own2[next[e]] = p
    BY <1>2, <1>10, Before
  <2>3. \A x \in Entries : own2[x] = p => next[e] # Null /\ ord[x] <= ord[next[e]]
    BY <1>2, <1>10 DEF Lists, Shape, Linked
  <2> QED  BY <2>1, <2>2, <2>3 DEF IsTop
<1>17. ProcOK(own2, ord, p)'
  <2>1. Held(own2, ord, p)'
    BY <1>1, <1>2, <1>5, <1>10, NamesApart DEF ProcOK, Held, Holding
  <2>2. Walked(own2, ord, p)'
    BY <1>1, <1>5, <1>10 DEF ProcOK, Walked
  <2>3. Closed(own2, ord, p)'
    BY <1>5 DEF Closed
  <2>4. Rounds(own2, p)'
    BY <1>2, <1>5, <1>6, <1>10, NamesApart DEF Rounds
  <2>5. Dropping(own2, p)'
    BY <1>1, <1>5, <1>10, NamesApart DEF ProcOK, Dropping, Holding
  <2> QED  BY <2>1, <2>2, <2>3, <2>4, <2>5 DEF ProcOK
<1>18. own2 \in [Entries -> Owners] /\ \A q \in Processes \ {p}, x \in Entries : own2[x] = q <=> own[x] = q
  BY <1>9, <1>10
<1>19. \A q \in Processes \ {p} : Same(q) /\ ProcOK(own2, ord, q)'
  BY <1>3, <1>11
<1> QED  BY <1>7, <1>12, <1>13, <1>14, <1>15, <1>16, <1>17, <1>18, <1>19, Assemble

LEMMA TellStep ==
    ASSUME NEW own, NEW ord, NEW n, Lists(own, ord, n), NEW p \in Processes, Tell(p),
           NEW own2 \in [Entries -> Owners],
           \A x \in Entries : own2[x] = IF x = cur[p] THEN Null ELSE own[x]
    PROVE  Lists(own2, ord, n)'
<1> DEFINE e == cur[p]
<1>1. /\ pc[p] \in Telling /\ e # Null /\ e \in Entries /\ ProcOK(own, ord, p) /\ ListType
      /\ own \in [Entries -> Owners] /\ \A x \in Entries : ord[x] \in Nat
  BY DEF Tell, Telling, Lists, Shape, ListType, Pointers
<1>2. IsTop(own, ord, p, e)
  <2>1. Newest(p) = e
    BY <1>1 DEF Newest
  <2> QED  BY <2>1 DEF Lists, Shape, Topped
<1>3. own[e] = p /\ \A x \in Entries : own[x] = p => ord[x] <= ord[e]
  BY <1>1, <1>2 DEF IsTop
<1>4. p # Queue /\ p # Null /\ Queue # Null
  BY NamesApart
<1>5. /\ pc' = pc /\ cur'[p] = next[e] /\ head' = head /\ last' = last /\ resolved' = resolved
      /\ missing' = missing /\ holder' = holder /\ tail' = tail /\ next' = next /\ prev' = prev
      /\ UNCHANGED links
  BY <1>1 DEF Tell, Set, ListType, links
<1>6. /\ \A x \in Entries : status'[x] = IF x = e THEN "done" ELSE status[x]
      /\ status' \in [Entries -> {"out", "in", "done"}]
  BY <1>1 DEF Tell, Set, ListType
<1>7. ListType'
  BY <1>1, <1>5, <1>6 DEF Tell, Set, ListType
<1>8. /\ own2 \in [Entries -> Owners]
      /\ \A x \in Entries : own2[x] = IF x = e THEN Null ELSE own[x]
  BY <1>1 DEF Owners
<1>9. \A x \in Entries : own2[x] = Queue <=> own[x] = Queue
  BY <1>3, <1>4, <1>8
<1>10. \A q \in Processes \ {p}, x \in Entries : own2[x] = q <=> own[x] = q
  BY <1>3, <1>8, NamesApart
<1>11. \A q \in Processes \ {p} : Same(q)
  BY <1>1, <1>5 DEF Tell, Set, ListType, Same
<1>12. \A q \in Processes \ {p} : ProcOK(own2, ord, q)'
  <2>1. \A q \in Processes \ {p} : Kept(own, own2, q)
    BY <1>6, <1>8, NamesApart DEF Kept
  <2> QED  BY <1>5, <1>9, <1>11, <2>1, Others
<1>13. Placed(own2, ord, n)'
  BY <1>6, <1>8 DEF Lists, Shape, Placed
<1>14. Linked(own2, ord)'
  <2>1. ASSUME NEW x \in Entries, own2[x] # Null, next[x] # Null
        PROVE  own2[next[x]] = own2[x] /\ ord[next[x]] < ord[x]
    <3>1. own[x] # Null /\ own2[x] = own[x]
      BY <1>8, <2>1
    <3>2. next[x] \in Entries /\ own[next[x]] = own[x] /\ ord[next[x]] < ord[x]
      BY <2>1, <3>1, Before
    <3>3. next[x] # e
      BY <1>1, <1>3, <3>2
    <3> QED  BY <1>8, <3>1, <3>2, <3>3
  <2>2. ASSUME NEW x \in Entries, NEW y \in Entries, own2[x] # Null, own2[y] = own2[x], ord[y] < ord[x]
        PROVE  next[x] # Null /\ ord[y] <= ord[next[x]]
    BY <1>8, <2>2 DEF Lists, Shape, Linked
  <2> QED  BY <1>5, <2>1, <2>2 DEF Linked
<1>15. Backed(own2)'
  <2>1. \A x \in Entries : prev[x] # Null => prev[x] \in Entries
    BY <1>1 DEF ListType, Pointers
  <2> QED  BY <1>5, <1>9, <2>1 DEF Lists, Shape, Backed
<1>16. IsTop(own2, ord, Queue, tail)'
  <2>1. IsTop(own, ord, Queue, tail) /\ tail \in Pointers
    BY <1>1 DEF Lists, Shape, Topped, ListType
  <2> QED  BY <1>5, <1>9, <2>1 DEF IsTop, Pointers
<1>17. IsTop(own2, ord, p, Newest(p))'
  <2>1. Newest(p)' = next[e]
    BY <1>1, <1>5 DEF Newest
  <2>2. next[e] # Null => next[e] \in Entries /\ own2[next[e]] = p
    BY <1>1, <1>3, <1>4, <1>8, Before
  <2>3. ASSUME NEW x \in Entries, own2[x] = p PROVE next[e] # Null /\ ord[x] <= ord[next[e]]
    <3>1. x # e /\ own[x] = p
      BY <1>4, <1>8, <2>3
    <3>2. ord[x] # ord[e]
      BY <1>1, <1>3, <1>4, <3>1 DEF Lists, Shape, Placed
    <3>3. ord[x] < ord[e]
      BY <1>1, <1>3, <3>1, <3>2
    <3> QED  BY <1>1, <1>3, <1>4, <3>1, <3>3 DEF Lists, Shape, Linked
  <2> QED  BY <2>1, <2>2, <2>3 DEF IsTop
<1>18. ProcOK(own2, ord, p)'
  <2>1. last[p] \in Pointers /\ head[p] \in Pointers
    BY <1>1 DEF ListType
  <2>2. Held(own2, ord, p)'
    BY <1>1, <1>5, <1>9, <2>1 DEF ProcOK, Held, Pointers
  <2>3. Walked(own2, ord, p)'
    BY <1>1, <1>5 DEF Walked, Telling
  <2>4. Closed(own2, ord, p)'
    BY <1>1, <1>5, <1>9 DEF ProcOK, Closed, Telling
  <2>5. Rounds(own2, p)'
    BY <1>1, <1>5, <1>9, <2>1 DEF ProcOK, Rounds, Telling, Pointers
  <2>6. Dropping(own2, p)'
    BY <1>1, <1>5, <1>6, <1>8, NamesApart DEF ProcOK, Dropping
  <2> QED  BY <2>2, <2>3, <2>4, <2>5, <2>6 DEF ProcOK
<1>19. own2 \in [Entries -> Owners]
  BY <1>8
<1>20. \A q \in Processes \ {p} : Same(q) /\ ProcOK(own2, ord, q)'
  BY <1>11, <1>12
<1> HIDE DEF e
<1> QED  BY <1>7, <1>10, <1>13, <1>14, <1>15, <1>16, <1>17, <1>18, <1>19, <1>20, Assemble

LEMMA PushStep ==
    ASSUME NEW own, NEW ord, NEW n, Lists(own, ord, n), NEW e \in Entries, Push(e),
           NEW own2 \in [Entries -> Owners], NEW ord2 \in [Entries -> Nat],
           \A x \in Entries : own2[x] = IF x = e THEN Queue ELSE own[x],
           \A x \in Entries : ord2[x] = IF x = e THEN n ELSE ord[x]
    PROVE  Lists(own2, ord2, n + 1)'
<1>1. /\ ListType /\ status[e] = "out" /\ own \in [Entries -> Owners] /\ ord \in [Entries -> Nat]
      /\ n \in Nat /\ n + 1 \in Nat
  BY DEF Push, Lists
<1>2. /\ UNCHANGED <<holder, pc, cur, head, last, resolved, missing>> /\ tail' = e
      /\ \A x \in Entries : next'[x] = IF x = e THEN tail ELSE next[x]
      /\ \A x \in Entries : prev'[x] = IF x = e THEN Null ELSE prev[x]
      /\ \A x \in Entries : status'[x] = IF x = e THEN "in" ELSE status[x]
  BY <1>1 DEF Push, Set, ListType, locals
<1>3. ListType'
  BY <1>1, <1>2 DEF Push, Set, ListType, Pointers
<1>4. own[e] = Null
  BY <1>1 DEF Lists, Shape, Placed
<1>5. Queue # Null /\ e # Null /\ Queue \notin Processes /\ Null \notin Processes
  BY NamesApart
<1>6. /\ own2 \in [Entries -> Owners] /\ ord2 \in [Entries -> Nat]
      /\ \A x \in Entries : own2[x] = IF x = e THEN Queue ELSE own[x]
      /\ \A x \in Entries : ord2[x] = IF x = e THEN n ELSE ord[x]
      /\ \A x \in Entries : ord[x] \in Nat
  BY <1>1 DEF Owners
<1>7. \A x \in Entries : own[x] # Null => x # e /\ ord2[x] = ord[x] /\ own2[x] = own[x] /\ ord[x] < n
  BY <1>4, <1>6 DEF Lists, Shape, Placed
<1>8. Placed(own2, ord2, n + 1)'
  <2>1. ASSUME NEW x \in Entries, own2[x] # Null PROVE status'[x] = "in" /\ ord2[x] < n + 1
    <3>1. CASE x = e
      BY <1>1, <1>2, <1>6, <3>1
    <3>2. CASE x # e
      <4>1. own[x] # Null
        BY <1>6, <2>1, <3>2
      <4>2. status[x] = "in" /\ ord[x] < n /\ ord2[x] = ord[x]
        BY <1>7, <4>1 DEF Lists, Shape, Placed
      <4> QED  BY <1>1, <1>2, <1>6, <3>2, <4>2
    <3> QED  BY <3>1, <3>2
  <2>2. ASSUME NEW x \in Entries, NEW y \in Entries, own2[x] # Null, own2[x] = own2[y], ord2[x] = ord2[y]
        PROVE  x = y
    <3>1. CASE x # e /\ y # e
      BY <1>6, <2>2, <3>1 DEF Lists, Shape, Placed
    <3>2. CASE (x = e /\ y # e) \/ (x # e /\ y = e)
      BY <1>1, <1>5, <1>6, <1>7, <2>2, <3>2
    <3> QED  BY <3>1, <3>2
  <2> QED  BY <2>1, <2>2 DEF Placed
<1>9. IsTop(own, ord, Queue, tail) /\ tail \in Pointers
  BY <1>1 DEF Lists, Shape, Topped, ListType
<1>10. Linked(own2, ord2)'
  <2>1. ASSUME NEW x \in Entries, own2[x] # Null, next'[x] # Null
        PROVE  own2[next'[x]] = own2[x] /\ ord2[next'[x]] < ord2[x]
    <3>1. CASE x = e
      <4>1. next'[x] = tail /\ tail \in Entries /\ own[tail] = Queue
        BY <1>2, <1>9, <2>1, <3>1 DEF IsTop, Pointers
      <4> QED  BY <1>5, <1>6, <1>7, <3>1, <4>1
    <3>2. CASE x # e
      <4>1. next'[x] = next[x] /\ own[x] # Null
        BY <1>2, <1>6, <2>1, <3>2
      <4>2. next[x] \in Entries /\ own[next[x]] = own[x] /\ ord[next[x]] < ord[x]
        BY <2>1, <4>1, Before
      <4> QED  BY <1>7, <4>1, <4>2
    <3> QED  BY <3>1, <3>2
  <2>2. ASSUME NEW x \in Entries, NEW y \in Entries, own2[x] # Null, own2[y] = own2[x], ord2[y] < ord2[x]
        PROVE  next'[x] # Null /\ ord2[y] <= ord2[next'[x]]
    <3>1. CASE x = e
      <4>1. y # e /\ own[y] = Queue /\ own[y] # Null
        BY <1>1, <1>5, <1>6, <2>2, <3>1
      <4>2. tail # Null /\ tail \in Entries /\ own[tail] = Queue /\ ord[y] <= ord[tail]
        BY <1>9, <4>1 DEF IsTop, Pointers
      <4> QED  BY <1>2, <1>5, <1>7, <3>1, <4>1, <4>2
    <3>2. CASE x # e
      <4>1. own[x] # Null /\ next'[x] = next[x] /\ ord2[x] = ord[x] /\ ord[x] < n
        BY <1>2, <1>6, <1>7, <2>2, <3>2
      <4>2. y # e
        BY <1>1, <1>6, <2>2, <4>1
      <4>3. own[y] = own[x] /\ ord[y] < ord[x] /\ ord2[y] = ord[y]
        BY <1>6, <2>2, <3>2, <4>1, <4>2
      <4>4. next[x] # Null /\ next[x] \in Entries /\ own[next[x]] = own[x] /\ ord[y] <= ord[next[x]]
        BY <1>6, <4>1, <4>3, Before DEF Lists, Shape, Linked
      <4> QED  BY <1>7, <4>1, <4>3, <4>4
    <3> QED  BY <3>1, <3>2
  <2> QED  BY <2>1, <2>2 DEF Linked
<1>11. Backed(own2)'
  <2>1. ASSUME NEW x \in Entries, own2[x] = Queue, prev'[x] # Null
        PROVE  own2[prev'[x]] = Queue /\ next'[prev'[x]] = x
    <3>1. x # e /\ own[x] = Queue /\ prev'[x] = prev[x]
      BY <1>2, <1>6, <2>1
    <3>2. prev[x] \in Entries /\ own[prev[x]] = Queue /\ next[prev[x]] = x
      BY <1>1, <2>1, <3>1 DEF ListType, Pointers, Lists, Shape, Backed
    <3> QED  BY <1>2, <1>5, <1>7, <3>1, <3>2
  <2> QED  BY <2>1 DEF Backed
<1>12. IsTop(own2, ord2, Queue, tail)'
  <2>1. \A x \in Entries : own2[x] = Queue => ord2[x] <= n
    BY <1>1, <1>5, <1>6, <1>7
  <2> QED  BY <1>2, <1>5, <1>6, <2>1 DEF IsTop
<1>13. ASSUME NEW q \in Processes PROVE IsTop(own2, ord2, q, Newest(q))'
  <2>1. IsTop(own, ord, q, Newest(q)) /\ Newest(q)' = Newest(q) /\ Newest(q) \in Pointers
    BY <1>1, <1>2 DEF Lists, Shape, Topped, Newest, ListType, Pointers
  <2>2. \A x \in Entries : own2[x] = q <=> own[x] = q
    BY <1>4, <1>5, <1>6
  <2>3. \A x \in Entries : own[x] = q => ord2[x] = ord[x]
    BY <1>5, <1>7
  <2> QED  BY <2>1, <2>2, <2>3 DEF IsTop, Pointers
<1>14. ASSUME NEW q \in Processes PROVE ProcOK(own2, ord2, q)'
  <2>1. ProcOK(own, ord, q) /\ cur[q] \in Pointers /\ last[q] \in Pointers /\ head[q] \in Pointers
    BY <1>1 DEF Lists, Shape, ListType
  <2>2. \A x \in Entries : own[x] = Queue => /\ own2[x] = Queue /\ ord2[x] = ord[x] /\ ord[x] < n /\ x # e
                                             /\ next'[x] = next[x] /\ prev'[x] = prev[x]
    BY <1>2, <1>5, <1>7
  <2>3. \A x \in Entries : own2[x] = Queue => x = e \/ own[x] = Queue
    BY <1>6
  <2>4. ord2[e] = n /\ prev'[e] = Null
    BY <1>2, <1>6
  <2>5. pc[q] \in Holding => last[q] \in Entries /\ own[last[q]] = Queue
    BY <2>1 DEF ProcOK, Held, Pointers
  <2>6. pc[q] \in {"scan", "setprev", "visit", "remove"} /\ cur[q] # Null => cur[q] \in Entries /\ own[cur[q]] = Queue
    BY <2>1 DEF ProcOK, Walked, Pointers
  <2>7. Held(own2, ord2, q)'
    BY <1>2, <2>1, <2>2, <2>3, <2>4, <2>5 DEF ProcOK, Held
  <2>8. Walked(own2, ord2, q)'
    <3>1. CASE pc[q] \in {"scan", "setprev", "visit", "remove"}
      <4>1. /\ last[q] \in Entries /\ ord2[last[q]] = ord[last[q]] /\ ord[last[q]] < n
            /\ ~(ord2[e] < ord2[last[q]])
        BY <1>1, <1>6, <2>2, <2>4, <2>5, <3>1 DEF Holding
      <4>2. cur[q] # Null => own2[cur[q]] = Queue /\ ord2[cur[q]] = ord[cur[q]]
        BY <2>2, <2>6, <3>1
      <4>3. \A x \in Entries : own2[x] = Queue /\ ord2[x] < ord2[last[q]] =>
                own[x] = Queue /\ ord2[x] = ord[x] /\ prev'[x] = prev[x]
        BY <2>2, <2>3, <4>1
      <4> QED  BY <1>2, <2>1, <3>1, <4>1, <4>2, <4>3 DEF ProcOK, Walked
    <3>2. CASE pc[q] \in {"unlock", "add"}
      <4>1. /\ last[q] \in Entries /\ ord2[last[q]] = ord[last[q]] /\ ord[last[q]] < n
            /\ ~(ord2[e] < ord2[last[q]])
        BY <1>1, <1>6, <2>2, <2>4, <2>5, <3>2 DEF Holding
      <4>2. \A x \in Entries : own2[x] = Queue /\ ord2[x] < ord2[last[q]] =>
                own[x] = Queue /\ ord2[x] = ord[x] /\ prev'[x] = prev[x]
        BY <2>2, <2>3, <4>1
      <4> QED  BY <1>2, <2>1, <3>2, <4>1, <4>2 DEF ProcOK, Walked
    <3>3. CASE pc[q] \notin {"scan", "setprev", "visit", "remove", "unlock", "add"}
      BY <1>2, <3>3 DEF Walked
    <3> QED  BY <3>1, <3>2, <3>3
  <2>9. Closed(own2, ord2, q)'
    <3>1. ASSUME NEW x \in Entries, NEW y \in Entries, own2[x] = Queue, own2[y] = Queue,
                 ord2[y] < ord2[x], prev'[x] # Null
          PROVE  /\ own[x] = Queue /\ own[y] = Queue /\ ord[y] < ord[x] /\ prev[x] # Null
                 /\ ord2[x] = ord[x] /\ prev'[y] = prev[y]
      <4>1. own[x] = Queue /\ ord2[x] = ord[x] /\ ord[x] < n /\ prev'[x] = prev[x]
        BY <2>2, <2>3, <2>4, <3>1
      <4>2. y # e
        BY <1>1, <1>6, <2>4, <3>1, <4>1
      <4> QED  BY <2>2, <2>3, <3>1, <4>1, <4>2
    <3>2. pc[q] = "setprev" => cur[q] # Null
      BY <2>1 DEF ProcOK, Walked
    <3>3. pc[q] = "setprev" => ord2[cur[q]] = ord[cur[q]]
      BY <2>2, <2>6, <3>2
    <3> QED  BY <1>2, <2>1, <3>1, <3>3 DEF ProcOK, Closed
  <2>10. Rounds(own2, q)'
    <3>1. pc[q] = "visit" => cur[q] # Null
      BY <2>1 DEF ProcOK, Walked
    <3> QED  BY <1>2, <2>1, <2>2, <2>6, <3>1 DEF ProcOK, Rounds, Pointers
  <2>11. Dropping(own2, q)'
    <3>1. CASE q = e
      <4>1. q \in Droppers => pc[q] = "idle"
        BY <1>1, <2>1, <3>1 DEF ProcOK, Dropping
      <4> QED  BY <1>2, <4>1 DEF Dropping, Holding
    <3>2. CASE q # e
      BY <1>2, <1>6, <2>1, <3>2, NamesApart DEF ProcOK, Dropping
    <3> QED  BY <3>1, <3>2
  <2> QED  BY <2>7, <2>8, <2>9, <2>10, <2>11 DEF ProcOK
<1>15. Shape(own2, ord2, n + 1)'
  BY <1>8, <1>10, <1>11, <1>12, <1>13, <1>14 DEF Shape, Topped
<1> QED  BY <1>1, <1>3, <1>6, <1>15 DEF Lists

LEMMA RemoveInnerStep ==
    ASSUME NEW own, NEW ord, NEW n, Lists(own, ord, n), NEW p \in Droppers, RemoveInner(p),
           NEW own2 \in [Entries -> Owners],
           \A x \in Entries : own2[x] = IF x = p THEN Null ELSE own[x]
    PROVE  Lists(own2, ord, n)'
<1> DEFINE f == prev[p]
           m == next[p]
<1>1. /\ pc[p] = "remove" /\ pc[p] \in Holding /\ cur[p] = p /\ f # Null /\ ProcOK(own, ord, p) /\ ListType
      /\ p \in Processes /\ p \in Entries /\ p # Null /\ own \in [Entries -> Owners]
      /\ ord \in [Entries -> Nat] /\ \A x \in Entries : ord[x] \in Nat
  BY NamesApart DEF RemoveInner, Holding, Lists, Shape
<1>2. /\ own[p] = Queue /\ last[p] \in Entries /\ own[last[p]] = Queue /\ ord[p] <= ord[last[p]]
      /\ own[p] # Null /\ Queue # Null
  BY <1>1, Walker, NamesApart
<1>3. /\ holder = p /\ resolved[p] = Null
      /\ \A x \in Entries : own[x] = Queue /\ ord[last[p]] <= ord[x] => prev[x] = Null
  BY <1>1, Reader DEF ProcOK, Rounds
<1>4. ord[p] < ord[last[p]]
  BY <1>1, <1>2, <1>3
<1>5. f \in Entries /\ own[f] = Queue /\ next[f] = p /\ ord[p] < ord[f] /\ f # p
  <2>1. f \in Entries /\ own[f] = Queue /\ next[f] = p
    BY <1>1, <1>2 DEF ListType, Pointers, Lists, Shape, Backed
  <2>2. ord[p] < ord[f]
    BY <1>1, <1>2, <2>1, Before
  <2> QED  BY <1>1, <2>1, <2>2
<1>6. m # Null => /\ m \in Entries /\ own[m] = Queue /\ ord[m] < ord[p] /\ m # p /\ m # f
  BY <1>1, <1>2, <1>5, Before
<1>7. /\ pc'[p] = "scan" /\ cur'[p] = last[p] /\ last'[p] = last[p] /\ resolved'[p] = Null
      /\ holder' = p /\ tail' = tail /\ status' = status /\ missing' = missing
      /\ \A x \in Entries : next'[x] = IF x = f THEN m ELSE next[x]
      /\ \A x \in Entries : prev'[x] = IF x = m THEN f ELSE prev[x]
  <2>1. /\ pc'[p] = "scan" /\ cur'[p] = last[p] /\ last'[p] = last[p] /\ resolved'[p] = Null
        /\ holder' = p /\ tail' = tail /\ status' = status /\ missing' = missing
    BY <1>1, <1>3 DEF RemoveInner, Process, Set, Goto, ListType
  <2>2. \A x \in Entries : next'[x] = IF x = f THEN m ELSE next[x]
    BY <1>1 DEF RemoveInner, Set, ListType
  <2>3. \A x \in Entries : prev'[x] = IF x = m THEN f ELSE prev[x]
    BY <1>1, NamesApart DEF RemoveInner, SetNext, Set, ListType
  <2> QED  BY <2>1, <2>2, <2>3
<1>8. ListType'
  <2>1. f \in Pointers /\ m \in Pointers /\ last[p] \in Pointers
    BY <1>1 DEF ListType
  <2>2. next' \in [Entries -> Pointers] /\ prev' \in [Entries -> Pointers]
    BY <1>1, <2>1 DEF RemoveInner, SetNext, Set, ListType
  <2>3. pc' \in [Processes -> Labels] /\ cur' \in [Processes -> Pointers] /\ last' \in [Processes -> Pointers]
    BY <1>1, <2>1 DEF RemoveInner, Process, Goto, Set, ListType, Labels
  <2> QED  BY <1>1, <1>7, <2>2, <2>3 DEF RemoveInner, ListType
<1>9. \A q \in Processes \ {p} : Same(q) /\ pc[q] \notin Holding
  <2>1. \A q \in Processes \ {p} : pc'[q] = pc[q] /\ cur'[q] = cur[q] /\ last'[q] = last[q]
    BY <1>1 DEF RemoveInner, Process, Set, Goto, ListType
  <2>2. head' = head /\ resolved' = resolved /\ missing' = missing
    BY DEF RemoveInner
  <2> QED  BY <1>1, <2>1, <2>2, Alone DEF Same
<1>10. \A x \in Entries : own[x] # p
  BY <1>1, NothingTaken DEF Telling, Ending
<1>11. /\ own2 \in [Entries -> Owners]
       /\ \A x \in Entries : own2[x] = IF x = p THEN Null ELSE own[x]
  BY <1>1 DEF Owners
<1>12. \A q \in Processes, x \in Entries : own2[x] = q <=> own[x] = q
  BY <1>2, <1>11, NamesApart
<1>13. \A q \in Processes \ {p} : ProcOK(own2, ord, q)'
  <2>1. \A q \in Processes \ {p} : Kept(own, own2, q)
    BY <1>7, <1>11, NamesApart DEF Kept
  <2> QED  BY <1>9, <2>1, Bystander
<1>14. Placed(own2, ord, n)'
  BY <1>7, <1>11 DEF Lists, Shape, Placed
<1>15. Linked(own2, ord)'
  <2>1. ASSUME NEW x \in Entries, own2[x] # Null, next'[x] # Null
        PROVE  own2[next'[x]] = own2[x] /\ ord[next'[x]] < ord[x]
    <3>1. x # p /\ own2[x] = own[x] /\ own[x] # Null
      BY <1>11, <2>1
    <3>2. CASE x = f
      <4>1. next'[x] = m /\ m # Null
        BY <1>7, <2>1, <3>2
      <4>2. own2[m] = Queue /\ ord[m] < ord[f]
        BY <1>1, <1>5, <1>6, <1>11, <4>1
      <4> QED  BY <1>5, <3>1, <3>2, <4>1, <4>2
    <3>3. CASE x # f
      <4>1. next'[x] = next[x]
        BY <1>7, <3>3
      <4>2. next[x] \in Entries /\ own[next[x]] = own[x] /\ ord[next[x]] < ord[x]
        BY <2>1, <3>1, <4>1, Before
      <4>3. next[x] # p
        BY <1>1, <1>2, <1>5, <3>1, <3>3, <4>2, OneSuccessor
      <4> QED  BY <1>11, <3>1, <4>1, <4>2, <4>3
    <3> QED  BY <3>2, <3>3
  <2>2. ASSUME NEW x \in Entries, NEW y \in Entries, own2[x] # Null, own2[y] = own2[x], ord[y] < ord[x]
        PROVE  next'[x] # Null /\ ord[y] <= ord[next'[x]]
    <3>1. x # p /\ y # p /\ own[x] # Null /\ own[y] = own[x]
      BY <1>11, <2>2
    <3>2. next[x] # Null /\ ord[y] <= ord[next[x]]
      BY <2>2, <3>1 DEF Lists, Shape, Linked
    <3>3. CASE x = f
      <4>1. ord[y] <= ord[p] /\ own[y] = Queue
        BY <1>5, <3>1, <3>2, <3>3
      <4>2. ord[y] # ord[p]
        BY <1>1, <1>2, <3>1, <4>1 DEF Lists, Shape, Placed
      <4>3. ord[y] < ord[p]
        BY <1>1, <4>1, <4>2
      <4>4. m # Null /\ ord[y] <= ord[m]
        BY <1>1, <1>2, <4>1, <4>3 DEF Lists, Shape, Linked
      <4> QED  BY <1>7, <3>3, <4>4
    <3>4. CASE x # f
      BY <1>7, <3>2, <3>4
    <3> QED  BY <3>3, <3>4
  <2> QED  BY <2>1, <2>2 DEF Linked
<1>16. Backed(own2)'
  <2>1. ASSUME NEW x \in Entries, own2[x] = Queue, prev'[x] # Null
        PROVE  own2[prev'[x]] = Queue /\ next'[prev'[x]] = x
    <3>1. x # p /\ own[x] = Queue
      BY <1>2, <1>11, <2>1
    <3>2. CASE x = m
      BY <1>5, <1>7, <1>11, <3>2
    <3>3. CASE x # m
      <4>1. prev'[x] = prev[x]
        BY <1>7, <3>3
      <4>2. prev[x] \in Entries /\ own[prev[x]] = Queue /\ next[prev[x]] = x
        BY <1>1, <2>1, <3>1, <4>1 DEF ListType, Pointers, Lists, Shape, Backed
      <4>3. prev[x] # p /\ prev[x] # f
        BY <1>5, <3>1, <3>3, <4>2
      <4> QED  BY <1>7, <1>11, <4>1, <4>2, <4>3
    <3> QED  BY <3>2, <3>3
  <2> QED  BY <2>1 DEF Backed
<1>17. IsTop(own2, ord, Queue, tail)'
  <2>1. IsTop(own, ord, Queue, tail) /\ tail \in Pointers
    BY <1>1 DEF Lists, Shape, Topped, ListType
  <2>2. tail # Null /\ tail \in Entries /\ own[tail] = Queue /\ ord[f] <= ord[tail]
    BY <1>5, <2>1 DEF IsTop, Pointers
  <2>3. tail # p
    BY <1>1, <1>5, <2>2
  <2> QED  BY <1>7, <1>11, <2>1, <2>2, <2>3, NamesApart DEF IsTop
<1>18. IsTop(own2, ord, p, Newest(p))'
  <2>1. \A x \in Entries : own2[x] # p
    BY <1>1, <1>10, <1>12
  <2> QED  BY <1>7, <2>1, EmptyTop DEF Newest, Telling, Ending
<1>19. ProcOK(own2, ord, p)'
  <2>1. own2[last[p]] = Queue
    BY <1>1, <1>2, <1>4, <1>11
  <2>2. ASSUME NEW x \in Entries, own2[x] = Queue, ord[last[p]] <= ord[x] PROVE prev'[x] = Null
    <3>1. own[x] = Queue
      BY <1>2, <1>11, <2>2
    <3>2. x # m
      BY <1>1, <1>2, <1>4, <1>6, <2>2, NamesApart
    <3> QED  BY <1>3, <1>7, <2>2, <3>1, <3>2
  <2>3. Held(own2, ord, p)' /\ Walked(own2, ord, p)' /\ Closed(own2, ord, p)' /\ Rounds(own2, p)'
    <3>1. /\ ord \in [Entries -> Nat] /\ last'[p] \in Entries /\ own2[last'[p]] = Queue
          /\ pc'[p] = "scan" /\ cur'[p] = last'[p] /\ holder' = p /\ resolved'[p] = Null
      BY <1>1, <1>2, <1>7, <2>1
    <3>2. \A x \in Entries : own2[x] = Queue /\ ord[last'[p]] <= ord[x] => prev'[x] = Null
      BY <1>7, <2>2
    <3> QED  BY <3>1, <3>2, NewWalk
  <2>4. Dropping(own2, p)'
    BY <1>1, <1>7, <1>11 DEF ProcOK, Dropping
  <2> QED  BY <2>3, <2>4 DEF ProcOK
<1>20. own2 \in [Entries -> Owners] /\ p \in Processes
  BY <1>1, <1>11
<1>21. \A q \in Processes \ {p} : Same(q) /\ ProcOK(own2, ord, q)'
  BY <1>9, <1>13
<1> QED  BY <1>8, <1>12, <1>14, <1>15, <1>16, <1>17, <1>18, <1>19, <1>20, <1>21, Assemble

LEMMA RemoveTailStep ==
    ASSUME NEW own, NEW ord, NEW n, Lists(own, ord, n), NEW p \in Droppers, RemoveTail(p),
           NEW own2 \in [Entries -> Owners],
           \A x \in Entries : own2[x] = IF x = p THEN Null ELSE own[x]
    PROVE  Lists(own2, ord, n)'
<1> DEFINE m == next[p]
<1>1. /\ pc[p] = "remove" /\ pc[p] \in Holding /\ cur[p] = p /\ prev[p] = Null /\ m # Null
      /\ tail = last[p] /\ ProcOK(own, ord, p) /\ ListType
      /\ p \in Processes /\ p \in Entries /\ p # Null /\ own \in [Entries -> Owners]
      /\ ord \in [Entries -> Nat] /\ \A x \in Entries : ord[x] \in Nat
  BY NamesApart DEF RemoveTail, Holding, Lists, Shape
<1>2. own[p] = Queue /\ own[p] # Null /\ Queue # Null /\ p = tail
  BY <1>1, Walker, NoSuccessor, NamesApart
<1>3. holder = p /\ resolved[p] = Null
  BY <1>1, Reader DEF ProcOK, Rounds
<1>4. \A x \in Entries : own[x] = Queue => ord[x] <= ord[p]
  BY <1>1, <1>2 DEF Lists, Shape, Topped, IsTop
<1>5. /\ m \in Entries /\ own[m] = Queue /\ ord[m] < ord[p] /\ m # p
      /\ \A x \in Entries : own[x] = Queue /\ ord[x] < ord[p] => ord[x] <= ord[m]
  BY <1>1, <1>2, Before
<1>6. \A x \in Entries : own[x] = Queue /\ x # p => ord[x] < ord[p] /\ ord[x] <= ord[m]
  <2>1. \A x \in Entries : own[x] = Queue /\ x # p => ord[x] # ord[p]
    BY <1>1, <1>2 DEF Lists, Shape, Placed
  <2>2. \A x \in Entries : own[x] = Queue /\ x # p => ord[x] < ord[p]
    BY <1>1, <1>4, <2>1
  <2> QED  BY <1>5, <2>2
<1>7. /\ pc'[p] = "scan" /\ cur'[p] = m /\ last'[p] = m /\ resolved'[p] = Null /\ tail' = m
      /\ holder' = p /\ next' = next /\ status' = status /\ missing' = missing
      /\ \A x \in Entries : prev'[x] = IF x = m THEN Null ELSE prev[x]
  <2>1. /\ pc'[p] = "scan" /\ cur'[p] = m /\ last'[p] = m /\ resolved'[p] = Null /\ tail' = m
        /\ holder' = p /\ next' = next /\ status' = status /\ missing' = missing
    BY <1>1, <1>3 DEF RemoveTail, Process, Set, Goto, ListType
  <2>2. \A x \in Entries : prev'[x] = IF x = m THEN Null ELSE prev[x]
    BY <1>1 DEF RemoveTail, Set, ListType
  <2> QED  BY <2>1, <2>2
<1>8. ListType'
  <2>1. m \in Pointers /\ Null \in Pointers
    BY <1>1 DEF ListType, Pointers
  <2>2. prev' \in [Entries -> Pointers]
    BY <1>1, <2>1 DEF RemoveTail, Set, ListType
  <2>3. pc' \in [Processes -> Labels] /\ cur' \in [Processes -> Pointers] /\ last' \in [Processes -> Pointers]
    BY <1>1, <2>1 DEF RemoveTail, Process, Goto, Set, ListType, Labels
  <2> QED  BY <1>1, <1>7, <2>1, <2>2, <2>3 DEF RemoveTail, ListType
<1>9. \A q \in Processes \ {p} : Same(q) /\ pc[q] \notin Holding
  <2>1. \A q \in Processes \ {p} : pc'[q] = pc[q] /\ cur'[q] = cur[q] /\ last'[q] = last[q]
    BY <1>1 DEF RemoveTail, Process, Set, Goto, ListType
  <2>2. head' = head /\ resolved' = resolved /\ missing' = missing
    BY DEF RemoveTail
  <2> QED  BY <1>1, <2>1, <2>2, Alone DEF Same
<1>10. \A x \in Entries : own[x] # p
  BY <1>1, NothingTaken DEF Telling, Ending
<1>11. /\ own2 \in [Entries -> Owners]
       /\ \A x \in Entries : own2[x] = IF x = p THEN Null ELSE own[x]
  BY <1>1 DEF Owners
<1>12. \A q \in Processes, x \in Entries : own2[x] = q <=> own[x] = q
  BY <1>2, <1>11, NamesApart
<1>13. \A q \in Processes \ {p} : ProcOK(own2, ord, q)'
  <2>1. \A q \in Processes \ {p} : Kept(own, own2, q)
    BY <1>7, <1>11, NamesApart DEF Kept
  <2> QED  BY <1>9, <2>1, Bystander
<1>14. Placed(own2, ord, n)'
  BY <1>7, <1>11 DEF Lists, Shape, Placed
<1>15. Linked(own2, ord)'
  <2>1. ASSUME NEW x \in Entries, own2[x] # Null, next[x] # Null
        PROVE  own2[next[x]] = own2[x] /\ ord[next[x]] < ord[x]
    <3>1. x # p /\ own2[x] = own[x] /\ own[x] # Null
      BY <1>11, <2>1
    <3>2. next[x] \in Entries /\ own[next[x]] = own[x] /\ ord[next[x]] < ord[x]
      BY <2>1, <3>1, Before
    <3>3. next[x] # p
      BY <1>1, <1>2, <1>4, <3>2
    <3> QED  BY <1>11, <3>1, <3>2, <3>3
  <2>2. ASSUME NEW x \in Entries, NEW y \in Entries, own2[x] # Null, own2[y] = own2[x], ord[y] < ord[x]
        PROVE  next[x] # Null /\ ord[y] <= ord[next[x]]
    BY <1>11, <2>2 DEF Lists, Shape, Linked
  <2> QED  BY <1>7, <2>1, <2>2 DEF Linked
<1>16. Backed(own2)'
  <2>1. ASSUME NEW x \in Entries, own2[x] = Queue, prev'[x] # Null
        PROVE  own2[prev'[x]] = Queue /\ next[prev'[x]] = x
    <3>1. x # p /\ own[x] = Queue /\ x # m /\ prev'[x] = prev[x]
      BY <1>2, <1>7, <1>11, <2>1
    <3>2. prev[x] \in Entries /\ own[prev[x]] = Queue /\ next[prev[x]] = x
      BY <1>1, <2>1, <3>1 DEF ListType, Pointers, Lists, Shape, Backed
    <3> QED  BY <1>11, <3>1, <3>2
  <2> QED  BY <1>7, <2>1 DEF Backed
<1>17. IsTop(own2, ord, Queue, tail)'
  BY <1>1, <1>2, <1>5, <1>6, <1>7, <1>11 DEF IsTop
<1>18. IsTop(own2, ord, p, Newest(p))'
  <2>1. \A x \in Entries : own2[x] # p
    BY <1>1, <1>10, <1>12
  <2> QED  BY <1>7, <2>1, EmptyTop DEF Newest, Telling, Ending
<1>19. ProcOK(own2, ord, p)'
  <2>1. own2[m] = Queue
    BY <1>5, <1>11
  <2>2. ASSUME NEW x \in Entries, own2[x] = Queue, ord[m] <= ord[x] PROVE prev'[x] = Null
    <3>1. own[x] = Queue /\ x # p
      BY <1>2, <1>11, <2>2
    <3>2. ord[x] = ord[m]
      BY <1>1, <1>5, <1>6, <2>2, <3>1
    <3>3. x = m
      BY <1>2, <1>5, <3>1, <3>2 DEF Lists, Shape, Placed
    <3> QED  BY <1>7, <3>3
  <2>3. Held(own2, ord, p)' /\ Walked(own2, ord, p)' /\ Closed(own2, ord, p)' /\ Rounds(own2, p)'
    BY <1>1, <1>5, <1>7, <2>1, <2>2, NewWalk
  <2>4. Dropping(own2, p)'
    BY <1>1, <1>7, <1>11 DEF ProcOK, Dropping
  <2> QED  BY <2>3, <2>4 DEF ProcOK
<1>20. own2 \in [Entries -> Owners] /\ p \in Processes
  BY <1>1, <1>11
<1>21. \A q \in Processes \ {p} : Same(q) /\ ProcOK(own2, ord, q)'
  BY <1>9, <1>13
<1> HIDE DEF m
<1> QED  BY <1>8, <1>12, <1>14, <1>15, <1>16, <1>17, <1>18, <1>19, <1>20, <1>21, Assemble

LEMMA RemoveSoleStep ==
    ASSUME NEW own, NEW ord, NEW n, Lists(own, ord, n), NEW p \in Droppers, RemoveSole(p),
           NEW own2 \in [Entries -> Owners],
           \A x \in Entries : own2[x] = IF x = p THEN Null ELSE own[x]
    PROVE  Lists(own2, ord, n)'
<1>1. /\ pc[p] = "remove" /\ pc[p] \in Holding /\ cur[p] = p /\ prev[p] = Null /\ next[p] = Null
      /\ tail = last[p] /\ ProcOK(own, ord, p) /\ ListType
      /\ p \in Processes /\ p \in Entries /\ p # Null
      /\ \A x \in Entries : ord[x] \in Nat
  BY NamesApart DEF RemoveSole, Holding, Lists, Shape
<1>2. own[p] = Queue /\ own[p] # Null /\ Queue # Null /\ p = tail
  BY <1>1, Walker, NoSuccessor, NamesApart
<1>3. \A x \in Entries : own[x] = Queue => x = p
  <2>1. \A x \in Entries : own[x] = Queue => ord[x] <= ord[p] /\ ord[p] <= ord[x]
    BY <1>1, <1>2, Before DEF Lists, Shape, Topped, IsTop
  <2>2. \A x \in Entries : own[x] = Queue => ord[x] = ord[p]
    BY <1>1, <2>1
  <2> QED  BY <1>1, <1>2, <2>2 DEF Lists, Shape, Placed
<1>4. resolved[p] = Null
  BY <1>1 DEF ProcOK, Rounds
<1>5. /\ pc'[p] = "idle" /\ resolved'[p] = Null /\ tail' = Null
      /\ \A x \in Entries : next'[x] = IF x = p THEN Null ELSE next[x]
      /\ \A x \in Entries : status'[x] = IF x = p THEN "out" ELSE status[x]
  BY <1>1, <1>4 DEF RemoveSole, Exit, Set, Goto, ListType
<1>6. ListType'
  BY <1>1 DEF RemoveSole, Exit, Set, Goto, ListType, Labels, Pointers
<1>7. \A q \in Processes \ {p} : Same(q) /\ pc[q] \notin Holding
  BY <1>1, Alone DEF Same, RemoveSole, Set, Goto, ListType
<1>8. \A x \in Entries : own2[x] # Queue /\ own2[x] # p
  BY <1>1, <1>2, <1>3, NothingTaken DEF Telling, Ending
<1>9. \A q \in Processes \ {p}, x \in Entries : own2[x] = q <=> own[x] = q
  BY <1>2, NamesApart
<1>10. \A q \in Processes \ {p} : Same(q) /\ ProcOK(own2, ord, q)'
  <2>1. \A q \in Processes \ {p} : Kept(own, own2, q)
    BY <1>5, NamesApart DEF Kept
  <2> QED  BY <1>7, <2>1, Bystander
<1>11. Placed(own2, ord, n)'
  BY <1>5 DEF Lists, Shape, Placed
<1>12. Linked(own2, ord)'
  <2>1. ASSUME NEW x \in Entries, own2[x] # Null, next'[x] # Null
        PROVE  own2[next'[x]] = own2[x] /\ ord[next'[x]] < ord[x]
    <3>1. x # p /\ own2[x] = own[x] /\ own[x] # Null /\ next'[x] = next[x]
      BY <1>5, <2>1
    <3>2. next[x] \in Entries /\ own[next[x]] = own[x] /\ ord[next[x]] < ord[x]
      BY <2>1, <3>1, Before
    <3>3. next[x] # p
      BY <1>2, <1>8, <3>1, <3>2
    <3> QED  BY <3>1, <3>2, <3>3
  <2>2. ASSUME NEW x \in Entries, NEW y \in Entries, own2[x] # Null, own2[y] = own2[x], ord[y] < ord[x]
        PROVE  next'[x] # Null /\ ord[y] <= ord[next'[x]]
    <3>1. x # p /\ y # p /\ own[x] # Null /\ own[y] = own[x] /\ next'[x] = next[x]
      BY <1>5, <2>2
    <3> QED  BY <2>2, <3>1 DEF Lists, Shape, Linked
  <2> QED  BY <2>1, <2>2 DEF Linked
<1>13. Backed(own2)' /\ IsTop(own2, ord, Queue, tail)'
  BY <1>5, <1>8 DEF Backed, IsTop
<1>14. IsTop(own2, ord, p, Newest(p))'
  BY <1>5, <1>8, EmptyTop DEF Newest, Telling, Ending
<1>15. ProcOK(own2, ord, p)'
  BY <1>5 DEF ProcOK, Held, Walked, Closed, Rounds, Dropping, Holding
<1>16. p \in Processes
  BY <1>1
<1> QED  BY <1>6, <1>9, <1>10, <1>11, <1>12, <1>13, <1>14, <1>15, <1>16, Assemble

-----------------------------------------------------------------------------
LEMMA ListsInit ==
    ASSUME Init PROVE \E own, ord, n : Lists(own, ord, n) /\ \A x \in Entries : own[x] = Null
<1> DEFINE none == [e \in Entries |-> Null]
           zero == [e \in Entries |-> 0]
<1>1. Queue # Null /\ Null \notin Processes
  BY NamesApart
<1>2. none \in [Entries -> Owners] /\ zero \in [Entries -> Nat] /\ 0 \in Nat
      /\ \A x \in Entries : none[x] = Null
  BY DEF Owners
<1>3. ListType
  BY DEF Init, ListType, Pointers, Labels
<1> HIDE DEF none, zero
<1>4. Placed(none, zero, 0) /\ Linked(none, zero) /\ Backed(none)
  BY <1>1, <1>2 DEF Placed, Linked, Backed
<1>5. Topped(none, zero)
  BY <1>1, <1>2 DEF Init, Topped, IsTop, Newest, Telling, Ending
<1>6. ASSUME NEW p \in Processes PROVE ProcOK(none, zero, p)
  <2>1. pc[p] = "idle" /\ resolved[p] = Null
    BY DEF Init
  <2> QED  BY <2>1 DEF ProcOK, Held, Walked, Closed, Rounds, Dropping, Holding
<1>7. Lists(none, zero, 0)
  BY <1>2, <1>3, <1>4, <1>5, <1>6 DEF Lists, Shape
<1> QED  BY <1>2, <1>7

LEMMA ListsStutter ==
    ASSUME NEW own, NEW ord, NEW n, Lists(own, ord, n), UNCHANGED vars PROVE Lists(own, ord, n)'
<1>1. UNCHANGED <<tail, holder, next, prev, status, pc, cur, head, last, resolved, missing>>
  BY DEF vars, links, locals
<1>2. ListType' /\ Placed(own, ord, n)' /\ Linked(own, ord)' /\ Backed(own)'
  BY <1>1 DEF Lists, Shape, ListType, Placed, Linked, Backed
<1>3. Topped(own, ord)'
  BY <1>1 DEF Lists, Shape, Topped, IsTop, Newest
<1>4. \A p \in Processes : ProcOK(own, ord, p)'
  <2>1. \A p \in Processes : Same(p) /\ Kept(own, own, p)
    BY <1>1 DEF Same, Kept
  <2> QED  BY <1>1, <2>1, Others
<1> QED  BY <1>2, <1>3, <1>4 DEF Lists, Shape

LEMMA ListsDangling == ASSUME ListInv PROVE NoDangling
<1> PICK own, ord, n : Lists(own, ord, n)
  BY DEF ListInv
<1>1. ASSUME NEW x \in Entries, own[x] # Null
      PROVE  /\ status[x] = "in" /\ Alive(x)
             /\ next[x] # Null => Alive(next[x])
             /\ own[x] = Queue /\ prev[x] # Null => Alive(prev[x])
  <2>1. status[x] = "in" /\ Alive(x)
    BY <1>1 DEF Lists, Shape, Placed, Alive
  <2>2. ASSUME next[x] # Null PROVE Alive(next[x])
    <3>1. next[x] \in Entries /\ own[next[x]] = own[x]
      BY <1>1, <2>2, Before
    <3> QED  BY <1>1, <3>1 DEF Lists, Shape, Placed, Alive
  <2>3. ASSUME own[x] = Queue, prev[x] # Null PROVE Alive(prev[x])
    <3>1. prev[x] \in Entries /\ own[prev[x]] = Queue
      BY <1>1, <2>3 DEF Lists, Shape, ListType, Pointers, Backed
    <3> QED  BY <1>1, <2>3, <3>1 DEF Lists, Shape, Placed, Alive
  <2> QED  BY <2>1, <2>2, <2>3
<1>2. ASSUME NEW p \in Processes, pc[p] \in {"scan", "setprev", "visit", "remove"}, cur[p] # Null
      PROVE  cur[p] \in Entries /\ own[cur[p]] = Queue /\ own[cur[p]] # Null
  BY <1>2, Walker, NamesApart
<1>3. ASSUME NEW p \in Processes, pc[p] \in Telling, cur[p] # Null
      PROVE  cur[p] \in Entries /\ own[cur[p]] # Null
  <2>1. Newest(p) = cur[p] /\ IsTop(own, ord, p, Newest(p)) /\ cur[p] \in Pointers
    BY <1>3 DEF Newest, Lists, Shape, Topped, ListType
  <2> QED  BY <1>3, <2>1, NamesApart DEF IsTop, Pointers
<1>4. ASSUME NEW p \in Processes, pc[p] = "visit" PROVE cur[p] # Null
  BY <1>4 DEF Lists, Shape, ProcOK, Walked
<1>5. ASSUME NEW p \in Processes, pc[p] \in {"unlock", "add"}
      PROVE  cur[p] \in Entries /\ own[cur[p]] # Null
  <2>1. Rounds(own, p) /\ head[p] \in Pointers
    BY DEF Lists, Shape, ProcOK, ListType
  <2> QED  BY <1>5, <2>1, NamesApart DEF Rounds, Pointers
<1>6. ASSUME NEW p \in Processes, pc[p] \notin {"idle", "complete", "drop"}, cur[p] # Null
      PROVE  cur[p] \in Entries /\ own[cur[p]] # Null
  <2>1. pc[p] \in Labels
    BY DEF Lists, ListType
  <2> QED  BY <1>2, <1>3, <1>5, <1>6, <2>1 DEF Labels, Telling
<1> SUFFICES ASSUME NEW p \in Processes
             PROVE  /\ pc[p] \notin {"idle", "complete", "drop"} /\ cur[p] # Null =>
                           Alive(cur[p]) /\ (next[cur[p]] # Null => Alive(next[cur[p]]))
                    /\ pc[p] = "visit" => cur[p] # Null /\ (prev[cur[p]] # Null => Alive(prev[cur[p]]))
                    /\ pc[p] = "remove" /\ cur[p] = p /\ prev[cur[p]] # Null => Alive(prev[cur[p]])
                    /\ pc[p] \in {"tell_more", "tell_done"} /\ cur[p] # Null => status[cur[p]] = "in"
  BY DEF NoDangling
<1>7. pc[p] \notin {"idle", "complete", "drop"} /\ cur[p] # Null =>
          Alive(cur[p]) /\ (next[cur[p]] # Null => Alive(next[cur[p]]))
  BY <1>1, <1>6
<1>8. pc[p] = "visit" => cur[p] # Null /\ (prev[cur[p]] # Null => Alive(prev[cur[p]]))
  BY <1>1, <1>2, <1>4
<1>9. pc[p] = "remove" /\ cur[p] = p /\ prev[cur[p]] # Null => Alive(prev[cur[p]])
  BY <1>1, <1>2, NamesApart
<1>10. pc[p] \in {"tell_more", "tell_done"} /\ cur[p] # Null => status[cur[p]] = "in"
  BY <1>1, <1>3 DEF Telling
<1> QED  BY <1>7, <1>8, <1>9, <1>10

LEMMA ListsPrev == ASSUME ListInv PROVE PrevRight
<1> PICK own, ord, n : Lists(own, ord, n)
  BY DEF ListInv
<1>1. ASSUME NEW p \in Processes, pc[p] = "setprev", next[cur[p]] # Null
      PROVE  prev[next[cur[p]]] \in {Null, cur[p]}
  <2> DEFINE e == cur[p]
             m == next[e]
  <2>1. e \in Entries /\ own[e] = Queue /\ own[e] # Null
    BY <1>1, Walker, NamesApart
  <2>2. m \in Entries /\ own[m] = Queue
    BY <1>1, <2>1, Before
  <2>3. ASSUME prev[m] # Null PROVE prev[m] = e
    <3>1. prev[m] \in Entries /\ own[prev[m]] = Queue /\ next[prev[m]] = m
      BY <2>2, <2>3 DEF Lists, Shape, ListType, Pointers, Backed
    <3> QED  BY <1>1, <2>1, <3>1, OneSuccessor
  <2> QED  BY <2>3
<1>2. ASSUME NEW p \in Processes, pc[p] = "visit", prev[cur[p]] = Null PROVE cur[p] = last[p]
  BY <1>2, NoSuccessor
<1>3. ASSUME NEW p \in Processes, pc[p] = "visit", prev[cur[p]] # Null PROVE next[prev[cur[p]]] = cur[p]
  <2>1. cur[p] \in Entries /\ own[cur[p]] = Queue
    BY <1>3, Walker
  <2> QED  BY <1>3, <2>1 DEF Lists, Shape, Backed
<1> QED  BY <1>1, <1>2, <1>3 DEF PrevRight

-----------------------------------------------------------------------------
(* The sequences that the pointers stand for.  A set of numbers has a      *)
(* least one, which is all the induction that is needed here.              *)
LEMMA NatMin ==
    ASSUME NEW T, T \subseteq Nat, T # {} PROVE \E k \in T : \A j \in T : k <= j
<1> DEFINE R == OpToRel(<, Nat)
<1>1. IsWellFoundedOn(R, Nat)
  BY NatLessThanWellFounded
<1>2. \A i, j \in Nat : i < j => <<i, j>> \in R
  BY DEF OpToRel
<1> HIDE DEF R
<1>3. PICK k \in T : \A j \in T : ~(<<j, k>> \in R)
  BY <1>1, WFMin
<1>4. \A j \in T : ~(j < k)
  BY <1>2, <1>3
<1>5. \A j \in T : k <= j
  BY <1>4
<1> QED  BY <1>3, <1>5

(* The links lead from x through the entries of s, newest first. *)
Path(s, x) ==
    /\ s \in Seq(Entries) /\ (x = Null <=> s = <<>>)
    /\ s # <<>> => s[Len(s)] = x
    /\ \A i \in 1..(Len(s) - 1) : next[s[i + 1]] = s[i]

Step(e, stop) == IF e \in {Null, stop} THEN Null ELSE next[e]

(* What Chain computes for a path that ends at Null or at `stop`. *)
LEMMA ChainIs ==
    ASSUME NEW s, NEW x, NEW stop, Path(s, x), Len(s) <= Cardinality(Entries),
           \A i \in 1..Len(s) : s[i] # stop, s # <<>> => next[s[1]] \in {Null, stop}
    PROVE  Chain(x, stop) = s
<1> DEFINE size == Cardinality(Entries) + 1
           f == [k \in 0..size |-> IF k < Len(s) THEN s[Len(s) - k]
                                   ELSE IF k = Len(s) /\ s # <<>> THEN next[s[1]] ELSE Null]
           R(g) == g = [k \in 0..size |-> IF k = 0 THEN x ELSE Step(g[k - 1], stop)]
<1>1. Cardinality(Entries) \in Nat /\ Len(s) \in Nat /\ size \in Nat
  BY WaitListAssumption, FS_CardinalityType DEF Path
<1>2. \A i \in 1..Len(s) : s[i] \in Entries /\ s[i] # Null /\ s[i] # stop
  BY NamesApart DEF Path
<1>3. R(f)
  <2>1. ASSUME NEW k \in 0..size PROVE f[k] = IF k = 0 THEN x ELSE Step(f[k - 1], stop)
    <3>1. CASE k = 0
      BY <1>1, <3>1 DEF Path
    <3>2. CASE k # 0 /\ k < Len(s)
      <4>1. f[k] = s[Len(s) - k] /\ f[k - 1] = s[Len(s) - (k - 1)]
        BY <1>1, <3>2
      <4>2. next[s[(Len(s) - k) + 1]] = s[Len(s) - k]
        BY <1>1, <3>2 DEF Path
      <4>3. f[k - 1] \notin {Null, stop} /\ Len(s) - (k - 1) = (Len(s) - k) + 1
        BY <1>1, <1>2, <3>2, <4>1
      <4> QED  BY <3>2, <4>1, <4>2, <4>3 DEF Step
    <3>3. CASE k # 0 /\ k = Len(s)
      <4>1. f[k] = next[s[1]] /\ f[k - 1] = s[1]
        BY <1>1, <3>3
      <4> QED  BY <1>1, <1>2, <3>3, <4>1 DEF Step
    <3>4. CASE k # 0 /\ k > Len(s)
      <4>1. f[k] = Null /\ f[k - 1] \in {Null, stop}
        BY <1>1, <3>4
      <4> QED  BY <3>4, <4>1 DEF Step
    <3> QED  BY <1>1, <3>1, <3>2, <3>3, <3>4
  <2> QED  BY <2>1
<1>4. ASSUME NEW g, R(g) PROVE g = f
  <2> DEFINE Bad == {k \in 0..size : g[k] # f[k]}
  <2>1. f \in [0..size -> {f[k] : k \in 0..size}] /\ DOMAIN f = 0..size /\ DOMAIN g = 0..size
    BY <1>4
  <2>2. \A k \in 0..size : k # 0 => g[k] = Step(g[k - 1], stop) /\ f[k] = Step(f[k - 1], stop)
    BY <1>3, <1>4
  <2>3. g[0] = f[0]
    <3>1. 0 \in 0..size
      BY <1>1
    <3>2. g[0] = x
      BY <1>4, <3>1
    <3>3. f[0] = x
      BY <1>3, <3>1
    <3> QED  BY <3>2, <3>3
  <2> HIDE DEF f
  <2>4. Bad = {}
    <3> SUFFICES ASSUME Bad # {} PROVE FALSE
      OBVIOUS
    <3>1. Bad \subseteq Nat
      BY <1>1
    <3>2. PICK k \in Bad : \A j \in Bad : k <= j
      BY <3>1, NatMin
    <3>3. k \in Nat /\ k \in 0..size /\ k # 0 /\ g[k] # f[k]
      BY <1>1, <2>3, <3>2
    <3>4. k - 1 \in 0..size /\ k - 1 \notin Bad
      BY <1>1, <3>2, <3>3
    <3>5. g[k - 1] = f[k - 1]
      BY <3>4
    <3> QED  BY <2>2, <3>3, <3>5
  <2>5. \A k \in 0..size : g[k] = f[k]
    BY <2>4
  <2>6. g = [k \in 0..size |-> g[k]] /\ f = [k \in 0..size |-> f[k]]
    BY <1>4, <2>1 DEF f
  <2> QED  BY <2>5, <2>6
<1> DEFINE at == CHOOSE g : R(g)
<1>5. R(at)
  BY <1>3
<1>6. at = f
  BY <1>4, <1>5
<1> DEFINE length == Cardinality({k \in 0..size : at[k] \notin {Null, stop}})
<1>7. Chain(x, stop) = [i \in 1..length |-> at[length - i]]
  BY DEF Chain, Step
<1>8. \A k \in 0..size : at[k] \notin {Null, stop} <=> k \in 0..(Len(s) - 1)
  <2>1. ASSUME NEW k \in 0..size, k < Len(s) PROVE f[k] \notin {Null, stop}
    BY <1>1, <1>2, <2>1
  <2>2. ASSUME NEW k \in 0..size, ~(k < Len(s)) PROVE f[k] \in {Null, stop}
    BY <1>1, <2>2
  <2> HIDE DEF f, at
  <2> QED  BY <1>1, <1>6, <2>1, <2>2
<1>9. {k \in 0..size : at[k] \notin {Null, stop}} = 0..(Len(s) - 1)
  <2> HIDE DEF at
  <2> QED  BY <1>1, <1>8
<1>10. length = Len(s)
  <2>1. Len(s) - 1 \in Int /\ 0 \in Int
    BY <1>1
  <2>2. Cardinality(0..(Len(s) - 1)) = IF 0 > Len(s) - 1 THEN 0 ELSE (Len(s) - 1) - 0 + 1
    BY <2>1, FS_Interval
  <2>3. (IF 0 > Len(s) - 1 THEN 0 ELSE (Len(s) - 1) - 0 + 1) = Len(s)
    BY <1>1
  <2> HIDE DEF at
  <2> QED  BY <1>9, <2>2, <2>3
<1>11. \A i \in 1..Len(s) : at[Len(s) - i] = s[i]
  <2>1. ASSUME NEW i \in 1..Len(s) PROVE f[Len(s) - i] = s[i]
    <3>1. Len(s) - i \in 0..size /\ Len(s) - i < Len(s) /\ Len(s) - (Len(s) - i) = i
      BY <1>1
    <3> QED  BY <3>1
  <2> HIDE DEF f, at
  <2> QED  BY <1>6, <2>1
<1>12. s = [i \in 1..Len(s) |-> s[i]]
  BY DEF Path
<1> HIDE DEF at, length
<1> QED  BY <1>7, <1>10, <1>11, <1>12

(* The places along a path rise, so that it is no longer than there are    *)
(* entries.                                                                *)
LEMMA Rising ==
    ASSUME NEW own, NEW ord, NEW n, Lists(own, ord, n), NEW s, NEW x, Path(s, x), NEW c, c # Null,
           \A i \in 1..Len(s) : own[s[i]] = c
    PROVE  /\ \A i, j \in 1..Len(s) : i < j => ord[s[i]] < ord[s[j]]
           /\ \A i, j \in 1..Len(s) : s[i] = s[j] => i = j
           /\ Len(s) <= Cardinality(Entries)
<1>1. Len(s) \in Nat /\ s \in [1..Len(s) -> Entries] /\ \A i \in 1..Len(s) : s[i] \in Entries /\ ord[s[i]] \in Nat
  BY DEF Path, Lists
<1>2. ASSUME NEW i \in 1..(Len(s) - 1) PROVE ord[s[i]] < ord[s[i + 1]]
  <2>1. i \in 1..Len(s) /\ i + 1 \in 1..Len(s) /\ next[s[i + 1]] = s[i]
    BY <1>1 DEF Path
  <2>2. own[s[i + 1]] # Null /\ next[s[i + 1]] # Null
    BY <1>1, <2>1, NamesApart
  <2> QED  BY <1>1, <2>1, <2>2 DEF Lists, Shape, Linked
<1>3. ASSUME NEW i \in 1..Len(s) PROVE \A j \in 1..Len(s) : i < j => ord[s[i]] < ord[s[j]]
  <2> DEFINE Bad == {j \in 1..Len(s) : i < j /\ ~(ord[s[i]] < ord[s[j]])}
  <2>1. Bad = {}
    <3> SUFFICES ASSUME Bad # {} PROVE FALSE
      OBVIOUS
    <3>1. Bad \subseteq Nat
      BY <1>1
    <3>2. PICK j \in Bad : \A k \in Bad : j <= k
      BY <3>1, NatMin
    <3>3. j \in 1..Len(s) /\ i < j /\ ~(ord[s[i]] < ord[s[j]])
      BY <3>2
    <3>4. j - 1 \in 1..(Len(s) - 1) /\ j - 1 \in 1..Len(s) /\ (j - 1) + 1 = j
      BY <1>1, <3>3
    <3>5. ord[s[j - 1]] < ord[s[j]]
      BY <1>2, <3>4
    <3>6. CASE j - 1 = i
      BY <3>3, <3>5, <3>6
    <3>7. CASE j - 1 # i
      <4>1. i < j - 1 /\ j - 1 \notin Bad
        BY <1>1, <3>2, <3>3, <3>4, <3>7
      <4>2. ord[s[i]] < ord[s[j - 1]]
        BY <3>4, <4>1
      <4> QED  BY <1>1, <3>3, <3>4, <3>5, <4>2
    <3> QED  BY <3>6, <3>7
  <2> QED  BY <2>1
<1>4. \A i, j \in 1..Len(s) : s[i] = s[j] => i = j
  <2>1. ASSUME NEW i \in 1..Len(s), NEW j \in 1..Len(s), s[i] = s[j], i # j PROVE FALSE
    <3>1. i < j \/ j < i
      BY <1>1, <2>1
    <3> QED  BY <1>1, <1>3, <2>1, <3>1
  <2> QED  BY <2>1
<1>5. Len(s) <= Cardinality(Entries)
  <2>1. s \in Injection(1..Len(s), Entries)
    BY <1>1, <1>4 DEF Injection, IsInjective
  <2>2. Cardinality(1..Len(s)) <= Cardinality(Entries)
    BY <2>1, WaitListAssumption, FS_Injection
  <2>3. Len(s) \in Int /\ 1 \in Int
    BY <1>1
  <2>4. Cardinality(1..Len(s)) = IF 1 > Len(s) THEN 0 ELSE Len(s) - 1 + 1
    BY <2>3, FS_Interval
  <2>5. (IF 1 > Len(s) THEN 0 ELSE Len(s) - 1 + 1) = Len(s)
    BY <1>1
  <2> QED  BY <2>2, <2>4, <2>5
<1> QED  BY <1>3, <1>4, <1>5

(* The entries p has taken: those it tells, or those served in its round,  *)
(* which hang on the queue until it is cut.                                *)
First(p) == IF pc[p] \in {"tell_more", "tell_done"} THEN cur[p] ELSE resolved[p]
Side(p)  == IF pc[p] = "visit" THEN Queue ELSE p

QueueIs(own, q) ==
    /\ Path(q, tail) /\ \A i \in 1..Len(q) : own[q[i]] = Queue
    /\ q # <<>> => next[q[1]] = Null \/ \E p \in Processes : pc[p] = "visit" /\ cur[p] = q[1]
    /\ \A p \in Processes : pc[p] = "visit" => q # <<>> /\ q[1] = cur[p]

TakenIs(own, s, p) ==
    /\ Path(s, First(p)) /\ \A i \in 1..Len(s) : own[s[i]] = Side(p)
    /\ s # <<>> => next[s[1]] = Null

(* No entry of the queue is left out. *)
AllIn(own, q, tk) ==
    \A x \in Entries : own[x] = Queue =>
        \/ \E i \in 1..Len(q) : q[i] = x
        \/ \E p \in Processes : pc[p] = "visit" /\ \E i \in 1..Len(tk[p]) : tk[p][i] = x

Stands(own, q, tk) ==
    /\ holder \in Processes \cup {Null}
    /\ QueueIs(own, q) /\ AllIn(own, q, tk)
    /\ tk \in [Processes -> Seq(Entries)] /\ \A p \in Processes : TakenIs(own, tk[p], p)

LEMMA TakenMap ==
    ASSUME NEW own, NEW ord, NEW n, Lists(own, ord, n), NEW q, NEW tk, Stands(own, q, tk),
           NEW p \in Processes
    PROVE  Chain(First(p), Null) = tk[p]
<1>0. ASSUME NEW s, NEW x, NEW c, c # Null, Path(s, x), \A i \in 1..Len(s) : own[s[i]] = c
      PROVE  Len(s) <= Cardinality(Entries)
  BY <1>0, Rising
<1> PICK s, x, c : s = tk[p] /\ x = First(p) /\ c = Side(p)
  OBVIOUS
<1>1. /\ Path(s, x) /\ (\A i \in 1..Len(s) : own[s[i]] = c) /\ (s # <<>> => next[s[1]] = Null)
      /\ c # Null
  BY NamesApart DEF Stands, TakenIs, Side
<1>2. Len(s) <= Cardinality(Entries)
  BY <1>1, <1>0
<1>3. \A i \in 1..Len(s) : s[i] # Null
  BY <1>1, NamesApart DEF Path
<1>4. Chain(x, Null) = s
  BY <1>1, <1>2, <1>3, ChainIs
<1> HIDE DEF First
<1> QED  BY <1>4

(* What the process that has the flag has served is not met on the way     *)
(* from the tail.                                                          *)
LEMMA QueueMap ==
    ASSUME NEW own, NEW ord, NEW n, Lists(own, ord, n), NEW q, NEW tk, Stands(own, q, tk)
    PROVE  Chain(tail, Served) = q
<1>1. QueueIs(own, q) /\ Path(q, tail) /\ Queue # Null /\ Len(q) \in Nat
  BY NamesApart DEF Stands, QueueIs, Path
<1>2. /\ \A i, j \in 1..Len(q) : i < j => ord[q[i]] < ord[q[j]]
      /\ Len(q) <= Cardinality(Entries)
  BY <1>1, Rising DEF QueueIs
<1>3. \A i \in 1..Len(q) : q[i] \in Entries /\ q[i] # Null /\ own[q[i]] = Queue /\ ord[q[i]] \in Nat
  BY <1>1, NamesApart DEF Path, QueueIs, Lists
<1>4. \A i \in 1..Len(q) : q[i] # Served
  <2>1. CASE Served = Null
    BY <1>3, <2>1
  <2>2. CASE Served # Null
    <3>1. holder \in Processes /\ Served = resolved[holder]
      BY <2>2 DEF Stands, Served
    <3>2. ProcOK(own, ord, holder)
      BY <3>1 DEF Lists, Shape
    <3>3. CASE pc[holder] = "visit"
      <4>1. q # <<>> /\ q[1] = cur[holder] /\ Served = next[cur[holder]]
        BY <1>1, <3>1, <3>2, <3>3 DEF QueueIs, ProcOK, Rounds
      <4>2. 1 \in 1..Len(q) /\ next[q[1]] = Served
        BY <1>1, <4>1 DEF Path
      <4>3. ord[Served] < ord[q[1]] /\ Served \in Entries
        BY <1>1, <1>3, <2>2, <4>2, Before
      <4>4. \A i \in 1..Len(q) : ord[q[1]] <= ord[q[i]]
        BY <1>1, <1>2, <1>3, <4>2
      <4>5. ord[Served] \in Nat
        BY <4>3 DEF Lists
      <4> QED  BY <1>3, <4>2, <4>3, <4>4, <4>5
    <3>4. CASE pc[holder] \in {"unlock", "add"}
      <4>1. Newest(holder) = Served
        BY <3>1, <3>4 DEF Newest, Telling, Ending
      <4>2. own[Served] = holder
        BY <2>2, <3>1, <4>1 DEF Lists, Shape, Topped, IsTop
      <4> QED  BY <1>3, <3>1, <4>2, NamesApart
    <3>5. CASE pc[holder] \notin {"visit", "unlock", "add"}
      BY <2>2, <3>1, <3>2, <3>5 DEF ProcOK, Rounds
    <3> QED  BY <3>3, <3>4, <3>5
  <2> QED  BY <2>1, <2>2
<1>5. q # <<>> => next[q[1]] \in {Null, Served}
  <2> SUFFICES ASSUME q # <<>>, next[q[1]] # Null PROVE next[q[1]] = Served
    OBVIOUS
  <2>1. PICK p \in Processes : pc[p] = "visit" /\ cur[p] = q[1]
    BY <1>1 DEF QueueIs
  <2>2. ProcOK(own, ord, p)
    BY DEF Lists, Shape
  <2>3. holder = p /\ resolved[p] = next[cur[p]]
    BY <2>1, <2>2 DEF ProcOK, Held, Rounds, Holding
  <2> QED  BY <2>1, <2>3, NamesApart DEF Served
<1> HIDE DEF Served
<1> QED  BY <1>1, <1>2, <1>4, <1>5, ChainIs

(* Steps that leave the lists, and what the pointers say of them, alone. *)
LEMMA StandsStill ==
    ASSUME NEW own, NEW q, NEW tk, Stands(own, q, tk), tail' = tail,
           holder' \in Processes \cup {Null},
           \A x \in Entries : own[x] # Null => next'[x] = next[x],
           \A p \in Processes : First(p)' = First(p),
           \A p \in Processes : pc'[p] = "visit" <=> pc[p] = "visit",
           \A p \in Processes : pc[p] = "visit" => cur'[p] = cur[p]
    PROVE  Stands(own, q, tk)'
<1>1. /\ QueueIs(own, q) /\ AllIn(own, q, tk) /\ tk \in [Processes -> Seq(Entries)]
      /\ Queue # Null /\ Null \notin Processes
  BY NamesApart DEF Stands
<1>2. ASSUME NEW s, NEW x, NEW c, c # Null, Path(s, x), \A i \in 1..Len(s) : own[s[i]] = c
      PROVE  Path(s, x)' /\ (s # <<>> => next'[s[1]] = next[s[1]])
  <2>1. Len(s) \in Nat /\ \A i \in 1..Len(s) : s[i] \in Entries /\ own[s[i]] # Null
    BY <1>2 DEF Path
  <2>2. s # <<>> => 1 \in 1..Len(s)
    BY <1>2, <2>1 DEF Path
  <2>3. \A i \in 1..(Len(s) - 1) : next'[s[i + 1]] = s[i]
    <3>1. \A i \in 1..(Len(s) - 1) : i + 1 \in 1..Len(s)
      BY <2>1
    <3> QED  BY <1>2, <2>1, <3>1 DEF Path
  <2> QED  BY <1>2, <2>1, <2>2, <2>3 DEF Path
<1>3. QueueIs(own, q)'
  <2>1. Path(q, tail)' /\ (q # <<>> => next'[q[1]] = next[q[1]])
    <3>1. Path(q, tail) /\ \A i \in 1..Len(q) : own[q[i]] = Queue
      BY <1>1 DEF QueueIs
    <3>2. \A x : x = tail => Path(q, x)' /\ (q # <<>> => next'[q[1]] = next[q[1]])
      BY <1>1, <1>2, <3>1
    <3> QED  BY <3>2 DEF Path
  <2> QED  BY <1>1, <2>1 DEF QueueIs
<1>4. AllIn(own, q, tk)'
  BY <1>1 DEF AllIn
<1>5. ASSUME NEW p \in Processes PROVE TakenIs(own, tk[p], p)'
  <2> PICK s, x, c : s = tk[p] /\ x = First(p) /\ c = Side(p)
    OBVIOUS
  <2>1. /\ Path(s, x) /\ (\A i \in 1..Len(s) : own[s[i]] = c) /\ (s # <<>> => next[s[1]] = Null)
        /\ c # Null /\ First(p)' = x /\ Side(p)' = c
    BY <1>1 DEF Stands, TakenIs, Side
  <2>2. Path(s, x)' /\ (s # <<>> => next'[s[1]] = next[s[1]])
    BY <1>2, <2>1
  <2>3. Path(s, First(p))'
    BY <2>1, <2>2 DEF Path
  <2>4. TakenIs(own, s, p)'
    BY <2>1, <2>2, <2>3 DEF TakenIs
  <2> QED  BY <2>4
<1> QED  BY <1>1, <1>3, <1>4, <1>5 DEF Stands

(* What is known of the sequences. *)
KnownQueue(own, ord, q) ==
    /\ q \in Seq(Entries) /\ Len(q) \in Nat /\ (tail = Null <=> q = <<>>)
    /\ q # <<>> => 1 \in 1..Len(q) /\ Len(q) \in 1..Len(q) /\ q[Len(q)] = tail
    /\ \A i \in 1..Len(q) : q[i] \in Entries /\ own[q[i]] = Queue /\ ord[q[i]] \in Nat
    /\ \A i \in 1..(Len(q) - 1) : next[q[i + 1]] = q[i]
    /\ \A i, j \in 1..Len(q) : i < j => ord[q[i]] < ord[q[j]]
    /\ \A i, j \in 1..Len(q) : q[i] = q[j] => i = j

LEMMA QueueFacts ==
    ASSUME NEW own, NEW ord, NEW n, Lists(own, ord, n), NEW q, NEW tk, Stands(own, q, tk)
    PROVE  KnownQueue(own, ord, q)
<1>1. Path(q, tail) /\ Queue # Null /\ Len(q) \in Nat /\ \A i \in 1..Len(q) : own[q[i]] = Queue
  BY NamesApart DEF Stands, QueueIs, Path
<1>2. /\ \A i, j \in 1..Len(q) : i < j => ord[q[i]] < ord[q[j]]
      /\ \A i, j \in 1..Len(q) : q[i] = q[j] => i = j
  BY <1>1, Rising
<1>3. \A i \in 1..Len(q) : q[i] \in Entries /\ ord[q[i]] \in Nat
  BY <1>1 DEF Path, Lists
<1>4. q # <<>> => 1 \in 1..Len(q) /\ Len(q) \in 1..Len(q)
  BY <1>1 DEF Path
<1> QED  BY <1>1, <1>2, <1>3, <1>4 DEF Path, KnownQueue

KnownTaken(own, ord, s, p) ==
    /\ s \in Seq(Entries) /\ Len(s) \in Nat /\ (First(p) = Null <=> s = <<>>)
    /\ s # <<>> => 1 \in 1..Len(s) /\ Len(s) \in 1..Len(s) /\ s[Len(s)] = First(p) /\ next[s[1]] = Null
    /\ \A i \in 1..Len(s) : s[i] \in Entries /\ own[s[i]] = Side(p) /\ ord[s[i]] \in Nat
    /\ \A i \in 1..(Len(s) - 1) : next[s[i + 1]] = s[i]
    /\ \A i, j \in 1..Len(s) : i < j => ord[s[i]] < ord[s[j]]
    /\ \A i, j \in 1..Len(s) : s[i] = s[j] => i = j

LEMMA TakenFacts ==
    ASSUME NEW own, NEW ord, NEW n, Lists(own, ord, n), NEW q, NEW tk, Stands(own, q, tk),
           NEW p \in Processes
    PROVE  KnownTaken(own, ord, tk[p], p)
<1> DEFINE Rises(u) == /\ \A i, j \in 1..Len(u) : i < j => ord[u[i]] < ord[u[j]]
                       /\ \A i, j \in 1..Len(u) : u[i] = u[j] => i = j
<1>0. ASSUME NEW u, NEW x, NEW c, c # Null, Path(u, x), \A i \in 1..Len(u) : own[u[i]] = c
      PROVE  Rises(u)
  BY <1>0, Rising
<1> HIDE DEF Rises
<1> PICK s, x, c : s = tk[p] /\ x = First(p) /\ c = Side(p)
  OBVIOUS
<1>1. /\ Path(s, x) /\ (\A i \in 1..Len(s) : own[s[i]] = c) /\ (s # <<>> => next[s[1]] = Null)
      /\ c # Null /\ Len(s) \in Nat
  BY NamesApart DEF Stands, TakenIs, Side, Path
<1>2. Rises(s)
  BY <1>0, <1>1
<1>3. \A i \in 1..Len(s) : s[i] \in Entries /\ ord[s[i]] \in Nat
  BY <1>1 DEF Path, Lists
<1>4. s # <<>> => 1 \in 1..Len(s) /\ Len(s) \in 1..Len(s)
  BY <1>1 DEF Path
<1> HIDE DEF First, Side
<1>5. KnownTaken(own, ord, s, p)
  BY <1>1, <1>2, <1>3, <1>4 DEF Path, Rises, KnownTaken
<1> QED  BY <1>5

(* A process that has taken nothing. *)
LEMMA NoneTaken ==
    ASSUME NEW own, NEW ord, NEW n, Lists(own, ord, n), NEW q, NEW tk, Stands(own, q, tk),
           NEW p \in Processes, pc[p] \notin {"visit", "unlock", "add", "tell_more", "tell_done"}
    PROVE  tk[p] = <<>> /\ resolved[p] = Null /\ First(p) = Null
<1>1. resolved[p] = Null
  BY DEF Lists, Shape, ProcOK, Rounds
<1>2. First(p) = Null
  BY <1>1 DEF First
<1>3. Path(tk[p], First(p))
  BY DEF Stands, TakenIs
<1> QED  BY <1>1, <1>2, <1>3 DEF Path

(* The entries of a process that the step does not concern. *)
LEMMA TakenKept ==
    ASSUME NEW own, NEW own2, NEW s, NEW p \in Processes, TakenIs(own, s, p),
           First(p)' = First(p), pc'[p] = "visit" <=> pc[p] = "visit",
           \A x \in Entries : own[x] = Side(p) => own2[x] = own[x] /\ next'[x] = next[x]
    PROVE  TakenIs(own2, s, p)'
<1> PICK x, c : x = First(p) /\ c = Side(p)
  OBVIOUS
<1>1. /\ Path(s, x) /\ (\A i \in 1..Len(s) : own[s[i]] = c) /\ (s # <<>> => next[s[1]] = Null)
      /\ First(p)' = x /\ Side(p)' = c
  BY DEF TakenIs, Side
<1> HIDE DEF First, Side
<1>2. Len(s) \in Nat /\ \A i \in 1..Len(s) : s[i] \in Entries /\ own2[s[i]] = c /\ next'[s[i]] = next[s[i]]
  BY <1>1 DEF Path
<1>3. s # <<>> => 1 \in 1..Len(s)
  BY <1>1, <1>2 DEF Path
<1>4. \A i \in 1..(Len(s) - 1) : next'[s[i + 1]] = s[i]
  <2>1. \A i \in 1..(Len(s) - 1) : i + 1 \in 1..Len(s)
    BY <1>2
  <2> QED  BY <1>1, <1>2, <2>1 DEF Path
<1>5. Path(s, First(p))'
  BY <1>1, <1>2, <1>3, <1>4 DEF Path
<1> QED  BY <1>1, <1>2, <1>3, <1>5 DEF TakenIs

LEMMA EmptyTaken ==
    ASSUME NEW own, NEW p, First(p)' = Null PROVE TakenIs(own, <<>>, p)'
<1>1. <<>> \in Seq(Entries) /\ Len(<<>>) = 0 /\ 1..0 = {} /\ 1..(0 - 1) = {}
  OBVIOUS
<1> HIDE DEF First, Side
<1>2. Path(<<>>, First(p))'
  BY <1>1 DEF Path
<1> QED  BY <1>1, <1>2 DEF TakenIs

(* The entry of the queue without an older one comes first. *)
LEMMA Oldest ==
    ASSUME NEW own, NEW ord, NEW n, Lists(own, ord, n), NEW q, NEW tk, Stands(own, q, tk),
           \A r \in Processes : pc[r] # "visit", NEW e \in Entries, own[e] = Queue, next[e] = Null
    PROVE  q # <<>> /\ q[1] = e /\ next[q[1]] = Null
<1>1. tail # Null /\ Queue # Null
  BY NamesApart DEF Lists, Shape, Topped, IsTop
<1>2. q # <<>> /\ 1 \in 1..Len(q) /\ q[1] \in Entries /\ own[q[1]] = Queue
  BY <1>1, QueueFacts DEF KnownQueue
<1>3. next[q[1]] = Null
  BY <1>2 DEF Stands, QueueIs
<1>4. ord[e] \in Nat /\ ord[q[1]] \in Nat
  BY <1>2 DEF Lists
<1>5. ~(ord[e] < ord[q[1]]) /\ ~(ord[q[1]] < ord[e])
  BY <1>1, <1>2, <1>3 DEF Lists, Shape, Linked
<1>6. ord[e] = ord[q[1]]
  BY <1>4, <1>5
<1> QED  BY <1>1, <1>2, <1>3, <1>6 DEF Lists, Shape, Placed

-----------------------------------------------------------------------------
(* Steps that do not touch the sequences. *)
LEMMA EntryQuiet ==
    ASSUME NEW own, NEW ord, NEW n, Lists(own, ord, n), NEW q, NEW tk, Stands(own, q, tk),
           NEW e \in Entries, Leave(e) \/ (e \in Droppers /\ Complete(e))
    PROVE  Stands(own, q, tk)'
<1>1. own[e] = Null /\ pc \in [Processes -> Labels] /\ next \in [Entries -> Pointers]
  BY DEF Lists, Shape, Placed, Leave, Complete, ListType
<1>2. tail' = tail /\ holder' = holder /\ cur' = cur /\ resolved' = resolved
  BY DEF Leave, Complete, locals
<1>3. \A x \in Entries : own[x] # Null => next'[x] = next[x]
  BY <1>1 DEF Leave, Complete, Exit, Set
<1>4. \A r \in Processes : \/ pc'[r] = pc[r]
                           \/ pc[r] = "complete" /\ pc'[r] = "idle"
  BY <1>1 DEF Leave, Complete, Goto, Set
<1>5. \A r \in Processes : First(r)' = First(r)
  BY <1>2, <1>4 DEF First
<1>6. holder' \in Processes \cup {Null}
  BY <1>2 DEF Stands
<1> HIDE DEF First
<1> QED  BY <1>2, <1>3, <1>4, <1>5, <1>6, StandsStill

LEMMA RoundQuiet ==
    ASSUME NEW own, NEW ord, NEW n, Lists(own, ord, n), NEW q, NEW tk, Stands(own, q, tk),
           NEW p \in Processes,
           Lock(p) \/ Unlock(p) \/ UnlockFailed(p) \/ Add(p) \/ Continue(p) \/ Return(p)
    PROVE  Stands(own, q, tk)'
<1>1. /\ pc \in [Processes -> Labels] /\ next \in [Entries -> Pointers]
      /\ cur \in [Processes -> Pointers] /\ resolved \in [Processes -> Pointers]
      /\ ProcOK(own, ord, p) /\ holder \in Processes \cup {Null}
  BY DEF Lists, Shape, ListType, Stands
<1>2. tail' = tail /\ holder' \in Processes \cup {Null}
  BY <1>1 DEF Lock, Unlock, UnlockFailed, Add, Continue, Return
<1>3. \A r \in Processes \ {p} : pc'[r] = pc[r] /\ cur'[r] = cur[r] /\ resolved'[r] = resolved[r]
  BY <1>1 DEF Lock, Unlock, UnlockFailed, Add, Continue, Return, Goto, Set, locals
<1>4. \A x \in Entries : own[x] # Null => next'[x] = next[x]
  <2>1. CASE Return(p) /\ p \in Droppers /\ ~missing[p]
    <3>1. own[p] = Null
      BY <1>1, <2>1 DEF ProcOK, Dropping, Return
    <3> QED  BY <1>1, <2>1, <3>1 DEF Return, Exit, Set
  <2>2. CASE ~(Return(p) /\ p \in Droppers /\ ~missing[p])
    BY <2>2 DEF Lock, Unlock, UnlockFailed, Add, Continue, Return, links
  <2> QED  BY <2>1, <2>2
<1>5. pc'[p] # "visit" /\ pc[p] # "visit"
  BY <1>1 DEF Lock, Unlock, UnlockFailed, Add, Continue, Return, Goto, Set
<1>6. First(p)' = First(p)
  <2>1. CASE Lock(p)
    BY <1>1, <2>1 DEF First, Lock, Goto, Set
  <2>2. CASE Unlock(p)
    BY <1>1, <2>2 DEF First, Unlock, Goto, Set
  <2>3. CASE UnlockFailed(p)
    BY <1>1, <2>3 DEF First, UnlockFailed, Goto, Set, locals
  <2>4. CASE Add(p)
    BY <1>1, <2>4 DEF First, Add, Goto, Set
  <2>5. CASE Continue(p) \/ Return(p)
    <3>1. resolved[p] = Null /\ resolved' = resolved /\ cur[p] = Null /\ pc[p] \in Telling
      BY <1>1, <2>5 DEF Continue, Return, ProcOK, Rounds, Telling
    <3>2. pc'[p] \notin Telling
      BY <1>1, <2>5 DEF Continue, Return, Goto, Set, Telling
    <3> QED  BY <3>1, <3>2 DEF First, Telling
  <2> QED  BY <2>1, <2>2, <2>3, <2>4, <2>5
<1>7. \A r \in Processes : First(r)' = First(r)
  BY <1>3, <1>6 DEF First
<1> HIDE DEF First
<1> QED  BY <1>2, <1>3, <1>4, <1>5, <1>7, StandsStill

(* A walk that goes on. *)
LEMMA WalkQuiet ==
    ASSUME NEW own, NEW ord, NEW n, Lists(own, ord, n), NEW q, NEW tk, Stands(own, q, tk),
           NEW p \in Processes,
           \/ (Scan(p) \/ SetPrev(p)) /\ pc' = pc
           \/ p \in Droppers /\ \/ Drop(p) \/ DropEmpty(p) \/ DropLock(p)
                                \/ RemoveSkip(p) \/ RemoveRetry(p) \/ RemoveMissing(p)
    PROVE  Stands(own, q, tk)'
<1>1. /\ pc \in [Processes -> Labels] /\ cur \in [Processes -> Pointers]
      /\ holder \in Processes \cup {Null}
  BY DEF Lists, ListType, Stands
<1>2. tail' = tail /\ holder' \in Processes \cup {Null} /\ next' = next /\ resolved' = resolved
  BY <1>1 DEF Scan, SetPrev, Drop, DropEmpty, DropLock, RemoveSkip, RemoveRetry, RemoveMissing, links, locals
<1>3. \A r \in Processes \ {p} : pc'[r] = pc[r] /\ cur'[r] = cur[r]
  BY <1>1 DEF Scan, SetPrev, Drop, DropEmpty, DropLock, RemoveSkip, RemoveRetry, RemoveMissing,
              Process, Goto, Set, links, locals
<1>4. pc[p] \notin {"visit", "tell_more", "tell_done"} /\ pc'[p] \notin {"visit", "tell_more", "tell_done"}
  BY <1>1 DEF Scan, SetPrev, Drop, DropEmpty, DropLock, RemoveSkip, RemoveRetry, RemoveMissing,
              Process, Goto, Set, links, locals
<1>5. \A r \in Processes : First(r)' = First(r)
  BY <1>2, <1>3, <1>4 DEF First
<1> HIDE DEF First
<1> QED  BY <1>2, <1>3, <1>4, <1>5, StandsStill

(* A walk that ends: the entries are visited from the oldest on. *)
LEMMA WalkEnds ==
    ASSUME NEW own, NEW ord, NEW n, Lists(own, ord, n), NEW q, NEW tk, Stands(own, q, tk),
           NEW p \in Processes, Scan(p) \/ SetPrev(p), pc' # pc
    PROVE  Stands(own, q, tk)'
<1>1. /\ pc \in [Processes -> Labels] /\ cur \in [Processes -> Pointers]
      /\ holder \in Processes \cup {Null} /\ ProcOK(own, ord, p) /\ pc[p] \in {"scan", "setprev"}
      /\ cur[p] \in Pointers /\ head[p] \in Pointers
  BY DEF Lists, ListType, Stands, Shape, Scan, SetPrev
<1>2. tail' = tail /\ holder' = holder /\ next' = next /\ resolved' = resolved
  BY DEF Scan, SetPrev
<1>3. \A r \in Processes \ {p} : pc'[r] = pc[r] /\ cur'[r] = cur[r]
  BY <1>1 DEF Scan, SetPrev, Goto, Set
<1>4. \A r \in Processes : pc[r] # "visit"
  BY <1>1, Alone DEF Holding
<1>5. pc'[p] = "visit" /\ cur'[p] \in Entries /\ own[cur'[p]] = Queue /\ next[cur'[p]] = Null
  <2>1. CASE Scan(p)
    BY <1>1, <2>1 DEF Scan, Goto, Set, ProcOK, Walked, Pointers
  <2>2. CASE SetPrev(p)
    BY <1>1, <2>2 DEF SetPrev, Goto, Set, ProcOK, Rounds, Pointers
  <2> QED  BY <2>1, <2>2
<1>6. q # <<>> /\ q[1] = cur'[p] /\ next[q[1]] = Null
  BY <1>4, <1>5, Oldest
<1>7. tk[p] = <<>> /\ resolved[p] = Null
  BY <1>1, NoneTaken
<1>8. QueueIs(own, q)'
  <2>1. QueueIs(own, q)
    BY DEF Stands
  <2>2. Path(q, tail)'
    BY <1>2, <2>1 DEF QueueIs, Path
  <2> QED  BY <1>2, <1>3, <1>4, <1>5, <1>6, <2>1, <2>2 DEF QueueIs
<1>9. AllIn(own, q, tk)'
  BY <1>4 DEF Stands, AllIn
<1>10. ASSUME NEW r \in Processes PROVE TakenIs(own, tk[r], r)'
  <2>1. TakenIs(own, tk[r], r)
    BY DEF Stands
  <2>2. CASE r = p
    <3>1. First(p)' = Null
      BY <1>2, <1>5, <1>7 DEF First
    <3> HIDE DEF First
    <3> QED  BY <1>7, <2>2, <3>1, EmptyTaken
  <2>3. CASE r # p
    <3>1. First(r)' = First(r)
      BY <1>2, <1>3, <2>3 DEF First
    <3> HIDE DEF First
    <3> QED  BY <1>2, <1>3, <2>1, <2>3, <3>1, TakenKept
  <2> QED  BY <2>2, <2>3
<1> QED  BY <1>1, <1>2, <1>8, <1>9, <1>10 DEF Stands

-----------------------------------------------------------------------------
(* Steps that change the sequences. *)
Elements(s) == {s[i] : i \in 1..Len(s)}

Grown(s, e, t) == t = Append(s, e)

LEMMA Appended ==
    ASSUME NEW s \in Seq(Entries), NEW e \in Entries, NEW t, Grown(s, e, t)
    PROVE  /\ t \in Seq(Entries) /\ Len(t) = Len(s) + 1 /\ t # <<>> /\ t[Len(s) + 1] = e
           /\ \A i \in 1..Len(s) : t[i] = s[i]
<1>1. t \in Seq(Entries) /\ Len(t) = Len(s) + 1 /\ Len(s) \in Nat
  BY DEF Grown
<1>2. \A i \in 1..(Len(s) + 1) : t[i] = IF i = Len(s) + 1 THEN e ELSE s[i]
  BY DEF Grown
<1>3. t # <<>>
  BY <1>1
<1> QED  BY <1>1, <1>2, <1>3

LEMMA PushFifo ==
    ASSUME NEW own, NEW ord, NEW n, Lists(own, ord, n), NEW q, NEW tk, Stands(own, q, tk),
           NEW e \in Entries, Push(e), NEW own2,
           \A x \in Entries : own2[x] = IF x = e THEN Queue ELSE own[x],
           NEW q2, Grown(q, e, q2)
    PROVE  /\ Stands(own2, q2, tk)' /\ e \notin Elements(q)
           /\ \A p \in Processes : e \notin Elements(tk[p])
<1>1. /\ own[e] = Null /\ Queue # Null /\ Null \notin Processes /\ Queue \notin Processes
      /\ e # Null /\ Null \notin Entries
  BY NamesApart DEF Lists, Shape, Placed, Push
<1>2. /\ tail' = e /\ holder' = holder /\ pc' = pc /\ cur' = cur /\ resolved' = resolved
      /\ \A x \in Entries : next'[x] = IF x = e THEN tail ELSE next[x]
  BY DEF Push, Set, locals, Lists, ListType
<1>3. /\ q \in Seq(Entries) /\ Len(q) \in Nat /\ (tail = Null <=> q = <<>>)
      /\ q # <<>> => 1 \in 1..Len(q) /\ Len(q) \in 1..Len(q) /\ q[Len(q)] = tail
      /\ \A i \in 1..Len(q) : q[i] \in Entries /\ own[q[i]] = Queue
      /\ \A i \in 1..(Len(q) - 1) : next[q[i + 1]] = q[i]
  <2>1. KnownQueue(own, ord, q)
    BY QueueFacts
  <2> QED  BY <2>1 DEF KnownQueue
<1>4. /\ q2 \in Seq(Entries) /\ Len(q2) = Len(q) + 1 /\ q2 # <<>> /\ q2[Len(q) + 1] = e
      /\ \A i \in 1..Len(q) : q2[i] = q[i]
  BY <1>3, Appended
<1>5. \A i \in 1..Len(q) : q[i] # e
  BY <1>1, <1>3
<1>6. QueueIs(own, q)
  BY DEF Stands
<1>7. Path(q2, e)'
  <2>1. ASSUME NEW i \in 1..(Len(q2) - 1) PROVE next'[q2[i + 1]] = q2[i]
    <3>1. CASE i = Len(q)
      <4>1. q # <<>> /\ q2[i] = tail
        BY <1>3, <1>4, <2>1, <3>1
      <4> QED  BY <1>2, <1>4, <3>1, <4>1
    <3>2. CASE i # Len(q)
      <4>1. i \in 1..(Len(q) - 1) /\ i + 1 \in 1..Len(q) /\ i \in 1..Len(q)
        BY <1>3, <1>4, <2>1, <3>2
      <4> QED  BY <1>2, <1>3, <1>4, <1>5, <4>1
    <3> QED  BY <3>1, <3>2
  <2> QED  BY <1>1, <1>4, <2>1 DEF Path
<1>8. \A i \in 1..Len(q2) : own2[q2[i]] = Queue
  <2>1. ASSUME NEW i \in 1..Len(q2) PROVE own2[q2[i]] = Queue
    <3>1. i = Len(q) + 1 \/ i \in 1..Len(q)
      BY <1>3, <1>4, <2>1
    <3> QED  BY <1>3, <1>4, <1>5, <3>1
  <2> QED  BY <2>1
<1>9. QueueIs(own2, q2)'
  <2>1. CASE q = <<>>
    <3>1. Len(q) = 0 /\ tail = Null /\ q2[1] = e
      BY <1>3, <1>4, <2>1
    <3>2. \A p \in Processes : pc[p] # "visit"
      BY <1>6, <2>1 DEF QueueIs
    <3> QED  BY <1>2, <1>4, <1>7, <1>8, <3>1, <3>2 DEF QueueIs, Path
  <2>2. CASE q # <<>>
    <3>1. q2[1] = q[1] /\ next'[q[1]] = next[q[1]]
      BY <1>2, <1>3, <1>4, <1>5, <2>2
    <3> QED  BY <1>2, <1>4, <1>6, <1>7, <1>8, <2>2, <3>1 DEF QueueIs, Path
  <2> QED  BY <2>1, <2>2
<1>10. AllIn(own2, q2, tk)'
  <2>1. ASSUME NEW x \in Entries, own2[x] = Queue
        PROVE  \/ \E i \in 1..Len(q2) : q2[i] = x
               \/ \E p \in Processes : pc[p] = "visit" /\ \E i \in 1..Len(tk[p]) : tk[p][i] = x
    <3>1. CASE x = e
      <4>1. Len(q) + 1 \in 1..Len(q2)
        BY <1>3, <1>4
      <4> QED  BY <1>4, <3>1, <4>1
    <3>2. CASE x # e
      <4>1. \A i \in 1..Len(q) : i \in 1..Len(q2)
        BY <1>3, <1>4
      <4> QED  BY <1>4, <2>1, <3>2, <4>1 DEF Stands, AllIn
    <3> QED  BY <3>1, <3>2
  <2> QED  BY <1>2, <2>1 DEF AllIn
<1>11. ASSUME NEW p \in Processes PROVE TakenIs(own2, tk[p], p)' /\ e \notin Elements(tk[p])
  <2>1. TakenIs(own, tk[p], p) /\ Side(p) # Null
    BY <1>1 DEF Stands, Side
  <2>2. First(p)' = First(p)
    BY <1>2 DEF First
  <2>3. e \notin Elements(tk[p])
    BY <1>1, <2>1 DEF TakenIs, Elements
  <2> HIDE DEF First, Side
  <2>4. \A x \in Entries : own[x] = Side(p) => own2[x] = own[x] /\ next'[x] = next[x]
    BY <1>1, <1>2, <2>1
  <2> QED  BY <1>2, <2>1, <2>2, <2>3, <2>4, TakenKept
<1>12. e \notin Elements(q)
  BY <1>5 DEF Elements
<1> QED  BY <1>2, <1>9, <1>10, <1>11, <1>12 DEF Stands

(* The visited entry follows those served before. *)
LEMMA TakeOne ==
    ASSUME NEW own, NEW ord, NEW n, Lists(own, ord, n), NEW q, NEW tk, Stands(own, q, tk),
           NEW p \in Processes, pc[p] = "visit", NEW t, Grown(tk[p], q[1], t)
    PROVE  /\ q # <<>> /\ q[1] = cur[p] /\ cur[p] \in Entries /\ t \in Seq(Entries) /\ Path(t, cur[p])
           /\ t # <<>> /\ next[t[1]] = Null /\ \A i \in 1..Len(t) : own[t[i]] = Queue
<1>1. q # <<>> /\ q[1] = cur[p] /\ 1 \in 1..Len(q) /\ cur[p] \in Entries /\ own[cur[p]] = Queue
  <2>1. q # <<>> /\ q[1] = cur[p]
    BY DEF Stands, QueueIs
  <2> QED  BY <2>1, QueueFacts DEF KnownQueue
<1>2. resolved[p] = next[cur[p]] /\ First(p) = resolved[p] /\ Side(p) = Queue /\ Null \notin Entries
  BY NamesApart DEF Lists, Shape, ProcOK, Rounds, First, Side
<1> HIDE DEF First, Side
<1> PICK s : s = tk[p]
  OBVIOUS
<1>3. KnownTaken(own, ord, s, p) /\ Grown(s, q[1], t)
  BY TakenFacts
<1> USE DEF KnownTaken
<1>4. /\ t \in Seq(Entries) /\ Len(t) = Len(s) + 1 /\ t # <<>> /\ t[Len(s) + 1] = q[1]
      /\ \A i \in 1..Len(s) : t[i] = s[i]
  BY <1>1, <1>3, Appended
<1>5. Path(t, cur[p])
  <2>1. ASSUME NEW i \in 1..(Len(t) - 1) PROVE next[t[i + 1]] = t[i]
    <3>1. CASE i = Len(s)
      <4>1. s # <<>> /\ t[i] = First(p)
        BY <1>3, <1>4, <2>1, <3>1
      <4> QED  BY <1>1, <1>2, <1>4, <3>1, <4>1
    <3>2. CASE i # Len(s)
      <4>1. i \in 1..(Len(s) - 1) /\ i + 1 \in 1..Len(s) /\ i \in 1..Len(s)
        BY <1>3, <1>4, <2>1, <3>2
      <4> QED  BY <1>3, <1>4, <4>1
    <3> QED  BY <3>1, <3>2
  <2> QED  BY <1>1, <1>2, <1>4, <2>1 DEF Path
<1>6. next[t[1]] = Null
  <2>1. CASE s = <<>>
    <3>1. Len(s) = 0 /\ t[1] = q[1] /\ First(p) = Null
      BY <1>3, <1>4, <2>1
    <3> QED  BY <1>1, <1>2, <3>1
  <2>2. CASE s # <<>>
    BY <1>3, <1>4, <2>2
  <2> QED  BY <2>1, <2>2
<1>7. ASSUME NEW i \in 1..Len(t) PROVE own[t[i]] = Queue
  <2>1. i = Len(s) + 1 \/ i \in 1..Len(s)
    BY <1>3, <1>4, <1>7
  <2> QED  BY <1>1, <1>2, <1>3, <1>4, <2>1
<1> QED  BY <1>1, <1>4, <1>5, <1>6, <1>7

Shrunk(s, t) == t = Tail(s)

LEMMA Shortened ==
    ASSUME NEW s \in Seq(Entries), s # <<>>, NEW t, Shrunk(s, t)
    PROVE  /\ t \in Seq(Entries) /\ Len(t) = Len(s) - 1 /\ \A i \in 1..Len(t) : t[i] = s[i + 1]
<1>1. t \in Seq(Entries) /\ Len(t) = Len(s) - 1
  BY DEF Shrunk
<1>2. \A i \in 1..(Len(s) - 1) : t[i] = s[i + 1]
  BY DEF Shrunk
<1> QED  BY <1>1, <1>2

(* Sequences of the processes that change for p only. *)
Given(tk, p, t, tk2) ==
    tk2 \in [Processes -> Seq(Entries)] /\ \A r \in Processes : tk2[r] = IF r = p THEN t ELSE tk[r]

LEMMA VisitFifo ==
    ASSUME NEW own, NEW ord, NEW n, Lists(own, ord, n), NEW q, NEW tk, Stands(own, q, tk),
           NEW p \in Processes, Visit(p), NEW q2, Shrunk(q, q2),
           NEW t, Grown(tk[p], q[1], t), NEW tk2, Given(tk, p, t, tk2)
    PROVE  Stands(own, q2, tk2)' /\ q # <<>>
<1>1. /\ pc[p] = "visit" /\ pc' = pc /\ next' = next /\ tail' = tail /\ holder' = holder
      /\ \A r \in Processes \ {p} : cur'[r] = cur[r] /\ resolved'[r] = resolved[r]
      /\ resolved'[p] = cur[p] /\ cur'[p] = prev[cur[p]] /\ prev[cur[p]] # Null
  BY DEF Visit, Set, links, Lists, ListType
<1>2. /\ q # <<>> /\ q[1] = cur[p] /\ cur[p] \in Entries /\ t \in Seq(Entries) /\ Path(t, cur[p])
      /\ t # <<>> /\ next[t[1]] = Null /\ \A i \in 1..Len(t) : own[t[i]] = Queue
  BY <1>1, TakeOne
<1>3. KnownQueue(own, ord, q)
  BY QueueFacts
<1>4. Len(q2) = Len(q) - 1 /\ q2 \in Seq(Entries) /\ \A i \in 1..Len(q2) : q2[i] = q[i + 1]
  BY <1>2, <1>3, Shortened DEF KnownQueue
<1>5. \A r \in Processes \ {p} : pc[r] \notin Holding
  BY <1>1, Alone DEF Holding
<1>6. Len(q) >= 2 /\ q[2] = cur'[p]
  <2>1. tail # Null /\ prev[tail] = Null
    BY <1>2, <1>3, TailPrev DEF KnownQueue
  <2>2. Len(q) # 1 /\ Len(q) \in Nat /\ Len(q) # 0
    BY <1>1, <1>2, <1>3, <2>1 DEF KnownQueue
  <2>3. Len(q) >= 2 /\ 1 \in 1..(Len(q) - 1) /\ 2 \in 1..Len(q)
    <3>1. \A k \in Nat : k # 0 /\ k # 1 => k >= 2 /\ 1 \in 1..(k - 1) /\ 2 \in 1..k
      OBVIOUS
    <3> QED  BY <2>2, <3>1
  <2>4. next[q[2]] = q[1] /\ q[2] \in Entries /\ own[q[2]] = Queue
    BY <1>3, <2>3 DEF KnownQueue
  <2>5. own[cur[p]] = Queue /\ Queue # Null /\ prev[cur[p]] \in Entries /\ cur[p] # Null
    BY <1>1, <1>2, <1>3, NamesApart DEF KnownQueue, Lists, ListType, Pointers
  <2>6. own[prev[cur[p]]] = Queue /\ next[prev[cur[p]]] = cur[p]
    BY <1>1, <1>2, <2>5 DEF Lists, Shape, Backed
  <2>7. q[2] = prev[cur[p]]
    BY <1>2, <2>4, <2>5, <2>6, OneSuccessor
  <2> QED  BY <1>1, <2>3, <2>7
<1>7. QueueIs(own, q2)'
  <2>1. q2 # <<>> /\ q2[1] = q[2] /\ next[q2[1]] = cur[p] /\ Len(q2) \in Nat
    <3>1. Len(q) \in Nat /\ q \in Seq(Entries)
      BY <1>3 DEF KnownQueue
    <3>2. Len(q2) \in Nat /\ 1 \in 1..Len(q2) /\ 1 \in 1..(Len(q) - 1) /\ 1 + 1 = 2
      BY <1>4, <1>6, <3>1
    <3>3. q2[1] = q[2] /\ q2 # <<>>
      BY <1>4, <3>2
    <3>4. next[q[2]] = q[1]
      BY <1>3, <3>2 DEF KnownQueue
    <3> QED  BY <1>2, <3>2, <3>3, <3>4
  <2>2. ASSUME NEW i \in 1..(Len(q2) - 1) PROVE next'[q2[i + 1]] = q2[i]
    <3>1. i \in 1..Len(q2) /\ i + 1 \in 1..Len(q2) /\ i + 1 \in 1..(Len(q) - 1)
      BY <1>3, <1>4 DEF KnownQueue
    <3>2. q2[i + 1] = q[(i + 1) + 1] /\ q2[i] = q[i + 1]
      BY <1>4, <3>1
    <3> QED  BY <1>1, <1>3, <3>1, <3>2 DEF KnownQueue
  <2>3. q2[Len(q2)] = tail /\ tail # Null
    <3>1. Len(q2) \in 1..Len(q2) /\ Len(q2) + 1 = Len(q)
      BY <1>3, <1>4, <1>6 DEF KnownQueue
    <3> QED  BY <1>2, <1>3, <1>4, <3>1 DEF KnownQueue
  <2>4. Path(q2, tail)'
    BY <1>1, <1>4, <2>1, <2>2, <2>3 DEF Path
  <2>5. \A i \in 1..Len(q2) : own[q2[i]] = Queue
    <3>1. \A i \in 1..Len(q2) : i + 1 \in 1..Len(q)
      BY <1>3, <1>4 DEF KnownQueue
    <3> QED  BY <1>3, <1>4, <3>1 DEF KnownQueue
  <2>6. \A r \in Processes : pc[r] = "visit" => r = p
    BY <1>5 DEF Holding
  <2> QED  BY <1>1, <1>6, <2>1, <2>4, <2>5, <2>6 DEF QueueIs
<1>8. AllIn(own, q2, tk2)'
  <2>1. ASSUME NEW x \in Entries, own[x] = Queue
        PROVE  \/ \E i \in 1..Len(q2) : q2[i] = x
               \/ \E r \in Processes : pc[r] = "visit" /\ \E i \in 1..Len(tk2[r]) : tk2[r][i] = x
    <3>0. \A i \in 1..Len(tk[p]) : i \in 1..Len(t) /\ t[i] = tk[p][i]
      <4>1. tk[p] \in Seq(Entries) /\ Len(t) = Len(tk[p]) + 1
        BY <1>2, Appended DEF Stands
      <4> QED  BY <1>2, <4>1, Appended
    <3>1. CASE x = q[1]
      <4>1. Len(t) \in 1..Len(t) /\ t[Len(t)] = x
        BY <1>2, <3>1 DEF Path
      <4> QED  BY <1>1, <4>1 DEF Given
    <3>2. CASE x # q[1] /\ \E i \in 1..Len(q) : q[i] = x
      <4>1. PICK i \in 1..Len(q) : q[i] = x
        BY <3>2
      <4>2. i - 1 \in 1..Len(q2) /\ (i - 1) + 1 = i
        BY <1>3, <1>4, <3>2, <4>1 DEF KnownQueue
      <4> QED  BY <1>4, <4>1, <4>2
    <3>3. CASE \E r \in Processes : pc[r] = "visit" /\ \E i \in 1..Len(tk[r]) : tk[r][i] = x
      <4>1. PICK i \in 1..Len(tk[p]) : tk[p][i] = x
        BY <1>5, <3>3 DEF Holding
      <4> QED  BY <1>1, <3>0, <4>1 DEF Given
    <3> QED  BY <2>1, <3>1, <3>2, <3>3 DEF Stands, AllIn
  <2> QED  BY <1>1, <2>1 DEF AllIn
<1>9. ASSUME NEW r \in Processes PROVE TakenIs(own, tk2[r], r)'
  <2>1. CASE r = p
    <3>1. First(p)' = cur[p] /\ Side(p)' = Queue /\ tk2[r] = t
      BY <1>1, <2>1 DEF First, Side, Given
    <3> HIDE DEF First, Side
    <3>2. Path(t, First(p))'
      BY <1>1, <1>2, <3>1 DEF Path
    <3> QED  BY <1>1, <1>2, <2>1, <3>1, <3>2 DEF TakenIs
  <2>2. CASE r # p
    <3>1. First(r)' = First(r) /\ tk2[r] = tk[r] /\ TakenIs(own, tk[r], r)
      BY <1>1, <2>2 DEF First, Given, Stands
    <3> HIDE DEF First
    <3> QED  BY <1>1, <3>1, TakenKept
  <2> QED  BY <2>1, <2>2
<1> QED  BY <1>1, <1>2, <1>7, <1>8, <1>9 DEF Stands, Given

(* The whole queue goes to one process. *)
Handed(own, own2, p) == \A x \in Entries : own2[x] = IF own[x] = Queue THEN p ELSE own[x]

LEMMA TakenAll ==
    ASSUME NEW own, NEW ord, NEW n, Lists(own, ord, n), NEW q, NEW tk, Stands(own, q, tk),
           NEW p \in Processes, NEW own2, Handed(own, own2, p),
           \A r \in Processes \ {p} : Same(r) /\ pc[r] \notin Holding,
           tail' = Null, next' = next, holder' \in Processes \cup {Null}, pc'[p] = "tell_done",
           NEW t, Path(t, cur'[p]), \A i \in 1..Len(t) : own[t[i]] = Queue, next[t[1]] = Null,
           NEW tk2, Given(tk, p, t, tk2)
    PROVE  Stands(own2, <<>>, tk2)'
<1>1. Queue \notin Processes /\ Queue # Null /\ Null \notin Processes
  BY NamesApart
<1>2. \A x \in Entries : own2[x] # Queue
  BY <1>1 DEF Handed
<1>3. \A r \in Processes : pc'[r] # "visit"
  BY DEF Same, Holding
<1>4. <<>> \in Seq(Entries) /\ Len(<<>>) = 0 /\ 1..0 = {} /\ 1..(0 - 1) = {}
  OBVIOUS
<1>5. Path(<<>>, tail)'
  BY <1>4 DEF Path
<1>6. QueueIs(own2, <<>>)'
  BY <1>3, <1>4, <1>5 DEF QueueIs
<1>7. AllIn(own2, <<>>, tk2)'
  BY <1>2 DEF AllIn
<1>8. ASSUME NEW r \in Processes PROVE TakenIs(own2, tk2[r], r)'
  <2>1. CASE r = p
    <3>1. First(p)' = cur'[p] /\ Side(p)' = p /\ tk2[r] = t
      BY <2>1 DEF First, Side, Given
    <3> HIDE DEF First, Side
    <3>2. Path(t, First(p))' /\ \A i \in 1..Len(t) : t[i] \in Entries
      BY <3>1 DEF Path
    <3>3. \A i \in 1..Len(t) : own2[t[i]] = p
      BY <3>2 DEF Handed
    <3> QED  BY <2>1, <3>1, <3>2, <3>3 DEF TakenIs
  <2>2. CASE r # p
    <3>1. First(r)' = First(r) /\ tk2[r] = tk[r] /\ TakenIs(own, tk[r], r) /\ Side(r) = r
      BY <2>2 DEF First, Given, Stands, Same, Side, Holding
    <3>2. \A x \in Entries : own[x] = r => own2[x] = own[x]
      BY <1>1 DEF Handed
    <3>3. pc'[r] = "visit" <=> pc[r] = "visit"
      BY <2>2 DEF Same
    <3> HIDE DEF First, Side
    <3> QED  BY <3>1, <3>2, <3>3, TakenKept
  <2> QED  BY <2>1, <2>2
<1> QED  BY <1>6, <1>7, <1>8 DEF Stands, Given

LEMMA DetachFifo ==
    ASSUME NEW own, NEW ord, NEW n, Lists(own, ord, n), NEW q, NEW tk, Stands(own, q, tk),
           NEW p \in Processes, Detach(p), NEW own2, Handed(own, own2, p),
           NEW tk2, Given(tk, p, q, tk2)
    PROVE  Stands(own2, <<>>, tk2)' /\ tk[p] = <<>>
<1>1. /\ pc[p] = "idle" /\ holder = Null /\ holder' = Null /\ tail' = Null /\ next' = next
      /\ pc'[p] = "tell_done" /\ cur'[p] = tail
      /\ \A r \in Processes \ {p} : Same(r)
  BY DEF Detach, Goto, Set, links, Same, Lists, ListType
<1>2. \A r \in Processes : pc[r] # "visit"
  BY <1>1, NoHolder DEF Holding
<1>3. \A r \in Processes \ {p} : Same(r) /\ pc[r] \notin Holding
  BY <1>1, NoHolder
<1>4. Path(q, tail) /\ tail # Null /\ \A i \in 1..Len(q) : own[q[i]] = Queue
  BY DEF Stands, QueueIs, Detach
<1>5. next[q[1]] = Null
  BY <1>2, <1>4 DEF Stands, QueueIs, Path
<1>6. Path(q, cur'[p])
  BY <1>1, <1>4
<1>7. tk[p] = <<>>
  BY <1>1, NoneTaken
<1> QED  BY <1>1, <1>3, <1>4, <1>5, <1>6, <1>7, TakenAll

LEMMA VisitTailFifo ==
    ASSUME NEW own, NEW ord, NEW n, Lists(own, ord, n), NEW q, NEW tk, Stands(own, q, tk),
           NEW p \in Processes, VisitTail(p), NEW own2, Handed(own, own2, p), NEW q2, Shrunk(q, q2),
           NEW t, Grown(tk[p], q[1], t), NEW tk2, Given(tk, p, t, tk2)
    PROVE  Stands(own2, q2, tk2)' /\ q # <<>>
<1>1. /\ pc[p] = "visit" /\ holder' = Null /\ tail' = Null /\ next' = next
      /\ pc'[p] = "tell_done" /\ cur'[p] = cur[p] /\ prev[cur[p]] = Null /\ tail = last[p]
      /\ \A r \in Processes \ {p} : Same(r)
  BY DEF VisitTail, Goto, Set, links, Same, Lists, ListType
<1>2. /\ q # <<>> /\ q[1] = cur[p] /\ cur[p] \in Entries /\ t \in Seq(Entries) /\ Path(t, cur[p])
      /\ t # <<>> /\ next[t[1]] = Null /\ \A i \in 1..Len(t) : own[t[i]] = Queue
  BY <1>1, TakeOne
<1>3. \A r \in Processes \ {p} : Same(r) /\ pc[r] \notin Holding
  BY <1>1, Alone DEF Holding
<1>4. q2 = <<>>
  <2>1. KnownQueue(own, ord, q)
    BY QueueFacts
  <2>2. cur[p] = tail
    BY <1>1, NoSuccessor
  <2>3. Len(q) = 1
    BY <1>2, <2>1, <2>2 DEF KnownQueue
  <2>4. q2 \in Seq(Entries) /\ Len(q2) = 0
    <3>1. q \in Seq(Entries)
      BY <2>1 DEF KnownQueue
    <3> QED  BY <1>2, <2>3, <3>1, Shortened
  <2> QED  BY <2>4
<1>5. Path(t, cur'[p])
  BY <1>1, <1>2
<1>6. Stands(own2, <<>>, tk2)'
  BY <1>1, <1>2, <1>3, <1>5, TakenAll
<1> QED  BY <1>2, <1>4, <1>6

(* The served part of the queue becomes the list of the process. *)
Cut(own, ord, own2, p, e) ==
    \A x \in Entries : own2[x] = IF own[x] = Queue /\ ord[x] < ord[e] THEN p ELSE own[x]

LEMMA CutFifo ==
    ASSUME NEW own, NEW ord, NEW n, Lists(own, ord, n), NEW q, NEW tk, Stands(own, q, tk),
           NEW p \in Processes, Stop(p) \/ VisitTailFailed(p), NEW own2, Cut(own, ord, own2, p, cur[p])
    PROVE  Stands(own2, q, tk)'
<1> PICK e, s : e = cur[p] /\ s = tk[p]
  OBVIOUS
<1>1. /\ pc[p] = "visit" /\ holder' = holder /\ tail' = tail /\ cur' = cur /\ resolved' = resolved
      /\ pc'[p] \in {"unlock", "add"}
      /\ \A r \in Processes \ {p} : pc'[r] = pc[r]
      /\ \A x \in Entries : next'[x] = IF x = e THEN Null ELSE next[x]
  BY DEF Stop, VisitTailFailed, Goto, Set, Lists, ListType
<1>2. KnownQueue(own, ord, q)
  BY QueueFacts
<1>3. q # <<>> /\ q[1] = e
  BY <1>1 DEF Stands, QueueIs
<1>4. /\ e \in Entries /\ own[e] = Queue /\ e # Null /\ Queue # Null /\ Null \notin Entries
      /\ Queue \notin Processes /\ Null \notin Processes /\ 1 \in 1..Len(q)
  BY <1>2, <1>3, NamesApart DEF KnownQueue
<1>5. KnownTaken(own, ord, s, p)
  BY TakenFacts
<1>6. Side(p) = Queue /\ First(p) = resolved[p] /\ resolved[p] = next[e]
  BY <1>1 DEF Side, First, Lists, Shape, ProcOK, Rounds
<1>7. \A r \in Processes \ {p} : pc[r] \notin Holding
  BY <1>1, Alone DEF Holding
<1>8. Cut(own, ord, own2, p, e) /\ \A x \in Entries : ord[x] \in Nat
  BY DEF Lists
<1> HIDE DEF First, Side
<1>9. \A i \in 1..Len(q) : own2[q[i]] = Queue /\ (i # 1 => next'[q[i]] = next[q[i]])
  <2>1. ASSUME NEW i \in 1..Len(q) PROVE own2[q[i]] = Queue /\ (i # 1 => next'[q[i]] = next[q[i]])
    <3>1. i = 1 \/ 1 < i
      BY <1>2 DEF KnownQueue
    <3>2. ~(ord[q[i]] < ord[e])
      BY <1>2, <1>3, <1>4, <1>8, <3>1 DEF KnownQueue
    <3>3. i # 1 => q[i] # e
      BY <1>2, <1>3, <1>4 DEF KnownQueue
    <3> QED  BY <1>1, <1>2, <1>8, <3>2, <3>3 DEF KnownQueue, Cut
  <2> QED  BY <2>1
<1>10. \A i \in 1..Len(s) : own[s[i]] = Queue /\ ord[s[i]] < ord[e]
  <2>1. ASSUME NEW i \in 1..Len(s) PROVE own[s[i]] = Queue /\ ord[s[i]] < ord[e]
    <3>1. s # <<>> /\ Len(s) \in 1..Len(s) /\ s[Len(s)] = next[e] /\ s[i] \in Entries /\ own[s[i]] = Queue
      BY <1>5, <1>6, <2>1 DEF KnownTaken
    <3>2. next[e] \in Entries /\ next[e] # Null
      BY <1>4, <1>5, <3>1 DEF KnownTaken
    <3>3. ord[next[e]] < ord[e]
      BY <1>4, <3>2 DEF Lists, Shape, Linked
    <3>4. i = Len(s) \/ i < Len(s)
      BY <1>5 DEF KnownTaken
    <3>5. ord[s[i]] <= ord[next[e]]
      BY <1>5, <1>8, <3>1, <3>2, <3>4 DEF KnownTaken
    <3> QED  BY <1>4, <1>8, <3>1, <3>2, <3>3, <3>5
  <2> QED  BY <2>1
<1>11. QueueIs(own2, q)'
  <2>1. \A i \in 1..(Len(q) - 1) : next'[q[i + 1]] = q[i]
    <3>1. ASSUME NEW i \in 1..(Len(q) - 1) PROVE i + 1 \in 1..Len(q) /\ i + 1 # 1
      BY <1>2, <3>1 DEF KnownQueue
    <3> QED  BY <1>2, <1>9, <3>1 DEF KnownQueue
  <2>2. Path(q, tail)'
    BY <1>1, <1>2, <2>1 DEF Path, KnownQueue
  <2>3. next'[q[1]] = Null /\ \A r \in Processes : pc'[r] # "visit"
    BY <1>1, <1>3, <1>4, <1>7 DEF Holding
  <2> QED  BY <1>9, <2>2, <2>3 DEF QueueIs
<1>12. AllIn(own2, q, tk)'
  <2>1. ASSUME NEW x \in Entries, own2[x] = Queue PROVE \E i \in 1..Len(q) : q[i] = x
    <3>1. own[x] = Queue /\ ~(ord[x] < ord[e])
      BY <1>4, <1>8, <2>1 DEF Cut
    <3>2. \A r \in Processes : pc[r] = "visit" => r = p
      BY <1>7 DEF Holding
    <3>3. \A i \in 1..Len(tk[p]) : tk[p][i] # x
      BY <1>10, <3>1
    <3> QED  BY <3>1, <3>2, <3>3 DEF Stands, AllIn
  <2> QED  BY <2>1 DEF AllIn
<1>13. ASSUME NEW r \in Processes PROVE TakenIs(own2, tk[r], r)'
  <2>1. TakenIs(own, tk[r], r)
    BY DEF Stands
  <2>2. CASE r = p
    <3>1. First(p)' = First(p) /\ Side(p)' = p
      BY <1>1 DEF First, Side
    <3>2. \A i \in 1..Len(s) : s[i] \in Entries /\ own2[s[i]] = p /\ next'[s[i]] = next[s[i]]
      <4>1. ASSUME NEW i \in 1..Len(s)
            PROVE  s[i] \in Entries /\ own2[s[i]] = p /\ next'[s[i]] = next[s[i]]
        <5>1. s[i] \in Entries /\ own[s[i]] = Queue /\ ord[s[i]] < ord[e]
          BY <1>5, <1>10 DEF KnownTaken
        <5>2. s[i] # e
          BY <1>4, <1>8, <5>1
        <5>3. own2[s[i]] = p
          BY <1>8, <5>1 DEF Cut
        <5> QED  BY <1>1, <5>1, <5>2, <5>3
      <4> QED  BY <4>1
    <3>3. \A i \in 1..(Len(s) - 1) : next'[s[i + 1]] = s[i]
      <4>1. ASSUME NEW i \in 1..(Len(s) - 1) PROVE i + 1 \in 1..Len(s)
        BY <1>5, <4>1 DEF KnownTaken
      <4> QED  BY <1>5, <3>2, <4>1 DEF KnownTaken
    <3>4. Path(s, First(p))'
      BY <1>5, <3>1, <3>3 DEF Path, KnownTaken
    <3>5. TakenIs(own2, s, p)'
      BY <1>5, <3>1, <3>2, <3>4 DEF TakenIs, KnownTaken
    <3> QED  BY <2>2, <3>5
  <2>3. CASE r # p
    <3>1. First(r)' = First(r) /\ Side(r) = r
      BY <1>1, <1>7, <2>3 DEF First, Side, Holding
    <3>2. \A x \in Entries : own[x] = r => own2[x] = own[x] /\ next'[x] = next[x]
      BY <1>1, <1>4, <1>8 DEF Cut
    <3> QED  BY <1>1, <2>1, <2>3, <3>1, <3>2, TakenKept
  <2> QED  BY <2>2, <2>3
<1> QED  BY <1>1, <1>11, <1>12, <1>13 DEF Stands

(* The newest of the entries taken leaves. *)
Cropped(s, t) == t = SubSeq(s, 1, Len(s) - 1)

LEMMA CroppedIs ==
    ASSUME NEW s \in Seq(Entries), s # <<>>, NEW t, Cropped(s, t)
    PROVE  /\ t \in Seq(Entries) /\ Len(t) = Len(s) - 1 /\ \A i \in 1..Len(t) : t[i] = s[i]
<1>1. Len(s) \in Nat /\ Len(s) - 1 \in Nat /\ \A i \in 1..Len(s) : s[i] \in Entries
  OBVIOUS
<1>2. t = [i \in 1..(Len(s) - 1) |-> s[i]]
  BY <1>1 DEF Cropped
<1>3. \A i \in 1..(Len(s) - 1) : i \in 1..Len(s)
  BY <1>1
<1>4. t \in Seq(Entries) /\ Len(t) = Len(s) - 1
  BY <1>1, <1>2, <1>3
<1> QED  BY <1>2, <1>4

LEMMA TellFifo ==
    ASSUME NEW own, NEW ord, NEW n, Lists(own, ord, n), NEW q, NEW tk, Stands(own, q, tk),
           NEW p \in Processes, Tell(p), NEW own2,
           \A x \in Entries : own2[x] = IF x = cur[p] THEN Null ELSE own[x],
           NEW t, Cropped(tk[p], t), NEW tk2, Given(tk, p, t, tk2)
    PROVE  Stands(own2, q, tk2)' /\ tk[p] # <<>>
<1> PICK e, s : e = cur[p] /\ s = tk[p]
  OBVIOUS
<1>1. /\ pc[p] \in {"tell_more", "tell_done"} /\ pc' = pc /\ next' = next /\ tail' = tail /\ holder' = holder
      /\ resolved' = resolved /\ cur'[p] = next[e] /\ \A r \in Processes \ {p} : cur'[r] = cur[r]
      /\ e # Null
  BY DEF Tell, Set, links, Lists, ListType
<1>2. KnownTaken(own, ord, s, p) /\ Cropped(s, t)
  BY TakenFacts
<1>3. First(p) = e /\ Side(p) = p /\ First(p)' = next[e] /\ Side(p)' = p
  BY <1>1 DEF First, Side
<1> HIDE DEF First, Side
<1>4. s # <<>> /\ Len(s) \in 1..Len(s) /\ s[Len(s)] = e /\ e \in Entries /\ own[e] = p /\ Len(s) \in Nat
  BY <1>1, <1>2, <1>3 DEF KnownTaken
<1>5. t \in Seq(Entries) /\ Len(t) = Len(s) - 1 /\ \A i \in 1..Len(t) : t[i] = s[i]
  BY <1>2, <1>4, CroppedIs DEF KnownTaken
<1>6. /\ Queue \notin Processes /\ Null \notin Processes /\ Queue # Null /\ Null \notin Entries
      /\ \A x \in Entries : x # e => own2[x] = own[x]
      /\ own2[e] = Null
  BY <1>4, NamesApart
<1>7. \A i \in 1..Len(t) : own2[t[i]] = p
  <2>1. ASSUME NEW i \in 1..Len(t) PROVE own2[t[i]] = p
    <3>1. i \in 1..Len(s) /\ i # Len(s) /\ t[i] = s[i]
      BY <1>4, <1>5
    <3>2. s[i] \in Entries /\ own[s[i]] = p /\ s[i] # e
      BY <1>2, <1>3, <1>4, <3>1 DEF KnownTaken
    <3> QED  BY <1>6, <3>1, <3>2
  <2> QED  BY <2>1
<1>8. Path(t, next[e])
  <2>1. CASE Len(s) = 1
    <3>1. t = <<>> /\ next[e] = Null
      BY <1>2, <1>4, <1>5, <2>1 DEF KnownTaken
    <3> QED  BY <1>5, <2>1, <3>1 DEF Path
  <2>2. CASE Len(s) # 1
    <3>1. Len(s) - 1 \in 1..(Len(s) - 1) /\ (Len(s) - 1) + 1 = Len(s) /\ Len(t) \in 1..Len(t)
      <4>1. \A k \in Nat : k # 0 /\ k # 1 => k - 1 \in 1..(k - 1) /\ (k - 1) + 1 = k
        OBVIOUS
      <4>2. Len(s) # 0
        BY <1>4
      <4>3. Len(s) - 1 \in 1..(Len(s) - 1) /\ (Len(s) - 1) + 1 = Len(s)
        BY <1>4, <2>2, <4>1, <4>2
      <4>4. Len(t) = Len(s) - 1
        BY <1>5
      <4> QED  BY <4>3, <4>4
    <3>2. next[e] = s[Len(s) - 1] /\ s[Len(s) - 1] = t[Len(t)] /\ next[e] \in Entries /\ t # <<>>
      BY <1>2, <1>4, <1>5, <3>1 DEF KnownTaken
    <3>3. ASSUME NEW i \in 1..(Len(t) - 1) PROVE next[t[i + 1]] = t[i]
      <4>1. i \in 1..Len(t) /\ i + 1 \in 1..Len(t) /\ i \in 1..(Len(s) - 1)
        BY <1>4, <1>5, <3>3
      <4>2. next[s[i + 1]] = s[i]
        BY <1>2, <4>1 DEF KnownTaken
      <4> QED  BY <1>5, <4>1, <4>2
    <3> QED  BY <1>5, <1>6, <3>2, <3>3 DEF Path
  <2> QED  BY <2>1, <2>2
<1>9. t # <<>> => next[t[1]] = Null
  <2>1. t # <<>> => 1 \in 1..Len(t)
    BY <1>5
  <2> QED  BY <1>2, <1>4, <1>5, <2>1 DEF KnownTaken
<1>10. QueueIs(own2, q)'
  <2>1. QueueIs(own, q) /\ Path(q, tail)
    BY DEF Stands, QueueIs
  <2>2. Path(q, tail)' /\ \A i \in 1..Len(q) : q[i] \in Entries /\ own[q[i]] = Queue
    BY <1>1, <2>1 DEF Path, QueueIs
  <2>3. \A i \in 1..Len(q) : own2[q[i]] = Queue
    BY <1>4, <1>6, <2>2
  <2>4. \A r \in Processes : pc[r] = "visit" => cur'[r] = cur[r]
    BY <1>1
  <2> QED  BY <1>1, <2>1, <2>2, <2>3, <2>4 DEF QueueIs
<1>11. AllIn(own2, q, tk2)'
  <2>1. \A r \in Processes : pc[r] = "visit" => tk2[r] = tk[r]
    BY <1>1 DEF Given
  <2>2. \A x \in Entries : own2[x] = Queue => own[x] = Queue
    BY <1>6
  <2> QED  BY <1>1, <2>1, <2>2 DEF Stands, AllIn
<1>12. ASSUME NEW r \in Processes PROVE TakenIs(own2, tk2[r], r)'
  <2>1. CASE r = p
    <3>1. Path(t, First(p))'
      BY <1>1, <1>3, <1>8 DEF Path
    <3>2. TakenIs(own2, t, p)'
      BY <1>1, <1>3, <1>7, <1>9, <3>1 DEF TakenIs
    <3> QED  BY <2>1, <3>2 DEF Given
  <2>2. CASE r # p
    <3>1. First(r)' = First(r) /\ tk2[r] = tk[r] /\ TakenIs(own, tk[r], r) /\ Side(r) # p
      BY <1>1, <1>6, <2>2 DEF First, Given, Stands, Side
    <3>2. \A x \in Entries : own[x] = Side(r) => own2[x] = own[x] /\ next'[x] = next[x]
      BY <1>1, <1>4, <1>6, <3>1
    <3>3. pc'[r] = "visit" <=> pc[r] = "visit"
      BY <1>1
    <3> QED  BY <3>1, <3>2, <3>3, TakenKept
  <2> QED  BY <2>1, <2>2
<1> QED  BY <1>1, <1>4, <1>10, <1>11, <1>12 DEF Stands, Given

(* An entry is removed from the middle of a sequence. *)
Without(s, k, t) == t = [i \in 1..(Len(s) - 1) |-> IF i < k THEN s[i] ELSE s[i + 1]]

LEMMA WithoutIs ==
    ASSUME NEW s \in Seq(Entries), NEW k \in 1..Len(s), NEW t, Without(s, k, t)
    PROVE  /\ t \in Seq(Entries) /\ Len(t) = Len(s) - 1 /\ Len(s) \in Nat /\ k \in Nat
           /\ \A i \in 1..Len(t) : i < k => t[i] = s[i] /\ i \in 1..Len(s)
           /\ \A i \in 1..Len(t) : ~(i < k) => t[i] = s[i + 1] /\ i + 1 \in 1..Len(s)
<1>1. Len(s) \in Nat /\ Len(s) - 1 \in Nat /\ k \in Nat /\ \A i \in 1..Len(s) : s[i] \in Entries
  OBVIOUS
<1>2. \A i \in 1..(Len(s) - 1) : i \in 1..Len(s) /\ i + 1 \in 1..Len(s)
  BY <1>1
<1>3. t \in [1..(Len(s) - 1) -> Entries]
  BY <1>1, <1>2 DEF Without
<1>4. t \in Seq(Entries) /\ Len(t) = Len(s) - 1
  BY <1>1, <1>3
<1>5. \A i \in 1..(Len(s) - 1) : t[i] = IF i < k THEN s[i] ELSE s[i + 1]
  BY DEF Without
<1> QED  BY <1>1, <1>2, <1>4, <1>5

LEMMA FoundIn ==
    ASSUME NEW own, NEW ord, NEW n, Lists(own, ord, n), NEW q, NEW tk, Stands(own, q, tk),
           NEW p \in Droppers, pc[p] = "remove", cur[p] = p
    PROVE  /\ p \in Processes /\ p \in Entries /\ own[p] = Queue
           /\ \A r \in Processes : pc[r] # "visit"
           /\ \E k \in 1..Len(q) : q[k] = p
           /\ q # <<>> /\ next[q[1]] = Null
<1>1. p \in Processes /\ p \in Entries /\ p # Null
  BY NamesApart
<1>2. own[p] = Queue
  BY <1>1 DEF Lists, Shape, ProcOK, Walked
<1>3. \A r \in Processes : pc[r] # "visit"
  BY <1>1, Alone DEF Holding
<1>4. PICK k \in 1..Len(q) : q[k] = p
  BY <1>1, <1>2, <1>3 DEF Stands, AllIn
<1>5. q # <<>>
  BY <1>4, QueueFacts DEF KnownQueue
<1> QED  BY <1>1, <1>2, <1>3, <1>4, <1>5 DEF Stands, QueueIs

LEMMA Removed ==
    ASSUME NEW own, NEW ord, NEW n, Lists(own, ord, n), NEW q, NEW tk, Stands(own, q, tk),
           NEW p \in Droppers, pc[p] = "remove", cur[p] = p, pc'[p] \in {"scan", "idle"},
           \A r \in Processes \ {p} : pc'[r] = pc[r] /\ cur'[r] = cur[r],
           resolved' = resolved, holder' \in Processes \cup {Null},
           \A x \in Entries : own[x] # Queue => next'[x] = next[x],
           NEW own2, \A x \in Entries : own2[x] = IF x = p THEN Null ELSE own[x],
           NEW k \in 1..Len(q), q[k] = p, NEW q2, Without(q, k, q2),
           Path(q2, tail)', q2 # <<>> => next'[q2[1]] = Null
    PROVE  Stands(own2, q2, tk)'
<1>1. /\ p \in Processes /\ p \in Entries /\ own[p] = Queue
      /\ \A r \in Processes : pc[r] # "visit"
  BY FoundIn
<1>2. KnownQueue(own, ord, q)
  BY QueueFacts
<1>3. /\ q2 \in Seq(Entries) /\ Len(q2) = Len(q) - 1 /\ Len(q) \in Nat /\ k \in Nat
      /\ \A i \in 1..Len(q2) : i < k => q2[i] = q[i] /\ i \in 1..Len(q)
      /\ \A i \in 1..Len(q2) : ~(i < k) => q2[i] = q[i + 1] /\ i + 1 \in 1..Len(q)
  BY <1>2, WithoutIs DEF KnownQueue
<1>4. \A r \in Processes : pc'[r] # "visit"
  BY <1>1
<1>5. /\ Queue \notin Processes /\ Queue # Null
      /\ \A x \in Entries : x # p => own2[x] = own[x]
      /\ own2[p] = Null
  BY <1>1, NamesApart
<1>6. QueueIs(own2, q2)'
  <2>1. ASSUME NEW i \in 1..Len(q2) PROVE own2[q2[i]] = Queue
    <3>1. PICK j \in 1..Len(q) : q2[i] = q[j] /\ j # k
      <4>1. CASE i < k
        BY <1>3, <4>1
      <4>2. CASE ~(i < k)
        <5>1. i + 1 # k
          BY <1>3, <4>2
        <5> QED  BY <1>3, <4>2, <5>1
      <4> QED  BY <4>1, <4>2
    <3>2. q[j] # p /\ q[j] \in Entries /\ own[q[j]] = Queue
      BY <1>2, <3>1 DEF KnownQueue
    <3> QED  BY <1>5, <3>1, <3>2
  <2> QED  BY <1>4, <2>1 DEF QueueIs
<1>7. AllIn(own2, q2, tk)'
  <2>1. ASSUME NEW x \in Entries, own2[x] = Queue PROVE \E i \in 1..Len(q2) : q2[i] = x
    <3>1. x # p /\ own[x] = Queue
      BY <1>5, <2>1
    <3>2. PICK j \in 1..Len(q) : q[j] = x
      BY <1>1, <3>1 DEF Stands, AllIn
    <3>3. j # k
      BY <3>1, <3>2
    <3>4. CASE j < k
      <4>1. j \in 1..Len(q2)
        BY <1>3, <3>4
      <4> QED  BY <1>3, <3>2, <3>4, <4>1
    <3>5. CASE ~(j < k)
      <4>1. j - 1 \in 1..Len(q2) /\ ~(j - 1 < k) /\ (j - 1) + 1 = j
        BY <1>3, <3>3, <3>5
      <4> QED  BY <1>3, <3>2, <4>1
    <3> QED  BY <3>4, <3>5
  <2> QED  BY <2>1 DEF AllIn
<1>8. ASSUME NEW r \in Processes PROVE TakenIs(own2, tk[r], r)'
  <2>1. First(r)' = First(r) /\ Side(r) = r /\ TakenIs(own, tk[r], r)
    <3>1. CASE r = p
      BY <1>1, <3>1 DEF First, Side, Stands
    <3>2. CASE r # p
      BY <1>1, <3>2 DEF First, Side, Stands
    <3> QED  BY <3>1, <3>2
  <2> HIDE DEF First, Side
  <2>2. \A x \in Entries : own[x] = r => own2[x] = own[x] /\ next'[x] = next[x]
    BY <1>1, <1>5
  <2> QED  BY <1>1, <1>4, <2>1, <2>2, TakenKept
<1> QED  BY <1>6, <1>7, <1>8 DEF Stands

(* What the steps of a removal have in common. *)
LEMMA Removing ==
    ASSUME NEW own, NEW ord, NEW n, Lists(own, ord, n), NEW q, NEW tk, Stands(own, q, tk),
           NEW p \in Droppers, RemoveInner(p) \/ RemoveTail(p) \/ RemoveSole(p)
    PROVE  /\ pc[p] = "remove" /\ cur[p] = p /\ pc'[p] \in {"scan", "idle"} /\ resolved' = resolved
           /\ \A r \in Processes \ {p} : pc'[r] = pc[r] /\ cur'[r] = cur[r]
           /\ holder' \in Processes \cup {Null}
  BY NamesApart DEF RemoveInner, RemoveTail, RemoveSole, Process, Goto, Set, Stands, Lists, ListType

LEMMA RemoveInnerFifo ==
    ASSUME NEW own, NEW ord, NEW n, Lists(own, ord, n), NEW q, NEW tk, Stands(own, q, tk),
           NEW p \in Droppers, RemoveInner(p), NEW own2,
           \A x \in Entries : own2[x] = IF x = p THEN Null ELSE own[x],
           NEW k \in 1..Len(q), q[k] = p, NEW q2, Without(q, k, q2)
    PROVE  Stands(own2, q2, tk)'
<1>1. /\ pc[p] = "remove" /\ cur[p] = p /\ pc'[p] \in {"scan", "idle"} /\ resolved' = resolved
      /\ \A r \in Processes \ {p} : pc'[r] = pc[r] /\ cur'[r] = cur[r]
      /\ holder' \in Processes \cup {Null}
  BY Removing
<1>2. p \in Processes /\ p \in Entries /\ own[p] = Queue /\ q # <<>> /\ next[q[1]] = Null
  BY <1>1, FoundIn
<1>3. KnownQueue(own, ord, q)
  BY QueueFacts
<1>4. /\ q2 \in Seq(Entries) /\ Len(q2) = Len(q) - 1 /\ Len(q) \in Nat /\ k \in Nat
      /\ \A i \in 1..Len(q2) : i < k => q2[i] = q[i] /\ i \in 1..Len(q)
      /\ \A i \in 1..Len(q2) : ~(i < k) => q2[i] = q[i + 1] /\ i + 1 \in 1..Len(q)
  BY <1>3, WithoutIs DEF KnownQueue
<1>5. PICK f : f = prev[p]
  OBVIOUS
<1>6. /\ f \in Entries /\ own[f] = Queue /\ next[f] = p /\ tail' = tail /\ Queue # Null /\ Null \notin Entries
      /\ \A x \in Entries : next'[x] = IF x = f THEN next[p] ELSE next[x]
  <2>1. f # Null /\ f \in Pointers
    BY <1>2, <1>5 DEF RemoveInner, Lists, ListType
  <2>2. own[f] = Queue /\ next[f] = p
    BY <1>2, <1>5, <2>1 DEF Lists, Shape, Backed
  <2>3. tail' = tail /\ \A x \in Entries : next'[x] = IF x = f THEN next[p] ELSE next[x]
    BY <1>5 DEF RemoveInner, Set, Lists, ListType
  <2> QED  BY <2>1, <2>2, <2>3, NamesApart DEF Pointers
<1>7. k < Len(q) /\ k + 1 \in 1..Len(q) /\ q[k + 1] = f
  <2>1. tail # Null /\ prev[tail] = Null
    BY <1>2, <1>3, TailPrev DEF KnownQueue
  <2>2. k # Len(q)
    BY <1>2, <1>3, <1>5, <1>6, <2>1 DEF KnownQueue
  <2>3. k < Len(q) /\ k + 1 \in 1..Len(q) /\ k \in 1..(Len(q) - 1)
    BY <1>4, <2>2
  <2>4. next[q[k + 1]] = p /\ q[k + 1] \in Entries /\ own[q[k + 1]] = Queue
    BY <1>3, <2>3 DEF KnownQueue
  <2>5. p # Null
    BY <1>2, <1>6
  <2> QED  BY <1>6, <2>3, <2>4, <2>5, OneSuccessor
<1>8. \A i \in 1..Len(q) : i # k + 1 => next'[q[i]] = next[q[i]]
  BY <1>3, <1>6, <1>7 DEF KnownQueue
<1>9. Path(q2, tail)'
  <2>1. ASSUME NEW i \in 1..(Len(q2) - 1) PROVE next'[q2[i + 1]] = q2[i]
    <3>0. i \in 1..Len(q2) /\ i + 1 \in 1..Len(q2) /\ i \in 1..(Len(q) - 1) /\ i + 1 \in 1..(Len(q) - 1)
      BY <1>4, <2>1
    <3>1. CASE i + 1 < k
      <4>1. q2[i + 1] = q[i + 1] /\ q2[i] = q[i] /\ i + 1 \in 1..Len(q) /\ i + 1 # k + 1
        BY <1>4, <3>0, <3>1
      <4> QED  BY <1>3, <1>8, <3>0, <4>1 DEF KnownQueue
    <3>2. CASE i + 1 = k
      <4>1. q2[i + 1] = q[k + 1] /\ q2[i] = q[i] /\ q[i + 1] = p
        BY <1>4, <3>0, <3>2
      <4>2. next[p] = q[i]
        BY <1>3, <3>0, <4>1 DEF KnownQueue
      <4> QED  BY <1>6, <1>7, <4>1, <4>2
    <3>3. CASE i + 1 > k
      <4>1. ~(i < k) /\ ~(i + 1 < k) /\ (i + 1) + 1 # k + 1
        BY <1>4, <3>0, <3>3
      <4>2. q2[i + 1] = q[(i + 1) + 1] /\ q2[i] = q[i + 1] /\ (i + 1) + 1 \in 1..Len(q)
        BY <1>4, <3>0, <4>1
      <4> QED  BY <1>3, <1>8, <3>0, <4>1, <4>2 DEF KnownQueue
    <3> QED  BY <1>4, <3>0, <3>1, <3>2, <3>3
  <2>2. Len(q2) \in 1..Len(q2) /\ ~(Len(q2) < k) /\ Len(q2) + 1 = Len(q)
    BY <1>4, <1>7
  <2>3. q2 # <<>> /\ q2[Len(q2)] = tail /\ tail # Null
    BY <1>2, <1>3, <1>4, <2>2 DEF KnownQueue
  <2> QED  BY <1>4, <1>6, <2>1, <2>3 DEF Path
<1>10. next'[q2[1]] = Null
  <2>1. 1 \in 1..Len(q2) /\ 1 \in 1..Len(q)
    BY <1>4, <1>7
  <2>2. CASE k = 1
    <3>1. q2[1] = f /\ p = q[1]
      BY <1>4, <1>7, <2>1, <2>2
    <3> QED  BY <1>2, <1>6, <3>1
  <2>3. CASE k # 1
    <3>1. 1 < k /\ 1 # k + 1
      BY <1>4, <2>3
    <3>2. q2[1] = q[1]
      BY <1>4, <2>1, <3>1
    <3> QED  BY <1>2, <1>8, <2>1, <3>1, <3>2
  <2> QED  BY <2>2, <2>3
<1>11. \A x \in Entries : own[x] # Queue => next'[x] = next[x]
  BY <1>6
<1> QED  BY <1>1, <1>9, <1>10, <1>11, Removed

LEMMA RemoveTailFifo ==
    ASSUME NEW own, NEW ord, NEW n, Lists(own, ord, n), NEW q, NEW tk, Stands(own, q, tk),
           NEW p \in Droppers, RemoveTail(p), NEW own2,
           \A x \in Entries : own2[x] = IF x = p THEN Null ELSE own[x],
           NEW k \in 1..Len(q), q[k] = p, NEW q2, Without(q, k, q2)
    PROVE  Stands(own2, q2, tk)'
<1>1. /\ pc[p] = "remove" /\ cur[p] = p /\ pc'[p] \in {"scan", "idle"} /\ resolved' = resolved
      /\ \A r \in Processes \ {p} : pc'[r] = pc[r] /\ cur'[r] = cur[r]
      /\ holder' \in Processes \cup {Null}
  BY Removing
<1>2. p \in Processes /\ p \in Entries /\ own[p] = Queue /\ q # <<>> /\ next[q[1]] = Null
  BY <1>1, FoundIn
<1>3. KnownQueue(own, ord, q)
  BY QueueFacts
<1>4. /\ q2 \in Seq(Entries) /\ Len(q2) = Len(q) - 1 /\ Len(q) \in Nat /\ k \in Nat
      /\ \A i \in 1..Len(q2) : i < k => q2[i] = q[i] /\ i \in 1..Len(q)
  BY <1>3, WithoutIs DEF KnownQueue
<1>5. p = tail /\ tail' = next[p] /\ next[p] # Null /\ next' = next /\ Null \notin Entries
  <2>1. cur[p] = last[p]
    BY <1>1, <1>2, NoSuccessor, NamesApart DEF RemoveTail
  <2> QED  BY <1>1, <2>1, NamesApart DEF RemoveTail
<1>6. k = Len(q) /\ k # 1
  BY <1>2, <1>3, <1>5 DEF KnownQueue
<1>7. \A i \in 1..Len(q2) : q2[i] = q[i] /\ i \in 1..(Len(q) - 1)
  BY <1>4, <1>6
<1>8. Len(q2) \in 1..Len(q2) /\ 1 \in 1..Len(q2) /\ Len(q2) \in Nat /\ q2 # <<>>
  <2>1. \A m \in Nat : m # 0 /\ m # 1 => m - 1 \in 1..(m - 1) /\ 1 \in 1..(m - 1) /\ m - 1 \in Nat
    OBVIOUS
  <2>2. Len(q) # 0 /\ Len(q) # 1 /\ Len(q) \in Nat
    BY <1>4, <1>6
  <2> QED  BY <1>4, <2>1, <2>2
<1>9. Path(q2, tail)'
  <2>1. ASSUME NEW i \in 1..(Len(q2) - 1) PROVE next'[q2[i + 1]] = q2[i]
    <3>1. i \in 1..Len(q2) /\ i + 1 \in 1..Len(q2) /\ i \in 1..(Len(q) - 1)
      BY <1>4, <1>8, <2>1
    <3> QED  BY <1>3, <1>5, <1>7, <3>1 DEF KnownQueue
  <2>2. q2[Len(q2)] = next[p]
    <3>1. Len(q2) \in 1..(Len(q) - 1) /\ Len(q2) + 1 = k
      BY <1>4, <1>6, <1>8
    <3> QED  BY <1>3, <1>7, <1>8, <3>1 DEF KnownQueue
  <2> QED  BY <1>4, <1>5, <1>8, <2>1, <2>2 DEF Path
<1>10. next'[q2[1]] = Null
  BY <1>2, <1>5, <1>7, <1>8
<1> QED  BY <1>1, <1>5, <1>9, <1>10, Removed

LEMMA RemoveSoleFifo ==
    ASSUME NEW own, NEW ord, NEW n, Lists(own, ord, n), NEW q, NEW tk, Stands(own, q, tk),
           NEW p \in Droppers, RemoveSole(p), NEW own2,
           \A x \in Entries : own2[x] = IF x = p THEN Null ELSE own[x],
           NEW k \in 1..Len(q), q[k] = p, NEW q2, Without(q, k, q2)
    PROVE  Stands(own2, q2, tk)'
<1>1. /\ pc[p] = "remove" /\ cur[p] = p /\ pc'[p] \in {"scan", "idle"} /\ resolved' = resolved
      /\ \A r \in Processes \ {p} : pc'[r] = pc[r] /\ cur'[r] = cur[r]
      /\ holder' \in Processes \cup {Null}
  BY Removing
<1>2. p \in Processes /\ p \in Entries /\ own[p] = Queue /\ q # <<>>
  BY <1>1, FoundIn
<1>3. KnownQueue(own, ord, q)
  BY QueueFacts
<1>4. q2 \in Seq(Entries) /\ Len(q2) = Len(q) - 1 /\ Len(q) \in Nat /\ k \in Nat
  BY <1>3, WithoutIs DEF KnownQueue
<1>5. p = tail /\ tail' = Null /\ next[p] = Null /\ Null \notin Entries
  <2>1. cur[p] = last[p]
    BY <1>1, <1>2, NoSuccessor, NamesApart DEF RemoveSole
  <2> QED  BY <1>1, <2>1, NamesApart DEF RemoveSole
<1>6. Len(q) = 1
  <2>1. ASSUME Len(q) # 1 PROVE FALSE
    <3>1. \A m \in Nat : m # 0 /\ m # 1 => m - 1 \in 1..(m - 1) /\ m - 1 \in 1..m /\ (m - 1) + 1 = m
      OBVIOUS
    <3>2. Len(q) # 0
      BY <1>4
    <3>3. Len(q) - 1 \in 1..(Len(q) - 1) /\ Len(q) - 1 \in 1..Len(q) /\ (Len(q) - 1) + 1 = Len(q)
      BY <1>4, <2>1, <3>1, <3>2
    <3>4. next[q[(Len(q) - 1) + 1]] = q[Len(q) - 1] /\ q[Len(q) - 1] \in Entries
      BY <1>3, <3>3 DEF KnownQueue
    <3> QED  BY <1>2, <1>3, <1>5, <3>3, <3>4 DEF KnownQueue
  <2> QED  BY <2>1
<1>7. q2 = <<>>
  BY <1>4, <1>6
<1>8. Path(q2, tail)'
  <2>1. <<>> \in Seq(Entries) /\ Len(<<>>) = 0 /\ 1..(0 - 1) = {}
    OBVIOUS
  <2> QED  BY <1>5, <1>7, <2>1 DEF Path
<1>9. \A x \in Entries : own[x] # Queue => next'[x] = next[x]
  BY <1>2 DEF RemoveSole, Exit, Set, Lists, ListType
<1> QED  BY <1>1, <1>7, <1>8, <1>9, Removed

-----------------------------------------------------------------------------
(* What a step may do to the sequences. *)
Moved(q, tk, q2, tk2) ==
    \/ /\ tk2 = tk
       /\ \E e \in Entries : /\ e \notin Elements(q) /\ Grown(q, e, q2)
                             /\ \A p \in Processes : e \notin Elements(tk[p])
    \/ tk2 = tk /\ \E k \in 1..Len(q) : q[k] \in Entries /\ Without(q, k, q2)
    \/ \E p \in Processes, t \in Seq(Entries) :
           /\ tk2 = [tk EXCEPT ![p] = t]
           /\ \/ q # <<>> /\ Shrunk(q, q2) /\ Grown(tk[p], q[1], t)
              \/ tk[p] = <<>> /\ q2 = <<>> /\ t = q
              \/ tk[p] # <<>> /\ q2 = q /\ Cropped(tk[p], t)

(* One step of the list: the sequences stay, or change as a queue does. *)
FifoStep(q, tk) == \E own2, ord2, n2, q2, tk2 :
                       /\ Lists(own2, ord2, n2)' /\ Stands(own2, q2, tk2)'
                       /\ (q2 = q /\ tk2 = tk) \/ Moved(q, tk, q2, tk2)

LEMMA StepStays ==
    ASSUME NEW own, NEW ord, NEW n, NEW q, NEW tk, Lists(own, ord, n)', Stands(own, q, tk)'
    PROVE  FifoStep(q, tk)
  BY DEF FifoStep

LEMMA StepMoves ==
    ASSUME NEW own, NEW ord, NEW n, NEW q, NEW tk, NEW q2, NEW tk2,
           Lists(own, ord, n)', Stands(own, q2, tk2)', Moved(q, tk, q2, tk2)
    PROVE  FifoStep(q, tk)
  BY DEF FifoStep

LEMMA GivenIs ==
    ASSUME NEW tk \in [Processes -> Seq(Entries)], NEW p \in Processes, NEW t \in Seq(Entries),
           NEW tk2, tk2 = [tk EXCEPT ![p] = t]
    PROVE  Given(tk, p, t, tk2)
  BY DEF Given

LEMMA FifoEntry ==
    ASSUME NEW own, NEW ord, NEW n, Lists(own, ord, n), NEW q, NEW tk, Stands(own, q, tk),
           NEW e \in Entries, Push(e) \/ Leave(e)
    PROVE  FifoStep(q, tk)
<1>1. CASE Leave(e)
  BY <1>1, LeaveStep, EntryQuiet, StepStays
<1>2. CASE Push(e)
  <2>1. own \in [Entries -> Owners] /\ ord \in [Entries -> Nat] /\ n \in Nat /\ Queue \in Owners
    BY DEF Lists, Owners
  <2>2. PICK own2 \in [Entries -> Owners] : \A x \in Entries : own2[x] = IF x = e THEN Queue ELSE own[x]
    <3>1. [own EXCEPT ![e] = Queue] \in [Entries -> Owners]
      BY <2>1
    <3> QED  BY <2>1, <3>1
  <2>3. \E ord2 \in [Entries -> Nat] : \A x \in Entries : ord2[x] = IF x = e THEN n ELSE ord[x]
    <3>1. [ord EXCEPT ![e] = n] \in [Entries -> Nat]
      BY <2>1
    <3> QED  BY <2>1, <3>1
  <2>4. PICK ord2 \in [Entries -> Nat] : \A x \in Entries : ord2[x] = IF x = e THEN n ELSE ord[x]
    BY <2>3
  <2>5. Lists(own2, ord2, n + 1)'
    BY <1>2, <2>2, <2>4, PushStep
  <2>6. PICK q2 : Grown(q, e, q2)
    BY DEF Grown
  <2>7. /\ Stands(own2, q2, tk)' /\ e \notin Elements(q)
        /\ \A p \in Processes : e \notin Elements(tk[p])
    BY <1>2, <2>2, <2>6, PushFifo
  <2>8. Moved(q, tk, q2, tk)
    BY <2>6, <2>7 DEF Moved
  <2> QED  BY <2>5, <2>7, <2>8, StepMoves
<1> QED  BY <1>1, <1>2

(* The steps that take entries off the queue. *)
LEMMA FifoTake ==
    ASSUME NEW own, NEW ord, NEW n, Lists(own, ord, n), NEW q, NEW tk, Stands(own, q, tk),
           NEW p \in Processes, Visit(p) \/ VisitTail(p) \/ Detach(p)
    PROVE  FifoStep(q, tk)
<1>1. tk \in [Processes -> Seq(Entries)] /\ q \in Seq(Entries)
  BY DEF Stands, QueueIs, Path
<1>2. PICK own2 : own2 = [x \in Entries |-> IF own[x] = Queue THEN p ELSE own[x]]
  OBVIOUS
<1>3. Handed(own, own2, p)
  BY <1>2 DEF Handed
<1>4. Detach(p) \/ VisitTail(p) => Lists(own2, ord, n)'
  BY <1>2, DetachStep, VisitTailStep
<1>5. CASE Detach(p)
  <2>1. PICK tk2 : tk2 = [tk EXCEPT ![p] = q]
    OBVIOUS
  <2>2. Given(tk, p, q, tk2)
    BY <1>1, <2>1, GivenIs
  <2>3. Stands(own2, <<>>, tk2)' /\ tk[p] = <<>>
    BY <1>3, <1>5, <2>2, DetachFifo
  <2>4. Moved(q, tk, <<>>, tk2)
    BY <1>1, <2>1, <2>3 DEF Moved
  <2> QED  BY <1>4, <1>5, <2>3, <2>4, StepMoves
<1>6. CASE Visit(p) \/ VisitTail(p)
  <2>1. PICK t, q2 : Grown(tk[p], q[1], t) /\ Shrunk(q, q2)
    BY DEF Grown, Shrunk
  <2>2. t \in Seq(Entries)
    BY <1>6, <2>1, TakeOne DEF Visit, VisitTail
  <2>3. PICK tk2 : tk2 = [tk EXCEPT ![p] = t]
    OBVIOUS
  <2>4. Given(tk, p, t, tk2)
    BY <1>1, <2>2, <2>3, GivenIs
  <2>5. ASSUME q # <<>> PROVE Moved(q, tk, q2, tk2)
    BY <2>1, <2>2, <2>3, <2>5 DEF Moved
  <2>6. CASE Visit(p)
    <3>1. Stands(own, q2, tk2)' /\ q # <<>>
      BY <2>1, <2>4, <2>6, VisitFifo
    <3>2. Lists(own, ord, n)'
      BY <2>6, VisitStep
    <3> QED  BY <2>5, <3>1, <3>2, StepMoves
  <2>7. CASE VisitTail(p)
    <3>1. Stands(own2, q2, tk2)' /\ q # <<>>
      BY <1>3, <2>1, <2>4, <2>7, VisitTailFifo
    <3> QED  BY <1>4, <2>5, <2>7, <3>1, StepMoves
  <2> QED  BY <1>6, <2>6, <2>7
<1> QED  BY <1>5, <1>6

LEMMA FifoTell ==
    ASSUME NEW own, NEW ord, NEW n, Lists(own, ord, n), NEW q, NEW tk, Stands(own, q, tk),
           NEW p \in Processes, Tell(p)
    PROVE  FifoStep(q, tk)
<1>1. /\ own \in [Entries -> Owners] /\ tk \in [Processes -> Seq(Entries)] /\ Null \in Owners
      /\ cur[p] \in Entries
  BY DEF Lists, Stands, Tell, ListType, Pointers, Owners
<1>2. PICK own2 \in [Entries -> Owners] : \A x \in Entries : own2[x] = IF x = cur[p] THEN Null ELSE own[x]
  <2>1. [own EXCEPT ![cur[p]] = Null] \in [Entries -> Owners]
    BY <1>1
  <2> QED  BY <1>1, <2>1
<1>3. Lists(own2, ord, n)'
  BY <1>2, TellStep
<1>4. PICK t : Cropped(tk[p], t)
  BY DEF Cropped
<1>5. tk[p] # <<>> /\ t \in Seq(Entries)
  <2>1. KnownTaken(own, ord, tk[p], p)
    BY TakenFacts
  <2>2. First(p) # Null
    BY DEF Tell, First
  <2>3. tk[p] # <<>> /\ tk[p] \in Seq(Entries)
    BY <2>1, <2>2 DEF KnownTaken
  <2> QED  BY <1>4, <2>3, CroppedIs
<1>6. PICK tk2 : tk2 = [tk EXCEPT ![p] = t]
  OBVIOUS
<1>7. Given(tk, p, t, tk2)
  BY <1>1, <1>5, <1>6, GivenIs
<1>8. Stands(own2, q, tk2)'
  BY <1>2, <1>4, <1>7, TellFifo
<1>9. Moved(q, tk, q, tk2)
  BY <1>4, <1>5, <1>6 DEF Moved
<1> QED  BY <1>3, <1>8, <1>9, StepMoves

LEMMA FifoRound ==
    ASSUME NEW own, NEW ord, NEW n, Lists(own, ord, n), NEW q, NEW tk, Stands(own, q, tk),
           NEW p \in Processes, Round(p)
    PROVE  FifoStep(q, tk)
<1>1. CASE Visit(p) \/ VisitTail(p) \/ Detach(p)
  BY <1>1, FifoTake
<1>2. CASE Tell(p)
  BY <1>2, FifoTell
<1>3. CASE Scan(p) \/ SetPrev(p)
  <2>1. Lists(own, ord, n)'
    BY <1>3, ScanStep, SetPrevStep
  <2>2. Stands(own, q, tk)'
    BY <1>3, WalkQuiet, WalkEnds
  <2> QED  BY <2>1, <2>2, StepStays
<1>4. CASE Lock(p) \/ Unlock(p) \/ UnlockFailed(p) \/ Add(p) \/ Continue(p) \/ Return(p)
  <2>1. Stands(own, q, tk)'
    BY <1>4, RoundQuiet
  <2>2. Lists(own, ord, n)'
    <3>1. CASE Lock(p)
      <4>1. p \notin Droppers /\ ~DropLock(p)
        BY <3>1, WaitListAssumption DEF Lock, DropLock
      <4> QED  BY <3>1, <4>1, LockStep
    <3>2. CASE Unlock(p) \/ UnlockFailed(p)
      BY <3>2, UnlockStep
    <3>3. CASE Add(p)
      BY <3>3, AddStep
    <3>4. CASE Continue(p)
      BY <3>4, ContinueStep
    <3>5. CASE Return(p)
      BY <3>5, ReturnStep
    <3> QED  BY <1>4, <3>1, <3>2, <3>3, <3>4, <3>5
  <2> QED  BY <2>1, <2>2, StepStays
<1>5. CASE Stop(p) \/ VisitTailFailed(p)
  <2>1. PICK own2 : own2 = [x \in Entries |-> IF own[x] = Queue /\ ord[x] < ord[cur[p]] THEN p ELSE own[x]]
    OBVIOUS
  <2>2. Lists(own2, ord, n)'
    BY <1>5, <2>1, CutStep
  <2>3. Cut(own, ord, own2, p, cur[p])
    BY <2>1 DEF Cut
  <2>4. Stands(own2, q, tk)'
    BY <1>5, <2>3, CutFifo
  <2> QED  BY <2>2, <2>4, StepStays
<1> QED  BY <1>1, <1>2, <1>3, <1>4, <1>5 DEF Round

LEMMA FifoRemoval ==
    ASSUME NEW own, NEW ord, NEW n, Lists(own, ord, n), NEW q, NEW tk, Stands(own, q, tk),
           NEW p \in Droppers, Removal(p)
    PROVE  FifoStep(q, tk)
<1>1. own \in [Entries -> Owners] /\ p \in Processes /\ p \in Entries /\ Null \in Owners
  BY NamesApart DEF Lists, Owners
<1>2. CASE Drop(p) \/ DropEmpty(p) \/ DropLock(p) \/ RemoveSkip(p) \/ RemoveRetry(p) \/ RemoveMissing(p)
  <2>1. Stands(own, q, tk)'
    BY <1>1, <1>2, WalkQuiet
  <2>2. Lists(own, ord, n)'
    BY <1>1, <1>2, DropStep, LockStep, RemoveSkipStep, RemoveRetryStep, RemoveMissingStep
  <2> QED  BY <2>1, <2>2, StepStays
<1>3. CASE Complete(p)
  <2>1. Lists(own, ord, n)' /\ Stands(own, q, tk)'
    BY <1>1, <1>3, CompleteStep, EntryQuiet
  <2> QED  BY <2>1, StepStays
<1>4. CASE RemoveInner(p) \/ RemoveTail(p) \/ RemoveSole(p)
  <2>1. PICK own2 \in [Entries -> Owners] : \A x \in Entries : own2[x] = IF x = p THEN Null ELSE own[x]
    <3>1. [own EXCEPT ![p] = Null] \in [Entries -> Owners]
      BY <1>1
    <3> QED  BY <1>1, <3>1
  <2>2. pc[p] = "remove" /\ cur[p] = p
    BY <1>4, Removing
  <2>3. PICK k \in 1..Len(q) : q[k] = p
    BY <2>2, FoundIn
  <2>4. PICK q2 : Without(q, k, q2)
    BY DEF Without
  <2>5. Lists(own2, ord, n)' /\ Stands(own2, q2, tk)'
    <3>1. CASE RemoveInner(p)
      BY <2>1, <2>3, <2>4, <3>1, RemoveInnerStep, RemoveInnerFifo
    <3>2. CASE RemoveTail(p)
      BY <2>1, <2>3, <2>4, <3>2, RemoveTailStep, RemoveTailFifo
    <3>3. CASE RemoveSole(p)
      BY <2>1, <2>3, <2>4, <3>3, RemoveSoleStep, RemoveSoleFifo
    <3> QED  BY <1>4, <3>1, <3>2, <3>3
  <2>6. Moved(q, tk, q2, tk)
    BY <1>1, <2>3, <2>4 DEF Moved
  <2> QED  BY <2>5, <2>6, StepMoves
<1> QED  BY <1>2, <1>3, <1>4 DEF Removal

(* The sequences are there in every state. *)
FifoInv == \E own, ord, n, q, tk : Lists(own, ord, n) /\ Stands(own, q, tk)

LEMMA FifoInit == Init => FifoInv
<1> SUFFICES ASSUME Init PROVE FifoInv
  OBVIOUS
<1>1. PICK own, ord, n : Lists(own, ord, n) /\ \A x \in Entries : own[x] = Null
  BY ListsInit
<1> DEFINE none == [p \in Processes |-> <<>>]
<1>2. none \in [Processes -> Seq(Entries)] /\ \A p \in Processes : none[p] = <<>>
  OBVIOUS
<1> HIDE DEF none
<1>3. <<>> \in Seq(Entries) /\ Len(<<>>) = 0 /\ 1..0 = {} /\ 1..(0 - 1) = {} /\ Queue # Null
  BY NamesApart
<1>4. Path(<<>>, Null)
  BY <1>3 DEF Path
<1>5. tail = Null /\ holder = Null /\ \A p \in Processes : pc[p] = "idle" /\ First(p) = Null
  BY DEF Init, First
<1>6. QueueIs(own, <<>>)
  BY <1>3, <1>4, <1>5 DEF QueueIs
<1>7. AllIn(own, <<>>, none)
  BY <1>1, <1>3 DEF AllIn
<1>8. \A p \in Processes : TakenIs(own, <<>>, p)
  <2> HIDE DEF First
  <2> QED  BY <1>3, <1>4, <1>5 DEF TakenIs
<1>9. Stands(own, <<>>, none)
  BY <1>2, <1>5, <1>6, <1>7, <1>8 DEF Stands
<1> QED  BY <1>1, <1>9 DEF FifoInv

LEMMA FifoStutter ==
    ASSUME NEW own, NEW ord, NEW n, Lists(own, ord, n), NEW q, NEW tk, Stands(own, q, tk),
           UNCHANGED vars
    PROVE  FifoStep(q, tk)
<1>1. tail' = tail /\ holder' = holder /\ next' = next /\ pc' = pc /\ cur' = cur /\ resolved' = resolved
  BY DEF vars, links, locals
<1>2. \A r \in Processes : First(r)' = First(r)
  BY <1>1 DEF First
<1>3. holder' \in Processes \cup {Null}
  BY <1>1 DEF Stands
<1> HIDE DEF First
<1>4. Stands(own, q, tk)'
  BY <1>1, <1>2, <1>3, StandsStill
<1> QED  BY <1>4, ListsStutter, StepStays

LEMMA FifoSteps ==
    ASSUME NEW own, NEW ord, NEW n, Lists(own, ord, n), NEW q, NEW tk, Stands(own, q, tk),
           [Next]_vars
    PROVE  FifoStep(q, tk)
  BY FifoStutter, FifoEntry, FifoRound, FifoRemoval DEF Next

LEMMA FifoInvariant == Spec => []FifoInv
<1>1. FifoInv /\ [Next]_vars => FifoInv'
  <2> SUFFICES ASSUME FifoInv, [Next]_vars PROVE FifoInv'
    OBVIOUS
  <2>1. PICK own, ord, n, q, tk : Lists(own, ord, n) /\ Stands(own, q, tk)
    BY DEF FifoInv
  <2>2. FifoStep(q, tk)
    BY <2>1, FifoSteps
  <2> QED  BY <2>2 DEF FifoStep, FifoInv
<1> QED  BY <1>1, FifoInit, PTL DEF Spec

LEMMA FifoLists == FifoInv => ListInv
  BY DEF FifoInv, ListInv

(* No walk of the list, and no write through it, reaches an entry that has *)
(* gone out of scope, and a result is stored once, in an entry that waits  *)
(* for it: for every number of entries and processes, with owners that     *)
(* drop their entries at any moment (process_wait_queue,                   *)
(* remove_wait_queue_entry, iter_forward, iter_backward).  Here and below, *)
(* the list is detached only while LOCKED_FLAG is not set, which excludes  *)
(* a barrier's batch that is completed during a drop (barrier.rs:201).     *)
THEOREM WaitListNoDangling == Spec => []NoDangling
  BY FifoInvariant, FifoLists, ListsDangling, PTL

(* The assertions of set_prev_ptr and of process_wait_queue hold: an entry *)
(* knows the right successor or none, and the visited entry that knows     *)
(* none is the tail the processor has read.                                *)
THEOREM WaitListPrevRight == Spec => []PrevRight
  BY FifoInvariant, FifoLists, ListsPrev, PTL

(* What the refinement mapping of module WaitList computes. *)
Mapped == \A own, ord, n, q, tk : Lists(own, ord, n) /\ Stands(own, q, tk) => Waiting = q /\ Taken = tk

LEMMA MappedNow == Mapped
<1> SUFFICES ASSUME NEW own, NEW ord, NEW n, NEW q, NEW tk, Lists(own, ord, n), Stands(own, q, tk)
             PROVE  Waiting = q /\ Taken = tk
  BY DEF Mapped
<1>1. Waiting = q
  BY QueueMap DEF Waiting
<1>2. tk = [p \in Processes |-> tk[p]]
  BY DEF Stands
<1>3. Taken = [p \in Processes |-> Chain(First(p), Null)]
  BY DEF Taken, First
<1>4. \A p \in Processes : Chain(First(p), Null) = tk[p]
  BY TakenMap
<1> HIDE DEF First
<1>5. Taken = [p \in Processes |-> tk[p]]
  BY <1>3, <1>4
<1> QED  BY <1>1, <1>2, <1>5

LEMMA MappedNext == Mapped'
  BY MappedNow, PTL

LEMMA MovedIs ==
    ASSUME NEW q, NEW tk, NEW q2, NEW tk2, Moved(q, tk, q2, tk2), tk \in [Processes -> Seq(Entries)],
           Waiting = q, Taken = tk, Waiting' = q2, Taken' = tk2
    PROVE  Fifo!Next
<1>1. ASSUME NEW e \in Entries, tk2 = tk, e \notin Elements(q), Grown(q, e, q2),
             \A p \in Processes : e \notin Elements(tk[p])
      PROVE  Fifo!Push(e)
  BY <1>1 DEF Grown, Elements, Fifo!Push, Fifo!Members
<1>2. ASSUME NEW k \in 1..Len(q), q[k] \in Entries, tk2 = tk, Without(q, k, q2)
      PROVE  Fifo!Remove(q[k])
  BY <1>2 DEF Without, Fifo!Remove
<1>3. ASSUME NEW p \in Processes, NEW t, tk2 = [tk EXCEPT ![p] = t],
             q # <<>>, Shrunk(q, q2), Grown(tk[p], q[1], t)
      PROVE  Fifo!Take(p)
  BY <1>3 DEF Shrunk, Grown, Fifo!Take
<1>4. ASSUME NEW p \in Processes, NEW t, tk2 = [tk EXCEPT ![p] = t], tk[p] = <<>>, q2 = <<>>, t = q
      PROVE  Fifo!TakeAll(p)
  BY <1>4 DEF Fifo!TakeAll
<1>5. ASSUME NEW p \in Processes, NEW t, tk2 = [tk EXCEPT ![p] = t],
             tk[p] # <<>>, q2 = q, Cropped(tk[p], t)
      PROVE  Fifo!Tell(p)
  BY <1>5 DEF Cropped, Fifo!Tell
<1> QED  BY <1>1, <1>2, <1>3, <1>4, <1>5 DEF Moved, Fifo!Next

(* The pointers of the wait queue implement a first-in, first-out          *)
(* sequence: entries are added at the end, served from the front one at a  *)
(* time or all at once, removed from anywhere, and told their results from *)
(* the newest served on, whoever pushes, drops and serves meanwhile        *)
(* (try_push_wait_queue_entry, process_wait_queue,                         *)
(* remove_wait_queue_entry).                                               *)
THEOREM WaitListIsFifo == Spec => FifoSpec
<1>1. Init => Fifo!Init
  <2> SUFFICES ASSUME Init PROVE Fifo!Init
    OBVIOUS
  <2>1. PICK own, ord, n, q, tk : Lists(own, ord, n) /\ Stands(own, q, tk)
    BY FifoInit DEF FifoInv
  <2>2. Waiting = q /\ Taken = tk
    BY <2>1, MappedNow DEF Mapped
  <2>3. q = <<>>
    BY <2>1 DEF Stands, QueueIs, Path, Init
  <2>4. ASSUME NEW p \in Processes PROVE tk[p] = <<>>
    BY <2>1, NoneTaken DEF Init
  <2>5. tk \in [Processes -> Seq(Entries)]
    BY <2>1 DEF Stands
  <2> QED  BY <2>2, <2>3, <2>4, <2>5 DEF Fifo!Init
<1>2. FifoInv /\ [Next]_vars => [Fifo!Next]_(Fifo!vars)
  <2> SUFFICES ASSUME FifoInv, [Next]_vars PROVE [Fifo!Next]_(Fifo!vars)
    OBVIOUS
  <2>1. PICK own, ord, n, q, tk : Lists(own, ord, n) /\ Stands(own, q, tk)
    BY DEF FifoInv
  <2>2. FifoStep(q, tk)
    BY <2>1, FifoSteps
  <2>3. PICK own2, ord2, n2, q2, tk2 :
             /\ Lists(own2, ord2, n2)' /\ Stands(own2, q2, tk2)'
             /\ (q2 = q /\ tk2 = tk) \/ Moved(q, tk, q2, tk2)
    BY <2>2 DEF FifoStep
  <2>4. Waiting = q /\ Taken = tk
    BY <2>1, MappedNow DEF Mapped
  <2>5. Waiting' = q2 /\ Taken' = tk2
    BY <2>3, MappedNext DEF Mapped
  <2>6. tk \in [Processes -> Seq(Entries)]
    BY <2>1 DEF Stands
  <2>7. CASE q2 = q /\ tk2 = tk
    BY <2>4, <2>5, <2>7 DEF Fifo!vars
  <2>8. CASE Moved(q, tk, q2, tk2)
    BY <2>4, <2>5, <2>6, <2>8, MovedIs
  <2> QED  BY <2>3, <2>7, <2>8
<1> QED  BY <1>1, <1>2, FifoInvariant, PTL DEF Spec, FifoSpec, Fifo!Spec
=============================================================================
