------------------------------ MODULE WaitList ------------------------------
(***************************************************************************)
(* The intrusive list of wait queue entries (src/src/wait_queue.rs), at    *)
(* the level of its pointers, under process_wait_queue,                    *)
(* remove_wait_queue_entry and the operations that detach the whole list.  *)
(*                                                                         *)
(* `tail` is the address in the state word.  next[e] points to the entry   *)
(* pushed before e; prev[e], to the one pushed after it, is filled in by   *)
(* whoever walks the list under LOCKED_FLAG.  The counts are left out: an  *)
(* entry may always be found eligible or not, and a CAS that finds the     *)
(* tail it expects may still fail because the count has changed.  Entries  *)
(* stand for their addresses; Start says where each is pinned, and         *)
(* AnchorLayout how its address is put into the word and found again.      *)
(*                                                                         *)
(* Labels of a process:                                                    *)
(*   idle          not in these functions                                  *)
(*   scan          iter_forward with set_prev, looking for the head        *)
(*   setprev       set_prev_ptr                                            *)
(*   visit         iter_backward                                           *)
(*   unlock, add   after a round: fetch_update, fetch_add                  *)
(*   tell_more, tell_done   iter_forward, storing results                  *)
(*   drop, remove, complete the drop of an entry, by its owner             *)
(***************************************************************************)
EXTENDS AnchorLayout, Sequences, FiniteSets

CONSTANTS Entries, Workers,
          Droppers,    \* entries that may be dropped while they wait
          Start,       \* where each entry's WaitQueue is pinned
          Null

ASSUME WaitListAssumption == /\ Null \notin Entries \cup Workers
                             /\ Droppers \subseteq Entries /\ IsFiniteSet(Entries)
                             /\ Entries \cap Workers = {}
                             /\ Start \in [Entries -> Addresses]
                             /\ \A e, f \in Entries : e # f =>
                                    \/ Start[e] + VIRTUAL_ALIGNMENT <= Start[f]
                                    \/ Start[f] + VIRTUAL_ALIGNMENT <= Start[e]

VARIABLES
    tail,           \* the address bits of the state word
    holder,         \* who has set LOCKED_FLAG
    next, prev,     \* per entry: next_entry_anchor_ptr, prev_entry_ptr
    status,         \* per entry: out of scope, waiting, or told its result
    pc,             \* per process: location
    cur,            \* per process: entry_ptr of the iteration
    head,           \* per process: head_entry_ptr
    last,           \* per process: the tail in its local `state`
    resolved,       \* per process: resolved_entry_ptr
    missing         \* per process: remove_wait_queue_entry did not find the entry

links  == <<next, prev>>
locals == <<cur, head, last, resolved, missing>>
vars   == <<tail, holder, links, status, pc, locals>>

Processes == Workers \cup Droppers
Pointers  == Entries \cup {Null}

Set(f, p, x) == [f EXCEPT ![p] = x]
Goto(p, label) == pc' = Set(pc, p, label)

Init ==
    /\ tail = Null /\ holder = Null
    /\ next = [e \in Entries |-> Null] /\ prev = [e \in Entries |-> Null]
    /\ status = [e \in Entries |-> "out"]
    /\ pc = [p \in Processes |-> "idle"]
    /\ cur = [p \in Processes |-> Null] /\ head = [p \in Processes |-> Null]
    /\ last = [p \in Processes |-> Null] /\ resolved = [p \in Processes |-> Null]
    /\ missing = [p \in Processes |-> FALSE]

-----------------------------------------------------------------------------
(* try_push_wait_queue_entry: the pointers are private until the CAS. *)
Push(e) ==
    /\ status[e] = "out"
    /\ next' = Set(next, e, tail) /\ prev' = Set(prev, e, Null)
    /\ tail' = e
    /\ status' = Set(status, e, "in")
    /\ UNCHANGED <<holder, pc, locals>>

(* The owner has its result: the entry goes out of scope or is used again. *)
Leave(e) ==
    /\ status[e] = "done" /\ (e \in Droppers => pc[e] = "idle")
    /\ status' = Set(status, e, "out")
    /\ next' = Set(next, e, Null) /\ prev' = Set(prev, e, Null)
    /\ UNCHANGED <<tail, holder, pc, locals>>

(* process_wait_queue, entered with LOCKED_FLAG just set by release_loop. *)
Lock(p) ==
    /\ p \in Workers /\ pc[p] = "idle" /\ holder = Null /\ tail # Null
    /\ holder' = p
    /\ last' = Set(last, p, tail) /\ cur' = Set(cur, p, tail)
    /\ Goto(p, "scan")
    /\ UNCHANGED <<tail, links, status, head, resolved, missing>>

(* The list is detached while nobody has LOCKED_FLAG: poison_lock waits    *)
(* for that, and in a gate nobody takes it.  Barrier::count_down does not  *)
(* look at the flag (barrier.rs:201, 217): a batch that is completed while *)
(* an entry is being dropped is not a behaviour of this module.            *)
Detach(p) ==
    /\ p \in Workers /\ pc[p] = "idle" /\ holder = Null /\ tail # Null
    /\ tail' = Null
    /\ cur' = Set(cur, p, tail)
    /\ Goto(p, "tell_done")
    /\ UNCHANGED <<holder, links, status, head, last, resolved, missing>>

(* iter_forward with set_prev: the last entry found is the head. *)
Scan(p) ==
    /\ pc[p] = "scan"
    /\ LET e == cur[p]  n == next[e] IN
       /\ prev' = IF n = Null THEN prev ELSE Set(prev, n, e)
       /\ head' = Set(head, p, e)
       /\ cur' = Set(cur, p, IF n = Null THEN e ELSE n)
       /\ IF n = Null THEN Goto(p, "visit") ELSE UNCHANGED pc
    /\ UNCHANGED <<tail, holder, next, status, last, resolved, missing>>

(* Mutant: prev pointers are not filled in for the entries pushed since. *)
SetPrevSkipped(p) ==
    /\ pc[p] = "setprev"
    /\ cur' = Set(cur, p, head[p]) /\ Goto(p, "visit")
    /\ UNCHANGED <<tail, holder, links, status, head, last, resolved, missing>>

(* set_prev_ptr: stops at the first entry that knows its successor. *)
SetPrev(p) ==
    /\ pc[p] = "setprev"
    /\ LET e == cur[p]  n == next[e] IN
       IF n # Null /\ prev[n] = Null
       THEN prev' = Set(prev, n, e) /\ cur' = Set(cur, p, n) /\ UNCHANGED pc
       ELSE UNCHANGED prev /\ cur' = Set(cur, p, head[p]) /\ Goto(p, "visit")
    /\ UNCHANGED <<tail, holder, next, status, head, last, resolved, missing>>

(* iter_backward.  The visited entry inherits and is not the tail. *)
Visit(p) ==
    /\ pc[p] = "visit" /\ prev[cur[p]] # Null
    /\ resolved' = Set(resolved, p, cur[p])
    /\ cur' = Set(cur, p, prev[cur[p]])
    /\ UNCHANGED <<tail, holder, links, status, pc, head, last, missing>>

(* The tail inherits: the CAS that empties the queue. *)
VisitTail(p) ==
    /\ pc[p] = "visit" /\ prev[cur[p]] = Null /\ tail = last[p]
    /\ tail' = Null /\ holder' = Null
    /\ head' = Set(head, p, Null) /\ last' = Set(last, p, Null)
    /\ resolved' = Set(resolved, p, Null)
    /\ Goto(p, "tell_done")
    /\ UNCHANGED <<links, status, cur, missing>>

(* Mutant: the entry left for the next round keeps its link to those that  *)
(* were served.                                                            *)
VisitTailFailedUncut(p) ==
    /\ pc[p] = "visit" /\ prev[cur[p]] = Null
    /\ head' = Set(head, p, cur[p])
    /\ Goto(p, "add")
    /\ UNCHANGED <<tail, holder, links, status, cur, last, resolved, missing>>

(* That CAS fails: cut the list here and go on from this entry. *)
VisitTailFailed(p) ==
    /\ pc[p] = "visit" /\ prev[cur[p]] = Null
    /\ next' = Set(next, cur[p], Null)
    /\ head' = Set(head, p, cur[p])
    /\ Goto(p, "add")
    /\ UNCHANGED <<tail, holder, prev, status, cur, last, resolved, missing>>

(* The visited entry must wait: cut the list here. *)
Stop(p) ==
    /\ pc[p] = "visit"
    /\ next' = Set(next, cur[p], Null)
    /\ head' = Set(head, p, cur[p])
    /\ Goto(p, "unlock")
    /\ UNCHANGED <<tail, holder, prev, status, cur, last, resolved, missing>>

Unlock(p) ==
    /\ pc[p] = "unlock"
    /\ holder' = Null
    /\ head' = Set(head, p, Null) /\ last' = Set(last, p, Null)
    /\ cur' = Set(cur, p, resolved[p]) /\ resolved' = Set(resolved, p, Null)
    /\ Goto(p, "tell_done")
    /\ UNCHANGED <<tail, links, status, missing>>

UnlockFailed(p) ==
    /\ pc[p] = "unlock"
    /\ Goto(p, "add")
    /\ UNCHANGED <<tail, holder, links, status, locals>>

Add(p) ==
    /\ pc[p] = "add"
    /\ last' = Set(last, p, tail)
    /\ cur' = Set(cur, p, resolved[p]) /\ resolved' = Set(resolved, p, Null)
    /\ Goto(p, "tell_more")
    /\ UNCHANGED <<tail, holder, links, status, head, missing>>

(* iter_forward: the link is read before the entry is told its result. *)
Tell(p) ==
    /\ pc[p] \in {"tell_more", "tell_done"} /\ cur[p] # Null
    /\ status' = Set(status, cur[p], "done")
    /\ cur' = Set(cur, p, next[cur[p]])
    /\ UNCHANGED <<tail, holder, links, pc, head, last, resolved, missing>>

(* Another round keeps the head. *)
Continue(p) ==
    /\ pc[p] = "tell_more" /\ cur[p] = Null
    /\ cur' = Set(cur, p, last[p])
    /\ Goto(p, "setprev")
    /\ UNCHANGED <<tail, holder, links, status, head, last, resolved, missing>>

(* Back to the caller; a dropping owner leaves, or waits for its result. *)
Exit(e) ==
    /\ status' = Set(status, e, "out")
    /\ next' = Set(next, e, Null) /\ prev' = Set(prev, e, Null)

Return(p) ==
    /\ pc[p] = "tell_done" /\ cur[p] = Null
    /\ Goto(p, IF missing[p] THEN "complete" ELSE "idle")
    /\ missing' = Set(missing, p, FALSE)
    /\ IF p \in Droppers /\ ~missing[p] THEN Exit(p) ELSE UNCHANGED <<links, status>>
    /\ UNCHANGED <<tail, holder, cur, head, last, resolved>>

-----------------------------------------------------------------------------
(* force_remove_wait_queue_entry, run by the owner of entry e. *)
Drop(e) ==
    /\ pc[e] = "idle" /\ status[e] \in {"in", "done"}
    /\ Goto(e, "drop")
    /\ UNCHANGED <<tail, holder, links, status, locals>>

DropEmpty(e) ==
    /\ pc[e] = "drop" /\ holder = Null /\ tail = Null
    /\ Goto(e, "complete")
    /\ UNCHANGED <<tail, holder, links, status, locals>>

DropLock(e) ==
    /\ pc[e] = "drop" /\ holder = Null /\ tail # Null
    /\ holder' = e
    /\ last' = Set(last, e, tail) /\ cur' = Set(cur, e, tail)
    /\ Goto(e, "remove")
    /\ UNCHANGED <<tail, links, status, head, resolved, missing>>

(* remove_wait_queue_entry: iter_forward with set_prev.  SetNext is what   *)
(* each step of it does before its closure runs.                           *)
SetNext(n, e) == IF n = Null THEN prev ELSE Set(prev, n, e)

RemoveSkip(e) ==
    /\ pc[e] = "remove" /\ cur[e] # Null /\ cur[e] # e
    /\ prev' = SetNext(next[cur[e]], cur[e])
    /\ cur' = Set(cur, e, next[cur[e]])
    /\ UNCHANGED <<tail, holder, next, status, pc, head, last, resolved, missing>>

(* Process the queue from the tail in `state`, the head being unknown. *)
Process(e, t) == cur' = Set(cur, e, t) /\ last' = Set(last, e, t) /\ Goto(e, "scan")

(* A newer entry is known: link the two neighbours. *)
RemoveInner(e) ==
    /\ pc[e] = "remove" /\ cur[e] = e /\ prev[e] # Null
    /\ prev' = SetNext(next[e], prev[e])
    /\ next' = Set(next, prev[e], next[e])
    /\ Process(e, last[e])
    /\ UNCHANGED <<tail, holder, status, head, resolved, missing>>

(* Mutant: the new tail goes on pointing back to the entry. *)
RemoveTailOneWay(e) ==
    /\ pc[e] = "remove" /\ cur[e] = e /\ prev[e] = Null /\ next[e] # Null /\ tail = last[e]
    /\ prev' = Set(prev, next[e], e)
    /\ tail' = next[e]
    /\ Process(e, next[e])
    /\ UNCHANGED <<holder, next, status, head, resolved, missing>>

(* The entry is the tail: the next older one becomes the tail. *)
RemoveTail(e) ==
    /\ pc[e] = "remove" /\ cur[e] = e /\ prev[e] = Null /\ next[e] # Null /\ tail = last[e]
    /\ prev' = Set(prev, next[e], Null)
    /\ tail' = next[e]
    /\ Process(e, next[e])
    /\ UNCHANGED <<holder, next, status, head, resolved, missing>>

(* The entry is alone: reset the queue and unlock. *)
RemoveSole(e) ==
    /\ pc[e] = "remove" /\ cur[e] = e /\ prev[e] = Null /\ next[e] = Null /\ tail = last[e]
    /\ tail' = Null /\ holder' = Null
    /\ cur' = Set(cur, e, Null) /\ last' = Set(last, e, Null)
    /\ Goto(e, "idle")
    /\ Exit(e)
    /\ UNCHANGED <<head, resolved, missing>>

(* Either CAS fails: start over from the tail found. *)
RemoveRetry(e) ==
    /\ pc[e] = "remove" /\ cur[e] = e /\ prev[e] = Null
    /\ prev' = SetNext(next[e], Null)
    /\ last' = Set(last, e, tail) /\ cur' = Set(cur, e, tail)
    /\ UNCHANGED <<tail, holder, next, status, pc, head, resolved, missing>>

(* The walk ends without meeting the entry. *)
RemoveMissing(e) ==
    /\ pc[e] = "remove" /\ cur[e] = Null
    /\ missing' = Set(missing, e, TRUE)
    /\ Process(e, last[e])
    /\ UNCHANGED <<tail, holder, links, status, head, resolved>>

Complete(e) ==
    /\ pc[e] = "complete" /\ status[e] = "done"
    /\ Goto(e, "idle")
    /\ Exit(e)
    /\ UNCHANGED <<tail, holder, locals>>

-----------------------------------------------------------------------------
Round(p) == \/ Lock(p) \/ Detach(p) \/ Scan(p) \/ SetPrev(p) \/ Visit(p) \/ VisitTail(p)
            \/ VisitTailFailed(p) \/ Stop(p) \/ Unlock(p) \/ UnlockFailed(p)
            \/ Add(p) \/ Tell(p) \/ Continue(p) \/ Return(p)

Removal(e) == \/ Drop(e) \/ DropEmpty(e) \/ DropLock(e) \/ RemoveSkip(e) \/ RemoveInner(e)
              \/ RemoveTail(e) \/ RemoveSole(e) \/ RemoveRetry(e)
              \/ RemoveMissing(e) \/ Complete(e)

Next == \/ \E e \in Entries : Push(e) \/ Leave(e)
        \/ \E p \in Processes : Round(p)
        \/ \E e \in Droppers : Removal(e)

Spec == Init /\ [][Next]_vars

-----------------------------------------------------------------------------
Alive(e) == status[e] # "out"

(* No pointer is followed, and no pointer is written, into an entry that   *)
(* went out of scope: neither by the walk itself nor through the links of  *)
(* the entry it has reached.  A result is stored in an entry that waits    *)
(* for it, once (wait_queue.rs:441).                                       *)
NoDangling ==
    \A p \in Processes :
        LET e == cur[p] IN
        /\ pc[p] \notin {"idle", "complete", "drop"} /\ e # Null =>
               /\ Alive(e)
               /\ next[e] # Null => Alive(next[e])
        /\ pc[p] = "visit" => e # Null /\ (prev[e] # Null => Alive(prev[e]))
        /\ pc[p] = "remove" /\ e = p /\ prev[e] # Null => Alive(prev[e])
        /\ pc[p] \in {"tell_more", "tell_done"} /\ e # Null => status[e] = "in"

(* The assertions of set_prev_ptr (wait_queue.rs:381) and of               *)
(* process_wait_queue (sync_primitive.rs:157): an entry that knows a       *)
(* successor knows the right one, and one that knows none is the tail.     *)
PrevRight ==
    \A p \in Processes :
        LET e == cur[p] IN
        /\ pc[p] = "setprev" /\ next[e] # Null => prev[next[e]] \in {Null, e}
        /\ pc[p] = "visit" /\ prev[e] = Null => e = last[p]
        /\ pc[p] = "visit" /\ prev[e] # Null => next[prev[e]] = e

(* The word is its address part plus the flag, the count being 0. *)
Address == IF tail = Null THEN 0 ELSE anchor_ptr(Start[tail])
Word    == Address + (IF holder = Null THEN 0 ELSE LOCKED_FLAG)

(* The word leads to the tail and to no other live entry, and each entry   *)
(* is where its anchor says, inside its buffer and clear of the anchor     *)
(* (anchor_ptr, to_entry_ptr and to_anchor_ptr, wait_queue.rs:188-256).    *)
TailFound ==
    /\ \A e \in Entries : Alive(e) => LayoutSound(Start[e])
    /\ \A e \in Entries : Alive(e) => (to_anchor_ptr(Word) = anchor_ptr(Start[e]) <=> e = tail)

-----------------------------------------------------------------------------
(* The entries reached from x by next, before `stop`, oldest first. *)
Chain(x, stop) ==
    LET size == Cardinality(Entries) + 1
        at[n \in 0..size] == IF n = 0 THEN x
                             ELSE LET e == at[n - 1] IN IF e \in {Null, stop} THEN Null ELSE next[e]
        length == Cardinality({n \in 0..size : at[n] \notin {Null, stop}})
    IN  [i \in 1..length |-> at[length - i]]

(* What the holder of the flag has served in this round is off the queue. *)
Served == IF holder = Null THEN Null ELSE resolved[holder]

Waiting == Chain(tail, Served)
Taken   == [p \in Processes |->
               Chain(IF pc[p] \in {"tell_more", "tell_done"} THEN cur[p] ELSE resolved[p], Null)]

Fifo == INSTANCE FifoQueue WITH queue <- Waiting, taken <- Taken

(* The pointers implement a first-in, first-out sequence. *)
FifoSpec == Fifo!Spec
=============================================================================
