---------------------------- MODULE AnchorLayout ----------------------------
(***************************************************************************)
(* Where a WaitQueue keeps its anchor and its entry                        *)
(* (src/src/wait_queue.rs), as arithmetic on addresses in bytes.           *)
(*                                                                         *)
(* The buffer of a WaitQueue is VIRTUAL_ALIGNMENT bytes long and 8-aligned *)
(* only.  Its anchor is at the one address in it that is a multiple of     *)
(* VIRTUAL_ALIGNMENT, so that the word of a primitive has room for the     *)
(* flag and the count below the address, and holds the complement of its   *)
(* offset; the entry is in the half of the buffer the anchor is not in.    *)
(***************************************************************************)
EXTENDS Integers

CONSTANTS ENTRY_SIZE,    \* size_of::<Entry>()
          U64_MAX        \* u64::MAX

VIRTUAL_ALIGNMENT == 128

(* The static assertion on the size of an entry. *)
ASSUME LayoutAssumption ==
    /\ ENTRY_SIZE \in Nat /\ ENTRY_SIZE <= VIRTUAL_ALIGNMENT \div 2
    /\ U64_MAX \in Nat /\ U64_MAX > VIRTUAL_ALIGNMENT

Half == VIRTUAL_ALIGNMENT \div 2
LOCKED_FLAG == Half

(* Where a WaitQueue may be: 8-aligned, and not at null. *)
Addresses == {a \in Nat : a > 0 /\ a % 8 = 0}

(* Mutant: a perfectly aligned buffer is rounded up like any other. *)
anchor_offset_rounded(start) == VIRTUAL_ALIGNMENT - (start % VIRTUAL_ALIGNMENT)

(* anchor_ptr: round up to the next multiple. *)
anchor_offset(start) ==
    IF start % VIRTUAL_ALIGNMENT = 0 THEN 0
    ELSE VIRTUAL_ALIGNMENT - (start % VIRTUAL_ALIGNMENT)

anchor_ptr(start) == start + anchor_offset(start)

(* construct: 0 stands for "no entry", so the complement is stored. *)
anchor_val(start) == U64_MAX - anchor_offset(start)

(* to_entry_ptr *)
to_entry_ptr(anchor, val) ==
    LET offset == U64_MAX - val
        start  == anchor - offset
    IN  IF offset < Half THEN start + Half ELSE start

(* entry() of a WaitQueue, and Entry::offset as construct computes it. *)
entry_ptr(start) == to_entry_ptr(anchor_ptr(start), anchor_val(start))
entry_offset(start) == entry_ptr(start) - start

to_wait_queue_ptr(entry, offset) == entry - offset

(* to_anchor_ptr: state & ADDR_MASK *)
to_anchor_ptr(word) == word - (word % VIRTUAL_ALIGNMENT)

-----------------------------------------------------------------------------
(* A buffer at `start` holds both without overlap, the entry is found from *)
(* the anchor, and the buffer from the entry.                              *)
AnchorInside(start) ==
    /\ anchor_ptr(start) % VIRTUAL_ALIGNMENT = 0
    /\ start <= anchor_ptr(start) /\ anchor_ptr(start) + 8 <= start + VIRTUAL_ALIGNMENT

EntryInside(start) ==
    /\ entry_ptr(start) % 8 = 0
    /\ start <= entry_ptr(start) /\ entry_ptr(start) + ENTRY_SIZE <= start + VIRTUAL_ALIGNMENT
    /\ \/ anchor_ptr(start) + 8 <= entry_ptr(start)
       \/ entry_ptr(start) + ENTRY_SIZE <= anchor_ptr(start)

Decodable(start) ==
    /\ anchor_val(start) \in 1..U64_MAX
    /\ to_wait_queue_ptr(entry_ptr(start), entry_offset(start)) = start

(* The flag and the count in the low bits do not hide the anchor. *)
WordDecodes(start) ==
    \A low \in 0..(VIRTUAL_ALIGNMENT - 1) : to_anchor_ptr(anchor_ptr(start) + low) = anchor_ptr(start)

LayoutSound(start) == AnchorInside(start) /\ EntryInside(start) /\ Decodable(start)
=============================================================================
