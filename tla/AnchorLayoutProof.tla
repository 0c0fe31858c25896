-------------------------- MODULE AnchorLayoutProof --------------------------
(***************************************************************************)
(* The layout of a WaitQueue is sound at every 8-aligned address.          *)
(***************************************************************************)
EXTENDS AnchorLayout, TLAPS

(* The anchor is 8-aligned bytes behind the start, less than the alignment *)
(* (the assertions of anchor_ptr, wait_queue.rs:247-249).                  *)
LEMMA OffsetRange ==
    ASSUME NEW start \in Addresses
    PROVE  /\ anchor_offset(start) \in Nat
           /\ anchor_offset(start) + 8 <= VIRTUAL_ALIGNMENT
           /\ anchor_offset(start) % 8 = 0
           /\ (start + anchor_offset(start)) % VIRTUAL_ALIGNMENT = 0
  BY SMT DEF Addresses, anchor_offset, VIRTUAL_ALIGNMENT

(* What to_entry_ptr makes of the complement is the offset itself. *)
LEMMA EntryAddress ==
    ASSUME NEW start \in Addresses
    PROVE  entry_ptr(start) = IF anchor_offset(start) < 64 THEN start + 64 ELSE start
<1>1. start \in Nat
  BY DEF Addresses
<1>2. anchor_offset(start) \in Nat
  BY OffsetRange
<1>3. U64_MAX - anchor_val(start) = anchor_offset(start)
  BY <1>2, LayoutAssumption DEF anchor_val
<1>4. anchor_ptr(start) - anchor_offset(start) = start
  BY <1>1, <1>2 DEF anchor_ptr
<1>5. Half = 64
  BY SMT DEF Half, VIRTUAL_ALIGNMENT
<1> QED  BY <1>3, <1>4, <1>5 DEF entry_ptr, to_entry_ptr

LEMMA AnchorIsInside ==
    ASSUME NEW start \in Addresses PROVE AnchorInside(start)
<1>1. start \in Nat
  BY DEF Addresses
<1> QED  BY <1>1, OffsetRange DEF AnchorInside, anchor_ptr, VIRTUAL_ALIGNMENT

LEMMA EntryIsInside ==
    ASSUME NEW start \in Addresses PROVE EntryInside(start)
<1>1. start \in Nat /\ start % 8 = 0
  BY DEF Addresses
<1>2. ENTRY_SIZE \in Nat /\ ENTRY_SIZE <= 64
  BY LayoutAssumption DEF VIRTUAL_ALIGNMENT
<1>3. CASE anchor_offset(start) < 64
  <2>1. entry_ptr(start) = start + 64
    BY <1>3, EntryAddress
  <2>2. anchor_offset(start) + 8 <= 64
    BY <1>3, OffsetRange, SMT
  <2> QED  BY <1>1, <1>2, <2>1, <2>2, OffsetRange DEF EntryInside, anchor_ptr, VIRTUAL_ALIGNMENT
<1>4. CASE ~(anchor_offset(start) < 64)
  <2>1. entry_ptr(start) = start
    BY <1>4, EntryAddress
  <2> QED  BY <1>1, <1>2, <1>4, <2>1, OffsetRange DEF EntryInside, anchor_ptr, VIRTUAL_ALIGNMENT
<1> QED  BY <1>3, <1>4

LEMMA IsDecodable ==
    ASSUME NEW start \in Addresses PROVE Decodable(start)
<1>1. start \in Nat
  BY DEF Addresses
<1>2. anchor_val(start) \in 1..U64_MAX
  BY OffsetRange, LayoutAssumption DEF anchor_val, VIRTUAL_ALIGNMENT
<1>3. entry_ptr(start) \in Int
  BY <1>1, EntryAddress
<1>4. to_wait_queue_ptr(entry_ptr(start), entry_offset(start)) = start
  BY <1>1, <1>3 DEF to_wait_queue_ptr, entry_offset
<1> QED  BY <1>2, <1>4 DEF Decodable

(* Wherever a WaitQueue is pinned, its anchor and its entry fit into it    *)
(* without overlap, and anchor, entry and queue lead to each other         *)
(* (anchor_ptr, to_entry_ptr, to_wait_queue_ptr).                          *)
THEOREM LayoutSoundEverywhere == \A start \in Addresses : LayoutSound(start)
  BY AnchorIsInside, EntryIsInside, IsDecodable DEF LayoutSound

(* Whatever flag and count a word carries besides the address of an        *)
(* anchor, to_anchor_ptr finds the anchor.                                 *)
THEOREM WordLeadsToAnchor == \A start \in Addresses : WordDecodes(start)
<1> SUFFICES ASSUME NEW start \in Addresses, NEW low \in 0..(VIRTUAL_ALIGNMENT - 1)
             PROVE  to_anchor_ptr(anchor_ptr(start) + low) = anchor_ptr(start)
  BY DEF WordDecodes
<1>1. start \in Nat
  BY DEF Addresses
<1>2. anchor_ptr(start) \in Nat /\ anchor_ptr(start) % VIRTUAL_ALIGNMENT = 0
  BY <1>1, OffsetRange DEF anchor_ptr
<1> QED  BY <1>2, SMT DEF to_anchor_ptr, VIRTUAL_ALIGNMENT
=============================================================================
