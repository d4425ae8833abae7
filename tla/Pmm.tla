-------------------------------- MODULE Pmm ---------------------------------
(***************************************************************************)
(* The physical memory manager, src/kernel/mm/pmm.c: a bitmap with one bit *)
(* per 4 KB page frame, and a counter of the bits that are set.            *)
(*                                                                         *)
(* The bitmap is an array of bytes, and a byte is the set of its bits that *)
(* are 1, so that "|= 1 << b", "&= ~(1 << b)" and ">> b & 1" are union,    *)
(* difference and membership.  The callers (proc_create, vmm_map) appear   *)
(* only through the addresses they believe they hold: like those two       *)
(* functions, they take the address 0 for a failed call.                   *)
(***************************************************************************)
EXTENDS Integers, FiniteSets, FiniteSetsExt

CONSTANTS TotalPages,   \* pmm_state.total_pages, total_memory / PAGE_SIZE
          Callers,      \* the code that calls pmm_alloc and pmm_free
          CounterMod,   \* 2^32 in the code: allocated_pages is a uint32_t
          StrayAddrs    \* addresses nobody was given, tried on pmm_free

PAGE_SIZE == 4096

(* total_memory is a uint32_t, so there are far fewer than 2^32 pages. *)
ASSUME PmmAssumption ==
    /\ TotalPages \in Nat \ {0}
    /\ CounterMod \in Nat /\ TotalPages < CounterMod
    /\ StrayAddrs \subseteq Nat

VARIABLES bitmap,            \* pmm_state.bitmap
          allocated_pages,   \* pmm_state.allocated_pages
          held               \* held[c]: the addresses caller c holds

vars == <<bitmap, allocated_pages, held>>

bitmap_size == (TotalPages + 7) \div 8
Pages       == 0 .. TotalPages - 1
Bits        == 0 .. 7
NO_PAGE     == -1            \* 0xFFFFFFFF, "No free pages"
Addrs       == {p * PAGE_SIZE : p \in Pages}
-----------------------------------------------------------------------------
(* Mutant: a typo in the bit index, two pages of a byte share a bit. *)
bitmap_set_bit_mod7(bit) ==
    [bitmap EXCEPT ![bit \div 8] = @ \cup {bit % 7}]

bitmap_set_bit(bit) ==
    [bitmap EXCEPT ![bit \div 8] = @ \cup {bit % 8}]

bitmap_clear_bit(bit) ==
    [bitmap EXCEPT ![bit \div 8] = @ \ {bit % 8}]

bitmap_test_bit(bit) == bit % 8 \in bitmap[bit \div 8]

FreePages == {p \in Pages : ~bitmap_test_bit(p)}
AllocatedPages == Pages \ FreePages

(* The scan stops at the first clear bit. *)
find_free_page ==
    IF FreePages = {} THEN NO_PAGE ELSE Min(FreePages)

pmm_get_allocated == allocated_pages
pmm_get_total     == TotalPages
pmm_get_free      == TotalPages - allocated_pages
-----------------------------------------------------------------------------
(* pmm_init: every byte of the bitmap is cleared. *)
Init ==
    /\ bitmap = [i \in 0 .. bitmap_size - 1 |-> {}]
    /\ allocated_pages = 0
    /\ held = [c \in Callers |-> {}]

(* The return value of pmm_alloc in this state. *)
AllocResult ==
    IF find_free_page = NO_PAGE THEN 0 ELSE find_free_page * PAGE_SIZE

(* With no free page the call returns 0 and changes nothing. *)
pmm_alloc(c) ==
    \/ /\ find_free_page # NO_PAGE
       /\ bitmap' = bitmap_set_bit(find_free_page)
       /\ allocated_pages' = (allocated_pages + 1) % CounterMod
       /\ held' = [held EXCEPT ![c] = @ \cup ({AllocResult} \ {0})]
    \/ /\ find_free_page = NO_PAGE
       /\ UNCHANGED vars

(* Mutant: off by one, the last page is taken for an invalid index. *)
FreeAccepts_short(addr) ==
    /\ addr % PAGE_SIZE = 0
    /\ addr \div PAGE_SIZE < TotalPages - 1
    /\ bitmap_test_bit(addr \div PAGE_SIZE)

(* The three checks of pmm_free. *)
FreeAccepts(addr) ==
    /\ addr % PAGE_SIZE = 0
    /\ addr \div PAGE_SIZE < TotalPages
    /\ bitmap_test_bit(addr \div PAGE_SIZE)

(* Mutant: the counter is not decremented. *)
pmm_free_uncounted(c, addr) ==
    /\ \A d \in Callers \ {c} : addr \notin held[d]
    /\ held' = [held EXCEPT ![c] = @ \ {addr}]
    /\ bitmap' = IF FreeAccepts(addr)
                 THEN bitmap_clear_bit(addr \div PAGE_SIZE) ELSE bitmap
    /\ UNCHANGED allocated_pages

(* Callers respect each other's frames; they may pass any other address,   *)
(* and forget an address they passed whatever pmm_free returned.           *)
pmm_free(c, addr) ==
    /\ \A d \in Callers \ {c} : addr \notin held[d]
    /\ held' = [held EXCEPT ![c] = @ \ {addr}]
    /\ \/ /\ FreeAccepts(addr)
          /\ bitmap' = bitmap_clear_bit(addr \div PAGE_SIZE)
          /\ allocated_pages' = (allocated_pages - 1) % CounterMod
       \/ /\ ~FreeAccepts(addr)
          /\ UNCHANGED <<bitmap, allocated_pages>>

Next ==
    \E c \in Callers :
        \/ pmm_alloc(c)
        \/ \E addr \in Addrs \cup StrayAddrs : pmm_free(c, addr)

Spec == Init /\ [][Next]_vars
-----------------------------------------------------------------------------
(* The types of pmm_state, and the counter never leaves 0 .. total_pages   *)
(* (an underflow of the uint32_t would).                                   *)
TypeOK ==
    /\ bitmap \in [0 .. bitmap_size - 1 -> SUBSET Bits]
    /\ allocated_pages \in 0 .. TotalPages
    /\ held \in [Callers -> SUBSET (Addrs \ {0})]

(* The two figures that pmm_get_allocated and pmm_get_free report are the  *)
(* numbers of set and of clear bits, after any sequence of allocations,    *)
(* frees, and frees of addresses that were never given out.                *)
CountersExact ==
    /\ pmm_get_allocated = Cardinality(AllocatedPages)
    /\ pmm_get_free = Cardinality(FreePages)

(* A frame that a caller holds is marked in the bitmap and held by no      *)
(* other caller: find_free_page never hands it out again.                  *)
ExclusiveFrames ==
    \A c \in Callers : \A a \in held[c] :
        /\ a \div PAGE_SIZE \in AllocatedPages
        /\ \A d \in Callers \ {c} : a \notin held[d]

(* No frame is lost but one: a marked page is held by a caller, except     *)
(* page 0, whose address every caller takes for "out of memory".           *)
OnlyPageZeroLeaks ==
    \A p \in AllocatedPages \ {0} : \E c \in Callers : p * PAGE_SIZE \in held[c]

(* The bits of the last byte beyond the last page are never set: rounding  *)
(* the bitmap size up creates no page.                                     *)
PaddingClear ==
    \A i \in 0 .. bitmap_size - 1 : \A b \in bitmap[i] : i * 8 + b < TotalPages

(* The bitmap allocator implements the allocator its callers rely on.      *)
Abstract == INSTANCE FrameAllocator
                WITH Frames <- Addrs \ {0}, granted <- held
FrameAllocatorSpec == Abstract!Spec
=============================================================================
