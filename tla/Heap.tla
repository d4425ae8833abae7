-------------------------------- MODULE Heap --------------------------------
(***************************************************************************)
(* The kernel heap, src/kernel/mm/heap.c: blocks laid end to end from the  *)
(* start of the heap, each behind a header, searched first-fit.            *)
(*                                                                         *)
(* A position in the heap is its offset from heap_state.start.  Headers    *)
(* are what the heap itself writes: heads is the set of offsets where a    *)
(* header with its magic number stands, hsize and hused are the fields of  *)
(* those headers.  kmalloc is a step for the call, one for each turn of    *)
(* its search loop and one for the block it appends; nothing else touches  *)
(* the heap meanwhile, because no interrupt handler allocates.  Callers    *)
(* write inside what they were given and appear as the set live; they free *)
(* what is theirs, or again what was freed and not given out since, or a   *)
(* pointer that kmalloc never returned.                                    *)
(***************************************************************************)
EXTENDS Integers, FiniteSets

CONSTANTS HeapSize,         \* heap_state.size
          HEADER_SIZE,      \* sizeof(alloc_header_t), 12 on this machine
          MIN_ALLOC_SIZE,   \* 32
          SizeMod,          \* 2^32: size_t and uint32_t wrap there
          Requests,         \* the sizes callers ask for, any size_t
          StrayPtrs         \* pointers kmalloc never returned, tried on kfree

ASSUME HeapAssumption ==
    /\ HeapSize \in Nat /\ HEADER_SIZE \in Nat \ {0} /\ SizeMod \in Nat
    /\ MIN_ALLOC_SIZE \in Nat /\ HEADER_SIZE < MIN_ALLOC_SIZE
    /\ 2 * HeapSize + HEADER_SIZE + MIN_ALLOC_SIZE < SizeMod
    /\ Requests \subseteq 0 .. SizeMod - 1
    /\ StrayPtrs \subseteq Nat

NULL == -1    \* not a position in the heap

VARIABLES heads, hsize, hused,   \* the headers
          used,                  \* heap_state.used
          pc,                    \* where kmalloc is, "idle" outside it
          size, offset,          \* kmalloc's parameter and scan position
          live                   \* what callers hold, [ptr, size] records

vars == <<heads, hsize, hused, used, pc, size, offset, live>>

Init ==      \* heap_init
    /\ heads = {} /\ hsize = [o \in {} |-> 0] /\ hused = {}
    /\ used = 0
    /\ pc = "idle" /\ size = 0 /\ offset = 0
    /\ live = {}
-----------------------------------------------------------------------------
(* "Add space for header and align" *)
total_size(n) ==
    LET t == (HEADER_SIZE + n) % SizeMod
    IN  IF t < MIN_ALLOC_SIZE THEN MIN_ALLOC_SIZE ELSE t

(* The pointer behind the header at offset o. *)
Region(o, n) == [ptr |-> o + HEADER_SIZE, size |-> n]

Acceptable(n) == n # 0 /\ n <= HeapSize

(* Mutant: the scan goes on from where the last one ended. *)
kmalloc_call_resume(n) ==
    /\ pc = "idle" /\ Acceptable(n)
    /\ pc' = "scan" /\ size' = n
    /\ UNCHANGED <<heads, hsize, hused, used, offset, live>>

(* kmalloc is called; a size it refuses returns NULL at once. *)
kmalloc_call(n) ==
    /\ pc = "idle"
    /\ \/ /\ Acceptable(n)
          /\ pc' = "scan" /\ size' = n /\ offset' = 0
          /\ UNCHANGED <<heads, hsize, hused, used, live>>
       \/ /\ ~Acceptable(n)
          /\ UNCHANGED vars

Fits(o) == o \notin hused /\ hsize[o] >= total_size(size)

(* Mutant: the block that is found is not marked. *)
kmalloc_reuse_unmarked ==
    /\ pc = "scan" /\ offset < used /\ offset \in heads
    /\ Fits(offset)
    /\ live' = live \cup {Region(offset, size)}
    /\ pc' = "idle" /\ UNCHANGED <<heads, hsize, hused, used, size, offset>>

(* "Found free block - use it": the block keeps its size. *)
kmalloc_reuse ==
    /\ pc = "scan" /\ offset < used /\ offset \in heads
    /\ Fits(offset)
    /\ hused' = hused \cup {offset}
    /\ live' = live \cup {Region(offset, size)}
    /\ pc' = "idle" /\ UNCHANGED <<heads, hsize, used, size, offset>>

(* Mutant: the scan steps over the payload only. *)
kmalloc_skip_short ==
    /\ pc = "scan" /\ offset < used /\ offset \in heads
    /\ ~Fits(offset)
    /\ offset' = (offset + hsize[offset] - HEADER_SIZE) % SizeMod
    /\ UNCHANGED <<heads, hsize, hused, used, pc, size, live>>

(* Mutant: the scan position is not advanced. *)
kmalloc_skip_stuck ==
    /\ pc = "scan" /\ offset < used /\ offset \in heads
    /\ ~Fits(offset)
    /\ UNCHANGED vars

kmalloc_skip ==
    /\ pc = "scan" /\ offset < used /\ offset \in heads
    /\ ~Fits(offset)
    /\ offset' = (offset + hsize[offset]) % SizeMod
    /\ UNCHANGED <<heads, hsize, hused, used, pc, size, live>>

HasRoom == (used + total_size(size)) % SizeMod <= HeapSize

(* "Allocate new block at end of heap", at the end of the scan. *)
kmalloc_grow ==
    /\ pc = "scan" /\ ~(offset < used) /\ HasRoom
    /\ heads' = heads \cup {offset}
    /\ hsize' = [o \in heads \cup {offset} |->
                    IF o = offset THEN total_size(size) ELSE hsize[o]]
    /\ hused' = hused \cup {offset}
    /\ used' = (used + total_size(size)) % SizeMod
    /\ live' = live \cup {Region(offset, size)}
    /\ pc' = "idle" /\ UNCHANGED <<size, offset>>

(* NULL: "Heap corruption" when the header at the scan position has no     *)
(* magic number, "Out of memory" when there is no room for a new block.    *)
kmalloc_null ==
    /\ pc = "scan"
    /\ IF offset < used THEN offset \notin heads ELSE ~HasRoom
    /\ pc' = "idle" /\ UNCHANGED <<heads, hsize, hused, used, size, offset, live>>

kmalloc == kmalloc_reuse \/ kmalloc_skip \/ kmalloc_grow \/ kmalloc_null

(* Mutant: the header is looked for at the pointer itself. *)
kfree_misplaced(ptr) ==
    /\ pc = "idle"
    /\ hused' = hused \ {ptr}
    /\ live' = {r \in live : r.ptr # ptr}
    /\ UNCHANGED <<heads, hsize, used, pc, size, offset>>

(* A pointer with a header before it is freed, whoever holds it; NULL, and *)
(* a pointer with no magic number before it, change nothing.               *)
kfree(ptr) ==
    /\ pc = "idle"
    /\ hused' = IF ptr # NULL /\ ptr - HEADER_SIZE \in heads
                THEN hused \ {ptr - HEADER_SIZE} ELSE hused
    /\ live' = {r \in live : r.ptr # ptr}
    /\ UNCHANGED <<heads, hsize, used, pc, size, offset>>

heap_get_stats == [used |-> used, total |-> HeapSize]

Next ==
    \/ \E n \in Requests : kmalloc_call(n)
    \/ kmalloc
    \/ \E ptr \in {o + HEADER_SIZE : o \in heads} \cup {NULL} \cup StrayPtrs : kfree(ptr)

(* kmalloc runs to its return. *)
Spec == Init /\ [][Next]_vars /\ WF_vars(kmalloc)
-----------------------------------------------------------------------------
TypeOK ==
    /\ heads \in SUBSET (0 .. HeapSize - 1)
    /\ hsize \in [heads -> MIN_ALLOC_SIZE .. HeapSize]
    /\ hused \in SUBSET heads
    /\ used \in 0 .. HeapSize /\ offset \in 0 .. HeapSize
    /\ pc \in {"idle", "scan"}
    /\ size \in 0 .. HeapSize
    /\ live \in SUBSET [ptr : 0 .. HeapSize, size : 1 .. HeapSize]

(* The headers are a chain from the start of the heap to heap_state.used   *)
(* without gaps or overlaps, so that stepping by header->size lands on a   *)
(* header every time, kmalloc never reports a corrupt heap, and the scan   *)
(* position is one of the links.                                           *)
ChainTiles ==
    /\ TypeOK
    /\ 0 \in heads \cup {used}
    /\ \A o \in heads : o + hsize[o] \in heads \cup {used}
    /\ \A o \in heads : o + hsize[o] <= used
    /\ \A o, p \in heads : o < p => o + hsize[o] <= p
    /\ pc = "scan" => offset \in heads \cup {used}

(* A block is marked as used exactly while someone holds the pointer       *)
(* behind its header, and what they were promised fits in the block: no    *)
(* live block is ever handed out again and no dead one stays marked.  The  *)
(* figures of heap_get_stats cover what is held.                           *)
UsedMeansLive ==
    /\ \A r \in live : /\ r.ptr - HEADER_SIZE \in hused
                       /\ r.size + HEADER_SIZE <= hsize[r.ptr - HEADER_SIZE]
    /\ \A o \in hused : \E r \in live : r.ptr = o + HEADER_SIZE
    /\ \A r, s \in live : r.ptr = s.ptr => r = s
    /\ heap_get_stats.used <= heap_get_stats.total
    /\ \A r \in live : r.ptr + r.size <= heap_get_stats.used

(* kmalloc gives up only when it has to: with the search over, no free     *)
(* block it passed is large enough.                                        *)
SearchComplete ==
    pc = "scan" => \A o \in heads : o < offset => ~Fits(o)

(* The heap gives out disjoint regions of the heap and nothing else.       *)
Abstract == INSTANCE Regions WITH Size <- HeapSize
RegionsSpec == Abstract!Spec

(* Every call of kmalloc returns, however the heap is fragmented.          *)
KmallocReturns == pc = "scan" ~> pc = "idle"
=============================================================================
